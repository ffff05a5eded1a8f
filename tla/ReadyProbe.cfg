SPECIFICATION Spec
CONSTANT MaxInFlight = 2
CHECK_DEADLOCK FALSE
INVARIANTS
  ReadyMeansServing
