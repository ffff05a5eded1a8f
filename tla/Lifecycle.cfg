SPECIFICATION Spec
CONSTANT MaxInFlight = 2
CHECK_DEADLOCK FALSE
INVARIANTS
  TypeOK
  CleanExitDropsNothing
  ErrorExitIsExplained
  NoListenerBlocks
  NotReadyWhileClosing
PROPERTIES
  SignalEndsProcess
