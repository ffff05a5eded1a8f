SPECIFICATION Spec
CONSTANTS
  Probes = {p1, p2}
  Setters = {s1}
  Names = {a, b}
  Absent = Absent
CHECK_DEADLOCK FALSE
INVARIANTS
  TypeOK
  VerdictIsFounded
PROPERTIES
  EveryCallReturns
  ClashIsForever
