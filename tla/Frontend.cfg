SPECIFICATION Spec
CONSTANTS
  Requests = {r1, r2}
CHECK_DEADLOCK FALSE
INVARIANTS
  TypeOK
  ScrapesAreConsistent
  BooksBalance
  ReplyFitsOutcome
PROPERTIES
  StatsCountGrpcCalls
