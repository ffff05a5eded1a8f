SPECIFICATION Spec
CONSTANTS
  Handlers = {h1}
  Loggers = {l1, l2}
  Main = l1
  Components = {c}
  Nil = Nil
  MaxChanges = 3
CHECK_DEADLOCK FALSE
INVARIANTS
  TypeOK
  CoreFollowsFlags
  JournalInOrder
  MissingLineIsExplained
  BlockInOneLogger
