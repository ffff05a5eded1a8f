SPECIFICATION Spec
CONSTANTS
  h1 = h1  h2 = h2  h3 = h3
  Hosts = {h1, h2, h3}
  Public <- MCPublic
  Explicit <- MCExplicit
  Conf <- MCConf
  Try = 5
  Budget = 10
  Latency = 1
CHECK_DEADLOCK FALSE
INVARIANTS
  SystemServersAreUsed
