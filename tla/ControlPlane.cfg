SPECIFICATION Spec
CONSTANTS
  e1 = e1  e2 = e2  bad = bad  q1 = q1
  t1 = t1  t2 = t2  tBlank = tBlank  tBad = tBad
  c1 = c1  c2 = c2  c3 = c3
  Expr = {e1, e2}
  Broken = {bad}
  Blank = blank
  Text = {t1, t2, tBlank, tBad}
  TrimSpace <- MCTrimSpace
  Name = {q1}
  Accepts <- MCAccepts
  Updates <- MCUpdates
  Calls = {c1, c2, c3}
CHECK_DEADLOCK FALSE
INVARIANTS
  TypeOK
  ReadsOwnUpdate
  InstallsAreAcknowledged
  TornOnlyByTwoUpdates
PROPERTIES
  ChangesAsRouterAssumes
