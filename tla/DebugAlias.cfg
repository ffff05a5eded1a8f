SPECIFICATION Safe
CONSTANTS
  e1 = e1  e2 = e2  bad = bad
  t1 = t1  t2 = t2  tBlank = tBlank  tBad = tBad
  q1 = q1  q2 = q2  c1 = c1  c2 = c2
  Expr = {e1, e2}
  Broken = {bad}
  Blank = blank
  Text = {t1, t2, tBlank, tBad}
  TrimSpace <- MCTrimSpace
  Name = {q1, q2, c1, c2}
  Accepts <- MCAccepts
  NoQuestion = noQuestion
  Queries = {q1, q2, noQuestion}
  Answers <- MCAnswers
  Updates <- MCUpdates
  Configs <- AppExplicit
  Requests = {r1}
INVARIANTS
  DebugNamesMatchedAlias
