SPECIFICATION FairSpec
CONSTANTS
  r1 = r1
  r2 = r2
  w1 = w1
  w2 = w2
  p1 = p1
  p2 = p2
  NoCompany = NoCompany
  NoRun = NoRun
  Runs = {r1, r2}
  Queries = {q1, q2}
  Known = {q1}
  Workers = {w1, w2}
  Beats = {b1}
  Pages = {p1, p2}
  Runtimes = {TRUE, FALSE}
  MaxRetries = 1
  MaxClaims = 7
  Scenarios <- MCScenarios
CHECK_DEADLOCK FALSE
PROPERTIES
  RetriesSpareLiveClaims
  RunsSettle
