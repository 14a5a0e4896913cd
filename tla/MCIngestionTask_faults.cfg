SPECIFICATION Spec
CONSTANTS
  r1 = r1
  r2 = r2
  w1 = w1
  w2 = w2
  p1 = p1
  p2 = p2
  NoCompany = NoCompany
  NoRun = NoRun
  Runs = {r1, r2}
  Queries = {q1, q2}
  Known = {q1}
  Workers = {w1}
  Beats = {b1, b2}
  Pages = {p1}
  Runtimes = {TRUE}
  MaxRetries = 3
  MaxClaims = 4
  Scenarios <- MCFewFaults
CHECK_DEADLOCK FALSE
INVARIANTS
  QueuedRunsAreClaimable
PROPERTIES
  RedeliveryIsIdempotent
  BeatSparesLiveClaims
  PagesFiledUnderClaim
