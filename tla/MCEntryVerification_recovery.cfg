SPECIFICATION FairSpec
CONSTANTS
  r1 = r1
  r2 = r2
  q1 = q1
  q2 = q2
  c1 = c1
  c2 = c2
  s1 = s1
  b1 = b1
  b2 = b2
  w1 = w1
  w2 = w2
  NoCompany = NoCompany
  NoRun = NoRun
  MaxClaims = 4
  MaxFaults = 3
  Runs = {r1}
  Queries = {q1}
  Known = {q1}
  Clients = {c1}
  Schedulers = {s1}
  Beats = {b1}
  Workers = {w1, w2}
  FaultSets <- MCBothFaults
INVARIANTS
  OneOwnerPerRun
  SuccessHasEntry
  NeverStranded
PROPERTIES
  DispatchFailureSparesClaims
  EventuallySettled
CHECK_DEADLOCK FALSE
