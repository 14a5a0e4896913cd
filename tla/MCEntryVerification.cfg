SPECIFICATION Spec
CONSTANTS
  r1 = r1
  r2 = r2
  q1 = q1
  q2 = q2
  c1 = c1
  c2 = c2
  s1 = s1
  b1 = b1
  b2 = b2
  w1 = w1
  w2 = w2
  NoCompany = NoCompany
  NoRun = NoRun
  MaxClaims = 2
  MaxFaults = 2
  Runs <- MCRuns
  Queries <- MCQueries
  Known = {q1}
  Clients = {c1, c2}
  Schedulers = {}
  Beats = {b1}
  Workers = {w1, w2}
  FaultSets <- MCBothFaults
SYMMETRY Symmetry
CHECK_DEADLOCK FALSE
INVARIANTS
  OneOwnerPerRun
  SuccessHasEntry
  NeverStranded
PROPERTIES
  DispatchFailureSparesClaims
  UsesRepository
