SPECIFICATION Spec
CONSTANTS
  r1 = r1
  r2 = r2
  q1 = q1
  q2 = q2
  NoCompany = NoCompany
  MaxClaims = 3
  Runs <- MCRuns
  Queries <- MCQueries
SYMMETRY Symmetry
CHECK_DEADLOCK FALSE
INVARIANTS
  OneActiveRunPerQuery
PROPERTIES
  ImplementsLifecycle
