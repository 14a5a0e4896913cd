CONSTANTS
  i1 = i1
  i2 = i2
  f1 = f1
  f2 = f2
  x1 = x1
  x2 = x2
  r1 = r1
  r2 = r2
  k1 = k1
  k2 = k2
  g1 = g1
  g2 = g2
  NoSite = NoSite
  NoCompany = NoCompany
  Found = {i1, i2}
  Facts = {}
  Imports = {}
  NameOf <- ApartNameOf
  AliasesOf <- NoAliases
  SiteOf <- NoSites
  PilotSiteOf <- MCPilotSiteOf
  LegalsOf <- ApartLegalsOf
  FreshIds = {x1, x2}
  Reviewers = {r1}
  Curators = {k1}
  Ingesters = {g1}
  MaxBatch = 1
  MaxBegun = 4
SYMMETRY Symmetry
SPECIFICATION Spec
INVARIANTS NoWaitCycle
CHECK_DEADLOCK FALSE
