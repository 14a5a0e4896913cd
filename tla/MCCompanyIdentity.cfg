CONSTANTS
  i1 = i1
  i2 = i2
  f1 = f1
  f2 = f2
  x1 = x1
  x2 = x2
  r1 = r1
  r2 = r2
  k1 = k1
  k2 = k2
  g1 = g1
  g2 = g2
  NoSite = NoSite
  NoCompany = NoCompany
  Found = {i1, i2}
  Facts = {f1, f2}
  Imports = {2}
  NameOf <- MCNameOf
  AliasesOf <- MCAliasesOf
  SiteOf <- MCSiteOf
  PilotSiteOf <- MCPilotSiteOf
  LegalsOf <- NoLegals
  FreshIds = {x1, x2}
  Reviewers = {r1, r2}
  Curators = {k1}
  Ingesters = {g1}
  MaxBatch = 2
  MaxBegun = 4
SYMMETRY Symmetry
SPECIFICATION Spec
CHECK_DEADLOCK FALSE
INVARIANTS
  OneOwnerPerName
  AuditIsClean
  NoWaitCycle
PROPERTIES
  DecisionsLast
