CONSTANTS
  plain = plain
  secure = secure
  NoSite = NoSite
  None = None
  N = 4
  Origins = {plain, secure}
  HostOf <- OneHost
  SiteOf <- Sites
  Evidenced = {4}
  Paths <- TwoPaths
  Root = "/"
  Entries <- JobPages
  RuleSets <- MCRules
  MaxPages = 1
  MaxRedirects = 1
  Attempts = 2
  Budget = 2
  Limits = {3}
  MaxStarts = 2
SPECIFICATION FairSpec
CHECK_DEADLOCK FALSE
INVARIANTS
  RobotsRespected
  RebuildAgrees
PROPERTIES
  StopsOutliveTheProcess
