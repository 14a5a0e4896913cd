CONSTANTS
  plain = plain
  secure = secure
  NoSite = NoSite
  None = None
  N = 2
  Origins = {plain, secure}
  HostOf <- OneHost
  SiteOf <- Sites
  Evidenced = {}
  Paths <- TwoPaths
  Root = "/"
  Entries <- JobPages
  RuleSets <- MCRules
  MaxPages = 1
  MaxRedirects = 1
  Attempts = 2
  Budget = 4
  Limits = {1}
  MaxStarts = 3
SPECIFICATION FairSpec
PROPERTIES SearchStaysStopped
CHECK_DEADLOCK FALSE
