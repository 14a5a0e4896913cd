SPECIFICATION FairPipelineSpec
CHECK_DEADLOCK FALSE
CONSTANTS
  r1 = r1
  r2 = r2
  solo = solo
  q1 = q1
  q2 = q2
  q3 = q3
  feishu = feishu
  moka = moka
  platform = platform
  acme = acme
  Registration = Registration
  rival = rival
  Collected <- AllRuns
  Deployments <- FourDeployments
  SiteQueries <- SomeQueries
  Finds <- SomeFinds
  Urls <- TwoUrls
  Platforms <- OnePlatform
  PlatformOf <- SamePlatform
  Companies <- OneCompany
  MaxConcurrency = 2
  Interval = 1
  SiteLimit = 3
  Threads = 1
  MaxAttempts = 2
  BlockThreshold = 1
INVARIANTS
  StatusTellsOutcome
  NamedPagesAreAsked
PROPERTIES
  RunsFinish
