CONSTANTS
  s1 = s1  s2 = s2  acme = acme  bolt = bolt
  Sessions = {s1, s2}
  Companies = {acme, bolt}
  Batches <- MCBatches
  Stored <- MCStored
  NoPosting = NoPosting
  MaxBegun = 2
  Readers = {r1}
  Published = {acme}
  NoVersion = NoVersion
  MaxRequests = 2
  Watched <- MCWatched
  MaxErrors = 1
CHECK_DEADLOCK FALSE
SPECIFICATION FairSpec
INVARIANTS
  SourcesAndPostingsMatch
  SearchesFollowInvalidation
PROPERTIES
  CommitsUnderClaim
  CacheCatchesUp
