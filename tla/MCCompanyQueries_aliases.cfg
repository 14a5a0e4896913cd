CONSTANTS
  s1 = s1  s2 = s2  acme = acme  bolt = bolt
  Sessions = {s1, s2}
  Companies = {acme, bolt}
  Batches <- AliasBatches
  Stored <- MCStored
  NoPosting = NoPosting
  MaxBegun = 2
  Readers = {r1}
  Published = {acme}
  NoVersion = NoVersion
  MaxRequests = 0
  Watched <- AliasBatches
  MaxErrors = 1
CHECK_DEADLOCK FALSE
SPECIFICATION FairSpec
INVARIANT PostingsAgree
PROPERTIES DocumentsNeverGoBack EvidenceGrows
