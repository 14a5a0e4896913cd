CONSTANTS
  s1 = s1  s2 = s2  s3 = s3  s4 = s4
  l1 = l1  l2 = l2  x = x
  Sources = {s1, s2, s3, s4}
  Postings = {1, 2}
  PostingOf <- MCPostingOf
  Lists = {l1, l2}
  ListSources <- MCListSources
  Expirations = {x}
  Overdue <- MCOverdue
SPECIFICATION Spec
INVARIANTS
  ListsLoseNoUpdate
  NoWaitCycle
PROPERTIES
  ListsKeepCharge
