CONSTANTS
  s1 = s1  s2 = s2  s3 = s3  s4 = s4
  p1 = p1  p2 = p2
  e1 = e1  e2 = e2
  r1 = r1  r2 = r2  r3 = r3
  Sources = {s1, s2, s3, s4}
  Postings = {p1, p2}
  Entries = {e1, e2}
  Runs = {r1, r2, r3}
  NoEntry = NoEntry
  NoPosting = NoPosting
  Home <- MCHome
  Commands <- MCCommands
  Window = 0
  MaxTime = 3
  MaxSnapshots = 3
SPECIFICATION Spec
SYMMETRY Symmetry
CHECK_DEADLOCK FALSE
INVARIANTS
  PostingFollowsSources
  CountersTellHistory
PROPERTIES
  ClosedForCause
