CONSTANTS
  s1 = s1  s2 = s2  a1 = a1
  p1 = p1  p2 = p2
  e1 = e1  e2 = e2
  r1 = r1  r2 = r2  r3 = r3
  w1 = w1  w2 = w2
  NoEntry = NoEntry
  NoPosting = NoPosting
  Home <- MCHome
  Commands <- MCCommands
  ListEntry = e1
  Sources = {s1, a1}
  Postings = {p1, p2}
  Entries = {e1}
  Runs = {r1, r2}
  Window = 0
  MaxTime = 2
  MaxSnapshots = 3
  Workers = {w1, w2}
  Enumerated = {s1}
  AtsSources = {a1}
  AtsEntries = {e1}
  PageEntries = {e1}
  Freshness = 0
  MaxDeaths = 1
  Outcomes = {TRUE, FALSE}
SPECIFICATION WritersSpec
SYMMETRY Symmetry
CHECK_DEADLOCK FALSE
PROPERTIES
  GhostsComeFromMoves
  EnumerationsCloseForCause
  ListsRepairUnlessStale
