CONSTANTS
  g1 = g1
  g2 = g2
  d1 = d1
  d2 = d2
  r1 = r1
  r2 = r2
  m1 = m1
  NoRound = NoRound
  Companies = {1, 2}
  Urls = {1, 3}
  Methods = {m1}
  Results <- MCNoResults
  Verdicts = {"accepted", "failed"}
  Strata = {"careers", "boards"}
  StratumOf <- MCStratumOf
  Rounds = {r1, r2}
  Files <- MCClash
  Discoverers = {}
  Regenerators = {g1, g2}
  MaxTime = 1
  MaxCommands = 3
  MaxSetBacks = 0
SYMMETRY Symmetry
SPECIFICATION Spec
INVARIANT EntriesHaveOneOwner
PROPERTY PausesTakeEffect
CHECK_DEADLOCK FALSE
