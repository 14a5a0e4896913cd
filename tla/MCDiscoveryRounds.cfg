CONSTANTS
  g1 = g1
  g2 = g2
  d1 = d1
  d2 = d2
  r1 = r1
  r2 = r2
  m1 = m1
  NoRound = NoRound
  Companies = {1, 2}
  Urls = {1, 3}
  Methods = {m1}
  Results <- MCFirstResults
  Verdicts = {"accepted", "failed"}
  Strata = {"careers", "boards"}
  StratumOf <- MCStratumOf
  Rounds = {r1, r2}
  Files <- MCBothOrNone
  Discoverers = {d1}
  Regenerators = {g1, g2}
  MaxTime = 2
  MaxCommands = 2
  MaxSetBacks = 1
SYMMETRY Symmetry
SPECIFICATION Spec
INVARIANTS OncePerRound SamplesSpeakForRounds EntriesFollowAcceptance RoundChainsRunBack
CHECK_DEADLOCK FALSE
