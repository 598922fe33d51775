SPECIFICATION Spec
CONSTANTS
  c1 = c1
  c2 = c2
  s1 = s1
  Guilds = {g1, g2}
  Strangers = {}
  Codes = {c1, c2}
  Slugs = {s1}
  Nowhere = nowhere
  Unanswered = unanswered
  Workers = {w1, w2}
  Texts <- MCTexts
  Inputs <- MCInputs
  CacheTTL = 1
  CacheCap = 1
  MaxLookups = 1
  Ops = {"post", "set", "repoint", "crash"}
  MaxTime = 1
  MaxStimuli = 3
  MaxFaults = 1
SYMMETRY Symmetry
INVARIANT TypeOK
INVARIANT CacheIsBounded
INVARIANT FlagIsEarned
INVARIANT NoFreePass
CHECK_DEADLOCK FALSE
