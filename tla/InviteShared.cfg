SPECIFICATION Spec
CONSTANTS
  c1 = c1
  c2 = c2
  s1 = s1
  Guilds = {g1, g2}
  Strangers = {}
  Codes = {c1}
  Slugs = {}
  Nowhere = nowhere
  Unanswered = unanswered
  Workers = {w1}
  Texts <- OneCode
  Inputs <- NothingAllowed
  CacheTTL = 1
  CacheCap = 1
  MaxLookups = 1
  Ops = {"post"}
  MaxTime = 0
  MaxStimuli = 2
  MaxFaults = 0
INVARIANT OwnInvitesPass
CHECK_DEADLOCK FALSE
