SPECIFICATION Spec
CONSTANTS
  boss = boss
  rogue = rogue
  self = self
  mod = mod
  booster = booster
  Actors = {boss, rogue, self}
  Owner = boss
  Bot = self
  Roles = {mod, booster}
  Managed = {booster}
  Workers = {w1, w2}
  Inputs <- MCInputs
  Ops = {"act", "set", "roles", "crash"}
  MaxTime = 2
  MaxStimuli = 5
  MaxFaults = 1
SYMMETRY WorkerSymmetry
INVARIANT TypeOK
INVARIANT StripIsEarned
INVARIANT Accounted
PROPERTY NukeIsCaught
CHECK_DEADLOCK FALSE
