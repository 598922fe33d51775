SPECIFICATION Spec
CONSTANTS
  Members = {m1}
  Roles = {r1}
  Managed = {}
  JailRole = jailed
  Workers = {w1, w2}
  Sweeper = sweeper
  Minutes = {0}
  DefaultMinutes = 0
  Ops = {"jail", "touch"}
  Paced = FALSE
  MaxTime = 0
  MaxStimuli = 2
  MaxFaults = 0
  MaxUpdates = 4
INVARIANT NoSnapshotLoss
CHECK_DEADLOCK FALSE
