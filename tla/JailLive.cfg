SPECIFICATION FairSpec
INVARIANT NoSnapshotLoss
INVARIANT JailedIffRecord
CONSTANTS
  Members = {m1}
  Roles = {r1}
  Managed = {}
  JailRole = jailed
  Workers = {w1, w2}
  Sweeper = sweeper
  Minutes = {0, 1}
  DefaultMinutes = 1
  Ops = {"jail", "unjail", "filter", "handjail", "handfree", "touch", "leave", "sweep"}
  Paced = TRUE
  MaxTime = 3
  MaxStimuli = 6
  MaxFaults = 0
  MaxUpdates = 4
PROPERTY DueIsReleased
PROPERTY RejoinIsReapplied
PROPERTY ComesToRest
CHECK_DEADLOCK FALSE
