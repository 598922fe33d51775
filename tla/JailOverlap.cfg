SPECIFICATION Spec
CONSTANTS
  Members = {m1}
  Roles = {r1}
  Managed = {b1}
  JailRole = jailed
  Workers = {w1, w2, w3}
  Sweeper = sweeper
  Minutes = {0, 1}
  DefaultMinutes = 0
  Ops = {"jail", "filter", "handjail", "config", "crash"}
  Paced = FALSE
  MaxTime = 1
  MaxStimuli = 4
  MaxFaults = 0
  MaxUpdates = 4
SYMMETRY WorkerSymmetry
INVARIANT NoSnapshotLoss
PROPERTY EscapeProof
CHECK_DEADLOCK FALSE
