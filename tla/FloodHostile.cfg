SPECIFICATION Spec
CONSTANTS
  Users = {u1}
  Channels = {c1, c2}
  Texts = {x}
  Blank = blank
  Workers = {w1, w2}
  Inputs <- MCInputs
  BulkMax = 2
  Ops = {"post", "reset", "unjail", "set", "crash"}
  MaxTime = 3
  MaxStimuli = 4
  MaxFaults = 1
SYMMETRY WorkerSymmetry
INVARIANT TypeOK
INVARIANT NoBurstTwice
INVARIANT BurstIsDeleted
PROPERTY BurstIsCaught
PROPERTY BoxHolds
CHECK_DEADLOCK FALSE
