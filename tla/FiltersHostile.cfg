SPECIFICATION Spec
CONSTANTS
  Users = {u1}
  Messages <- MCMessages
  Workers = {w1, w2}
  Inputs <- MCInputs
  FloodDecays = {0}
  OtherWindows = {1}
  DayLength = 2
  Ops = {"post", "flood", "reset", "sweep", "set", "crash"}
  MaxTime = 2
  MaxStimuli = 4
  MaxFaults = 1
SYMMETRY WorkerSymmetry
INVARIANT TypeOK
INVARIANT NoMissedJail
PROPERTY DuplicateIsCaught
PROPERTY CapHolds
CHECK_DEADLOCK FALSE
