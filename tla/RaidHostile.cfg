SPECIFICATION ConsoleSpec
CONSTANTS
  Workers = {w1, w2}
  Inputs <- MCInputs
  Ops = {"join", "on", "off", "set", "form", "crash"}
  MaxTime = 2
  MaxStimuli = 3
  MaxFaults = 1
  Tokens = {k1}
  TTL = 1
  BotOwner = FALSE
  MaxTrouble = 1
SYMMETRY Symmetry
INVARIANT TypeOK
INVARIANT BurstIsGated
INVARIANT RevocationBites
PROPERTY LockdownHolds
CHECK_DEADLOCK FALSE
