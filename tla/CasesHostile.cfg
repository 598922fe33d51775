SPECIFICATION Spec
CONSTANTS
  Guilds = {g1}
  Users = {u1}
  Workers = {w1, w2}
  Policies <- MCPolicies
  Ops = {"warn", "note", "mod", "raid", "content", "silent", "policy", "crash"}
  ListLimit = 3
  MaxTime = 2
  MaxStimuli = 3
  MaxFaults = 1
  MaxStoreFaults = 1
SYMMETRY WorkerSymmetry
INVARIANT TypeOK
INVARIANT NoPhantomCase
INVARIANT NoMissedEscalation
PROPERTY AuditTrail
PROPERTY LogSpec
CHECK_DEADLOCK FALSE
