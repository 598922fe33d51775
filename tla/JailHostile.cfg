SPECIFICATION Spec
CONSTANTS
  Members = {m1}
  Roles = {r1}
  Managed = {b1}
  JailRole = jailed
  Workers = {w1, w2}
  Sweeper = sweeper
  Minutes = {0, 2}
  DefaultMinutes = 0
  Ops = {"jail", "unjail", "filter", "handjail", "handfree", "grant", "managed", "touch", "leave", "config", "autorole", "crash", "sweep"}
  Paced = FALSE
  MaxTime = 2
  MaxStimuli = 3
  MaxFaults = 1
  MaxUpdates = 4
INVARIANT TypeOK
INVARIANT NoRoleInvented
PROPERTY ExpiryOnlyWhenDue
CHECK_DEADLOCK FALSE
