SPECIFICATION Spec
CONSTANTS
  Guilds = {g1, g2}
  Users = {u1}
  Bases = {link}
  Values = {1, 2}
  NoGuild = none
  MaxCrashes = 2
  MaxFaults = 2
  MaxWrites = 2
INVARIANT TypeOK
INVARIANT MarkedMeansMoved
PROPERTY UpgradeIsLossless
PROPERTY GuildStoreSpec
CHECK_DEADLOCK FALSE
