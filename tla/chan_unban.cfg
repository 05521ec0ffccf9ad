SPECIFICATION ChanSpec
CONSTANTS
  Clients = {"a", "b"}
  Accounts = {"a", "b"}
  Access <- MCAccess
  AutoOp = {}
  AutoVoice = {}
  Masks = {"m"}
  Matches <- MCMatches
  BanLevels = {2, 4}
  cmax_bans = 1
  MaxBants = 2
  Modes = {}
  Clearable = {}
  Options = {}
  Statuses = {}
  Changes = {"v", "b", "e"}
  Times = {1}
  Sources = {TRUE, FALSE}
  cautojoin_empty = TRUE
INVARIANT UnbanHonest
CHECK_DEADLOCK FALSE
