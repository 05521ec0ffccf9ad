SPECIFICATION ChanSpec
CONSTANTS
  Clients = {"a", "b"}
  Accounts = {"a"}
  Access <- MCAccess
  AutoOp = {"a"}
  AutoVoice = {}
  Masks = {}
  Matches <- MCMatches
  BanLevels = {}
  cmax_bans = 1
  MaxBants = 2
  Modes = {"i"}
  Clearable = {"i"}
  Options = {"RESTRICTOPS", "AUTOJOIN"}
  Statuses = {"o"}
  Changes = {"o", "simple"}
  Times = {1, 2}
  Sources = {TRUE}
  cautojoin_empty = FALSE
INVARIANTS PresenceFlagged 
PROPERTIES   EmptyChannelLeft
CHECK_DEADLOCK FALSE
