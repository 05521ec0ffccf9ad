SPECIFICATION ServicesSpec
CONSTANTS
  Names = {"u", "v"}
  Clients = {"a", "b"}
  Nicks = {"k", "l"}
  MaxRegs = 4
  MaxLogins = 1
  MaxNicks = 1
  Holders = {"u", "v"}
  MaxMemos = 2
  MaxId = 3
  AutoIncrement = TRUE
  Registrants = {"u"}
  Addrs = {"x", "y"}
  MaxMails = 3
  MaxRenewals = 2
  Limits = {"flood", "register", "host", "email"}
  Amount = 2
  Window = 2
  MaxIgnore = 3
  IgnoreTime = 4
  FloodGrace = 1
  Costs = {1, 2}
  MaxTime = 6
  MaxScore = 5
  Keys = {"p", "q"}
  Privs = {1, 2}
  Blocks = {1, 2, 3}
  OpClients = {"a", "b"}
  Conns = {"d"}
  MaxStored = 2
  Bans = {"K", "X"}
  BanType <- MCBanType
  BanServers = {"s"}
  Durations = {1, 2}
  bs_unban_time = 2
  MaxClock = 4
  Users = {"u", "v"}
  Exprs = {"all", "some"}
  Hits <- MCHits
  MaxAdds = 3
  MaxNegs = 2
  Inputs <- MCInputs
  ToLower <- MCToLower
  MATCH_MAX_CALLS = 7
  ByteBits = 2
  MaxMask = 1
  MaxName = 1
PROPERTY MatchesKlined
CHECK_DEADLOCK FALSE
