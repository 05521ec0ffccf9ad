SPECIFICATION NetworkSpec
CONSTANTS
  Servers = {"hub", "leaf", "other"}
  Uplinks = {"hub", "leaf"}
  admin_score = 2
  oper_score = 1
  jupe_score = 4
  unjupe_score = 3
  MaxInbox = 3
  Members = {"a", "b"}
  HostOf <- MCHostOf
  cf_min_clients = 2
  CF_MIN_FIX_OPS = 2
  CF_FIX_TIME = 1
  CF_FIX_CYCLES = 2
  CF_AUTOFIX_FREQ = 2
  CF_CHANFIX_FREQ = 1
  CF_REMOVE_MODES_TIME = 0
  CF_REMOVE_BANS_TIME = 0
  ChanScoreBegin = 3
  ChanScoreEnd = 1
  UniqueIds = TRUE
  MaxPoints = 2
  PerDay = 2
  CF_DAYSAMPLES = 2
  MaxRounds = 2
  MaxSamples = 8
  MaxCrashes = 1
INVARIANTS
  VotesCounted JupesHold NothingElseHeld
  FixHeld SamplesCounted
PROPERTY OpsEarned
\* ChanScores stops at its bound on time.
CHECK_DEADLOCK FALSE
