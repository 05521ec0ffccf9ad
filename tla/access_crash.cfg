SPECIFICATION CrashSpec
CONSTANTS
  Chans = {"c1", "c2"}
  Accounts = {"a", "b"}
  LevelArgs <- MCFewLevels
INVARIANTS AtMostOneOwner ReferentialIntegrity
