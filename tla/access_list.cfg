SPECIFICATION Spec
CONSTANTS
  Chans = {"c1"}
  Accounts = {"a", "b", "d"}
  LevelArgs <- MCLevels
INVARIANTS OneOwner Mirror
PROPERTIES GrantsJustified RemovalsJustified
