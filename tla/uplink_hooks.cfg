SPECIFICATION OutsideSpec
CONSTANTS
  ping_time = 3
  reconnect_time = 2
  ConnectTimeout = 2
  HandshakeTimeout = 3
  WriteErrors = TRUE
  SyncNames = {"u", "v"}
  Values = {1, 2}
  MaxRows = 3
  MaxCrashes = 1
INVARIANTS
  OneTimer 
PROPERTIES
  HandshakeEnds ReconnectsIfSent RowsTakenAtomically RowsUsedUp
CHECK_DEADLOCK FALSE
