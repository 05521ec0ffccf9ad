SPECIFICATION Spec
CONSTANTS
  ping_time = 3
  reconnect_time = 2
  ConnectTimeout = 2
  HandshakeTimeout = 3
  WriteErrors = TRUE
PROPERTY Reconnects
