SPECIFICATION OperSpec
CONSTANTS
  Keys = {"p", "q"}
  Privs = {1, 2}
  Blocks = {1, 2, 3}
  OpClients = {"a"}
  Conns = {"d"}
  MaxStored = 1
INVARIANT ListedAllocated
CHECK_DEADLOCK FALSE
