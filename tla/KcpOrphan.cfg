SPECIFICATION KcpSpec
CONSTANTS
  Clients = {c1}
  Server = server
  Duplicates = TRUE
  MaxSetups = 1
  MaxSessions = 1
  MaxObjects = 3
  MaxSends = 0
CHECK_DEADLOCK FALSE
INVARIANTS Closable
