SPECIFICATION KcpFairSpec
CONSTANTS
  Clients = {c1}
  Server = server
  Duplicates = FALSE
  MaxSetups = 1
  MaxSessions = 1
  MaxObjects = 2
  MaxSends = 2
CHECK_DEADLOCK FALSE
PROPERTIES EveryMessageRead
