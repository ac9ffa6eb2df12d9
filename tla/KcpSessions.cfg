SPECIFICATION KcpSpec
CONSTANTS
  Clients = {c1, c2}
  Server = server
  Duplicates = TRUE
  MaxSetups = 2
  MaxSessions = 2
  MaxObjects = 4
  MaxSends = 1
CHECK_DEADLOCK FALSE
SYMMETRY KcpSymmetry
INVARIANTS KcpTypeOK OnePartner MappedIsLive ServerFindsAll
