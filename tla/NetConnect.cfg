SPECIFICATION NetFairSpec
CONSTANTS
  Conns = {"client", "server"}
  MaxSendPacket = 2
  MaxSendByte = 3
  Sizes = {2, 3}
  MaxPackets <- MCBothWays
  HeadSize = 2
  BufferSize = 3
INVARIANTS NetTypeOK DeliveredInOrder NoCompletePacketHeld
PROPERTY ImplementsChannel
CHECK_DEADLOCK FALSE
