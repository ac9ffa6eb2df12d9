SPECIFICATION FairSpec
CONSTANTS
  Conns = {"c1"}
  MaxSendPacket = 2
  MaxSendByte = 3
  Sizes = {0, 1, 2}
  MaxPackets <- MCPackets
INVARIANTS TypeOK OneRequest BatchPinned StreamInOrder RecycledOnce NoRequestOutlives QueueDrains
PROPERTY EventuallyRecycled
CHECK_DEADLOCK FALSE
