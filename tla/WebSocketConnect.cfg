SPECIFICATION FairSpec
CONSTANTS
  Streams <- MCShort
  MaxTries = 1
  MaxRead = 24
INVARIANTS WsTypeOK FramesInOrder NoFrameHeld
PROPERTY EveryFrameHandled
CHECK_DEADLOCK FALSE
