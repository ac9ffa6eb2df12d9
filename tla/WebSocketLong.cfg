SPECIFICATION Spec
CONSTANTS
  Streams <- MCLong
  MaxTries = 0
  MaxRead = 9
INVARIANT FramesInOrder
CHECK_DEADLOCK FALSE
