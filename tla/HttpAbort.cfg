SPECIFICATION Spec
CONSTANTS
  Objects = {"o1"}
  MaxFree = 1
  Capacity = 4
  MaxInt = 2
  Streams <- MCStreams
  MaxConns = 1
INVARIANT NeverAsserts
CHECK_DEADLOCK FALSE
