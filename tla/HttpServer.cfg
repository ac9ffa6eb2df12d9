SPECIFICATION FairSpec
CONSTANTS
  Objects = {"o1", "o2"}
  MaxFree = 1
  Capacity = 4
  MaxInt = 2
  Streams <- MCStreams
  MaxConns = 2
INVARIANTS HttpTypeOK RequestsInOrder AnswersToAsker PoolSound
PROPERTY AnsweredIsReleased
CHECK_DEADLOCK FALSE
