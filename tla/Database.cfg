SPECIFICATION DbFairSpec
CONSTANTS
  Threads = {t1, t2}
  MaxTasks = 2
  Commands = {c1, c2}
  MaxSessions = 2
INVARIANTS DbTypeOK OwnStatement OutcomeIsOwn ResultsInOrder TaskTakenOnce DeletedIsFinished
CHECK_DEADLOCK FALSE
PROPERTIES ExitReturns EveryTaskReported
