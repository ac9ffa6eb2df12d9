SPECIFICATION TimerSpec
CONSTANTS
  Timers = {t1, t2}
  NULL = NULL
  Repeating = {t1}
  Starts <- MCStarts
  ClockMod = 4
  MaxTurns = 2
  Restart = TRUE
INVARIANT CompleteTree
CHECK_DEADLOCK FALSE
