SPECIFICATION TimerSpec
CONSTANTS
  Timers = {t1, t2, t3, t4, t5, t6}
  NULL = NULL
  Repeating = {t1}
  Starts <- MCStarts
  ClockMod = 4
  MaxTurns = 2
  Restart = FALSE
SYMMETRY MCSymmetry
INVARIANTS TimerTypeOK CompleteTree InHeapIffArmed
PROPERTY ImplementsTimerSet
CHECK_DEADLOCK FALSE
