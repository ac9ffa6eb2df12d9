------------------------------ MODULE TimerSet ------------------------------
(***************************************************************************)
(* What the timers of src/common/Timer.cpp promise their user, without the *)
(* heap: update() runs the timers that are due, the earliest first, and    *)
(* returns only when none is due or its turns are used up; a timer that    *)
(* was stopped or destroyed never runs.                                    *)
(*                                                                         *)
(* Two things are not promised.  Deadlines are readings of a clock that    *)
(* wraps and are compared as numbers: a timer whose deadline lies beyond   *)
(* the wrap is due at once, and one that was due before the wrap and was   *)
(* not run may wait for another round of the clock.  And an armed timer    *)
(* with the deadline 0 cannot be stopped or destroyed: with the first that *)
(* is, the promise ends.                                                   *)
(***************************************************************************)
EXTENDS Naturals

CONSTANTS Timers, Starts, ClockMod, MaxTurns
VARIABLES now, time, repeat, live, turn,
    armed,  \* the timers that are to run
    behind    \* those that could not be stopped

avars == <<now, time, repeat, live, turn, armed, behind>>

Due == {t \in armed : now >= time[t]}
Deadline(delay, clock) == (delay + clock) % ClockMod

SetInit ==
    /\ now = 0
    /\ time = [t \in Timers |-> 0]
    /\ repeat = [t \in Timers |-> 0]
    /\ live = [t \in Timers |-> FALSE]
    /\ turn = 0
    /\ armed = {}
    /\ behind = {}

SetCreate(t) ==
    /\ ~live[t]
    /\ live' = [live EXCEPT ![t] = TRUE]
    /\ time' = [time EXCEPT ![t] = 0]
    /\ repeat' = [repeat EXCEPT ![t] = 0]
    /\ UNCHANGED <<now, turn, armed, behind>>

SetStart(t) ==
    /\ live[t]
    /\ t \notin armed
    /\ \E s \in Starts[t] :
          /\ time' = [time EXCEPT ![t] = Deadline(s.timeout, now)]
          /\ repeat' = [repeat EXCEPT ![t] = s.repeat % ClockMod]
    /\ armed' = armed \cup {t}
    /\ UNCHANGED <<now, live, turn, behind>>

(* stop() and the destructor: from now on t is not armed, and does not run. *)
SetDisarm(t) ==
    /\ live[t]
    /\ time' = [time EXCEPT ![t] = 0]
    /\ live' \in {live, [live EXCEPT ![t] = FALSE]}
    /\ armed' = armed \ {t}
    /\ behind' = IF t \in armed /\ time[t] = 0 THEN behind \cup {t} ELSE behind
    /\ UNCHANGED <<now, repeat, turn>>

(* The callback of a due timer that no armed timer precedes. *)
SetRun(t) ==
    /\ turn < MaxTurns
    /\ t \in Due
    /\ \A u \in armed : time[t] <= time[u]
    /\ now' \in {now, (now + 1) % ClockMod}
    /\ time' = [time EXCEPT ![t] =
                   IF repeat[t] > 0 THEN Deadline(repeat[t], now') ELSE 0]
    /\ armed' = IF repeat[t] > 0 THEN armed ELSE armed \ {t}
    /\ turn' = turn + 1
    /\ UNCHANGED <<repeat, live, behind>>

SetReturn ==
    /\ turn > 0
    /\ turn = MaxTurns \/ Due = {}
    /\ turn' = 0
    /\ UNCHANGED <<now, time, repeat, live, armed, behind>>

SetTick ==
    /\ now' = (now + 1) % ClockMod
    /\ UNCHANGED <<time, repeat, live, turn, armed, behind>>

SetNext ==
    /\ behind = {}
    /\ \/ \E t \in Timers : SetCreate(t) \/ SetStart(t) \/ SetDisarm(t) \/ SetRun(t)
       \/ SetReturn \/ SetTick

SetSpec == SetInit /\ [][SetNext]_avars
=============================================================================
