------------------------------ MODULE MCTimer ------------------------------
(* TLC instances of Timer. *)
EXTENDS Timer, TLC

(* the timers started with a repeat interval, wider than the clock *)
CONSTANT Repeating

MCStarts ==
    [t \in Timers |->
        IF t \in Repeating THEN {[timeout |-> 1, repeat |-> 6]}
        ELSE {[timeout |-> 1, repeat |-> 0], [timeout |-> 2, repeat |-> 0]}]

(* the others can be told apart only by what is done with them *)
MCSymmetry == Permutations(Timers \ Repeating)
=============================================================================
