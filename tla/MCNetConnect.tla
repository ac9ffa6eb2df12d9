---------------------------- MODULE MCNetConnect ----------------------------
(* TLC instances of NetConnect: a client and a server end. *)
EXTENDS NetConnect

(* two messages one way and one the other *)
MCBothWays == [c \in Conns |-> IF c = "client" THEN 2 ELSE 1]
=============================================================================
