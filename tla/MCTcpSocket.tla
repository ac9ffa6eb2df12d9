---------------------------- MODULE MCTcpSocket ----------------------------
(* TLC instances of TcpSocket: one connection, a few packets. *)
EXTENDS TcpSocket

MCPackets == [c \in Conns |-> 5]
=============================================================================
