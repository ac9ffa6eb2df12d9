------------------------ MODULE MCWebSocketConnect --------------------------
(* TLC instances of WebSocketConnect: streams of frames that are short (the *)
(* length is in the first two bytes); and one frame with two more bytes of  *)
(* length, whose len of 2 stands for the 126 and more it would have.        *)
EXTENDS WebSocketConnect

Short(kind, len, masked) == [kind |-> kind, len |-> len, ext |-> 0, masked |-> masked]

MCShort ==
  {<<Short("data", n, TRUE), Short("data", m, p), Short(k, e, TRUE)>> :
     n \in {0, 2}, m \in {0, 1}, p \in BOOLEAN, k \in {"data", "close"}, e \in {0, 1}}

MCLong == {<<[kind |-> "data", len |-> 2, ext |-> 2, masked |-> TRUE]>>}
=============================================================================
