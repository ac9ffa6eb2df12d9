---------------------------- MODULE MCHttpServer ----------------------------
(* TLC instances of HttpServer: what two clients may send, where only the   *)
(* first sends a request whose length is beyond an int.  The bodies are     *)
(* one that fits a new packet, one that does not, and, with MaxInt = 2, one *)
(* whose length becomes negative as an int (-3) and one that is cut (to 1). *)
EXTENDS HttpServer

Request(kind, body, served, keep) ==
  [kind |-> kind, body |-> body, served |-> served, keep |-> keep]

Last == Request("GET", 0, TRUE, FALSE)
Post == Request("POST", 1, TRUE, TRUE)
Large == Request("POST", 2, FALSE, FALSE)
Huge == Request("POST", 3, TRUE, TRUE)
Wrapped == Request("POST", 7, TRUE, TRUE)
Bad == Request("BAD", 0, TRUE, TRUE)
Long == Request("LONG", 0, TRUE, TRUE)

Short == {<<Long>>, <<Bad>>, <<Post, Last>>, <<Large>>}

MCStreams == [k \in Connections |-> IF k = 1 THEN Short \cup {<<Huge>>, <<Wrapped>>} ELSE Short]
=============================================================================
