--------------------------- MODULE MessageChannel ---------------------------
(***************************************************************************)
(* What a framed connection promises to its two applications: messages     *)
(* arrive whole, once, and in the order they were sent; they may arrive    *)
(* until onClose and never after it; and they do arrive as long as both    *)
(* ends stay open.  Nothing is promised once an end begins to close.       *)
(***************************************************************************)
EXTENDS Naturals, Sequences

CONSTANTS Ends, OtherEnd(_)

VARIABLES
  sent,   \* the messages each end has sent
  got,    \* the messages each end has been given by onMsg
  life    \* "open", "closing", "onclose" while onClose runs, "destroyed"

chanVars == <<sent, got, life>>

ChanInit ==
  /\ sent = [e \in Ends |-> <<>>]
  /\ got = [e \in Ends |-> <<>>]
  /\ life = [e \in Ends |-> "open"]

(* any message may be sent: sent'[e] is sent[e] and one message more *)
Send(e) ==
  /\ life[e] # "destroyed"
  /\ Len(sent'[e]) = Len(sent[e]) + 1
  /\ SubSeq(sent'[e], 1, Len(sent[e])) = sent[e]
  /\ sent' = [sent EXCEPT ![e] = sent'[e]]
  /\ UNCHANGED <<got, life>>

Deliver(e) ==
  LET source == sent[OtherEnd(e)]
  IN  /\ life[e] \in {"open", "closing"}
      /\ Len(got[e]) < Len(source)
      /\ got' = [got EXCEPT ![e] = Append(@, source[Len(@) + 1])]
      /\ UNCHANGED <<sent, life>>

Hangup(e) ==
  /\ life[e] = "open"
  /\ life' = [life EXCEPT ![e] = "closing"]
  /\ UNCHANGED <<sent, got>>

OnClose(e) ==
  /\ life[e] = "closing"
  /\ life' = [life EXCEPT ![e] = "onclose"]
  /\ UNCHANGED <<sent, got>>

Delete(e) ==
  /\ life[e] = "onclose"
  /\ life' = [life EXCEPT ![e] = "destroyed"]
  /\ UNCHANGED <<sent, got>>

ChanNext == \E e \in Ends :
  Send(e) \/ Deliver(e) \/ Hangup(e) \/ OnClose(e) \/ Delete(e)

ChanSafety == ChanInit /\ [][ChanNext]_chanVars

BothOpen(e) == life[e] = "open" /\ life[OtherEnd(e)] = "open"

ChanSpec ==
  ChanSafety /\ \A e \in Ends : WF_chanVars(BothOpen(e) /\ Deliver(e))
=============================================================================
