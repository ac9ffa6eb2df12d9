----------------------------- MODULE KcpSessions ----------------------------
(***************************************************************************)
(* KCP sessions over UDP: src/src/network/KcpServer.cpp, KcpClient.cpp and *)
(* KcpSession.cpp, one server and some clients.                            *)
(*                                                                         *)
(* A client asks for a session with a set-up datagram, the server answers  *)
(* with the number it gave the new session (conv), and each side keeps its *)
(* sessions in a map by conv.  The network loses, delays and reorders      *)
(* datagrams and, if Duplicates, delivers some of them twice.  ikcp is     *)
(* external: it sends a message until it arrives and hands messages over   *)
(* in the order of their numbers, which each end counts from the creation  *)
(* of its own control block.                                               *)
(***************************************************************************)
EXTENDS Integers, Sequences

CONSTANTS
  Clients,      \* the KcpClient objects
  Server,       \* the KcpServer object
  Duplicates,   \* whether the network repeats set-up datagrams and answers
  MaxSetups,    \* bound: calls of createSession
  MaxSessions,  \* bound: sessions the server creates
  MaxObjects,   \* bound: KcpSession objects of both sides
  MaxSends      \* bound: calls of sendMsg on a session

ASSUME ServerAssumption == Server \notin Clients
ASSUME DuplicatesAssumption == Duplicates \in BOOLEAN
ASSUME BoundsAssumption == {MaxSetups, MaxSessions, MaxObjects, MaxSends} \subseteq Nat

VARIABLES
  gSessionid,  \* the last number the server gave
  setups,      \* how many times createSession was called
  sessions,    \* the KcpSession objects, in order of creation
  map,         \* __m_mapSessions of each side: the object of a conv, 0 for none
  net,         \* the datagrams on their way
  inUpdate,    \* the session whose onMsg is running in update(), 0 for none
  up           \* the server's socket is open

kcpVars == <<gSessionid, setups, sessions, map, net, inUpdate, up>>

Sides == Clients \cup {Server}
Convs == 1 .. MaxSessions
Objects == 1 .. Len(sessions)

(* live: not released; sends: messages sent; input[n]: the session that     *)
(* sent the n-th message ikcp_input was given, 0 if it did not come yet;    *)
(* read: messages handed to onMsg                                           *)
Session == [side : Sides, peer : Sides, conv : Convs, live : BOOLEAN,
            sends : 0 .. MaxSends, input : [1 .. MaxSends -> 0 .. MaxObjects],
            read : 0 .. MaxSends]

NewSession(side, peer, conv) ==
  [side |-> side, peer |-> peer, conv |-> conv, live |-> TRUE, sends |-> 0,
   input |-> [n \in 1 .. MaxSends |-> 0], read |-> 0]

Setup(c, n) == [kind |-> "setup", client |-> c, number |-> n]
Answer(c, conv) == [kind |-> "answer", client |-> c, conv |-> conv]
Push(to, conv, from, n) ==
  [kind |-> "push", to |-> to, conv |-> conv, from |-> from, number |-> n]

KcpTypeOK ==
  /\ gSessionid \in 0 .. MaxSessions
  /\ setups \in 0 .. MaxSetups
  /\ sessions \in Seq(Session) /\ Len(sessions) <= MaxObjects
  /\ map \in [Sides -> [Convs -> 0 .. Len(sessions)]]
  /\ \A d \in net :
       \/ \E c \in Clients, n \in 1 .. MaxSetups : d = Setup(c, n)
       \/ \E c \in Clients, conv \in Convs : d = Answer(c, conv)
       \/ \E s \in Sides, conv \in Convs, o \in Objects, n \in 1 .. MaxSends :
            d = Push(s, conv, o, n)
  /\ inUpdate \in 0 .. Len(sessions)
  /\ up \in BOOLEAN

KcpInit ==
  /\ gSessionid = 0
  /\ setups = 0
  /\ sessions = <<>>
  /\ map = [s \in Sides |-> [conv \in Convs |-> 0]]
  /\ net = {}
  /\ inUpdate = 0
  /\ up = TRUE

(* what is left of the network when d has arrived *)
After(d) == IF Duplicates THEN net ELSE net \ {d}

-----------------------------------------------------------------------------
(* The application.  It may call these from any callback, that of the very  *)
(* session it closes included.                                              *)

CreateSession(c) ==
  /\ setups < MaxSetups
  /\ setups' = setups + 1
  /\ net' = net \cup {Setup(c, setups + 1)}
  /\ UNCHANGED <<gSessionid, sessions, map, inUpdate, up>>

(* sendMsg: ikcp_send and ikcp_flush, on a socket that may be closed *)
SendMsg(o) ==
  LET s == sessions[o] IN
  /\ s.live /\ s.sends < MaxSends
  /\ sessions' = [sessions EXCEPT ![o].sends = @ + 1]
  /\ net' = IF s.side = Server /\ ~up THEN net
            ELSE net \cup {Push(s.peer, s.conv, o, s.sends + 1)}
  /\ UNCHANGED <<gSessionid, setups, map, inUpdate, up>>

(* release: the control block and the object are freed.  A closeSession in  *)
(* onClose does nothing, since getSessionId() is 0 by then.                 *)
Release(o) == sessions' = [sessions EXCEPT ![o].live = FALSE]

Erase(side, conv) == map' = [map EXCEPT ![side][conv] = 0]

(* seeded fault: the session is released and its entry stays *)
CloseSessionKeepEntry(o) ==
  /\ sessions[o].live
  /\ Release(o)
  /\ UNCHANGED <<gSessionid, setups, map, net, inUpdate, up>>

(* closeSession, from anywhere; onUdpTimeout is the callback it is for.     *)
(* The entry of the session's number is erased, whichever session it is     *)
(* of; when there is none, nothing happens.                                 *)
CloseSession(o) ==
  LET s == sessions[o] IN
  /\ s.live
  /\ IF map[s.side][s.conv] # 0
       THEN Erase(s.side, s.conv) /\ Release(o)
       ELSE UNCHANGED <<map, sessions>>
  /\ UNCHANGED <<gSessionid, setups, net, inUpdate, up>>

Shutdown ==
  /\ up
  /\ up' = FALSE
  /\ UNCHANGED <<gSessionid, setups, sessions, map, net, inUpdate>>

-----------------------------------------------------------------------------
(* KcpServer::onMessage *)

Accept(d, conv, answers) ==
  LET new == Len(sessions) + 1 IN
  /\ up /\ inUpdate = 0
  /\ d \in net /\ d.kind = "setup"
  /\ gSessionid < MaxSessions /\ new <= MaxObjects
  /\ sessions' = Append(sessions, NewSession(Server, d.client, conv))
  /\ map' = [map EXCEPT ![Server][conv] = new]
  /\ net' = After(d) \cup answers
  /\ UNCHANGED <<setups, inUpdate, up>>

(* Seeded faults: the number of a session that is gone is given again; the  *)
(* counter is not advanced; it is advanced after it was used.               *)
AcceptLowestFree(d) ==
  LET free == {conv \in Convs : map[Server][conv] = 0}
      low == CHOOSE conv \in free : \A e \in free : conv <= e
  IN  /\ free # {}
      /\ Accept(d, low, {Answer(d.client, low)})
      /\ UNCHANGED gSessionid

AcceptSameNumber(d) ==
  /\ Accept(d, 1, {Answer(d.client, 1)})
  /\ UNCHANGED gSessionid

AcceptPostIncrement(d) ==
  /\ Accept(d, gSessionid, {Answer(d.client, gSessionid)})
  /\ gSessionid' = gSessionid + 1

(* A set-up datagram makes a session of its own, with the next number. *)
AcceptSession(d) ==
  /\ Accept(d, gSessionid + 1, {Answer(d.client, gSessionid + 1)})
  /\ gSessionid' = gSessionid + 1

(* KcpClient::onMessage: an answer makes a session, whatever the map has.   *)
ConnectSession(d) ==
  LET new == Len(sessions) + 1 IN
  /\ inUpdate = 0
  /\ d \in net /\ d.kind = "answer"
  /\ new <= MaxObjects
  /\ sessions' = Append(sessions, NewSession(d.client, Server, d.conv))
  /\ map' = [map EXCEPT ![d.client][d.conv] = new]
  /\ net' = After(d)
  /\ UNCHANGED <<gSessionid, setups, inUpdate, up>>

(* update of session o, whose control block has been given input: at most   *)
(* one message is handed to onMsg, which runs until UpdateReturns.          *)
Update(o, input) ==
  LET n == sessions[o].read + 1 IN
  IF n \in 1 .. MaxSends /\ input[n] # 0
    THEN /\ sessions' = [sessions EXCEPT ![o].input = input, ![o].read = n]
         /\ inUpdate' = o
    ELSE /\ sessions' = [sessions EXCEPT ![o].input = input]
         /\ UNCHANGED inUpdate

(* A datagram of the conversation arrives, on either side; a message that   *)
(* came before is dropped by ikcp_input.                                    *)
Receive(d) ==
  /\ inUpdate = 0
  /\ d \in net /\ d.kind = "push"
  /\ d.to = Server => up
  /\ LET o == map[d.to][d.conv] IN
     /\ o # 0
     /\ Update(o, IF sessions[o].input[d.number] # 0 THEN sessions[o].input
                  ELSE [sessions[o].input EXCEPT ![d.number] = d.from])
  /\ UNCHANGED <<gSessionid, setups, map, net, up>>

(* a datagram with the number of a session that ikcp_input refuses *)
Refuse(side, conv) ==
  /\ inUpdate = 0
  /\ side = Server => up
  /\ map[side][conv] # 0
  /\ Release(map[side][conv])
  /\ Erase(side, conv)
  /\ UNCHANGED <<gSessionid, setups, net, inUpdate, up>>

(* seeded fault: start() does not start the timer *)
TickNever(o) == FALSE

(* KcpSession::update, called by the timer, when a message waits *)
Tick(o) ==
  /\ inUpdate = 0
  /\ sessions[o].live
  /\ Update(o, sessions[o].input)
  /\ inUpdate' # 0
  /\ UNCHANGED <<gSessionid, setups, map, net, up>>

(* onMsg returns, and update() goes on with the session.  If the session    *)
(* was closed meanwhile it goes on with memory that was freed: what the     *)
(* program does then is not defined, and the model ends there.              *)
UpdateReturns ==
  /\ inUpdate # 0 /\ sessions[inUpdate].live
  /\ inUpdate' = 0
  /\ UNCHANGED <<gSessionid, setups, sessions, map, net, up>>

-----------------------------------------------------------------------------
KcpNext ==
  \/ \E c \in Clients : CreateSession(c)
  \/ \E o \in Objects : SendMsg(o) \/ CloseSession(o) \/ Tick(o)
  \/ \E d \in net : AcceptSession(d) \/ ConnectSession(d) \/ Receive(d)
  \/ \E side \in Sides, conv \in Convs : Refuse(side, conv)
  \/ UpdateReturns
  \/ Shutdown

KcpSpec == KcpInit /\ [][KcpNext]_kcpVars

(* ikcp sends a message until the other end has it *)
Awaited(to, conv, o, n) ==
  /\ Push(to, conv, o, n) \in net
  /\ map[to][conv] # 0 /\ sessions[map[to][conv]].input[n] = 0
  /\ sessions[o].live

(* The timers run, callbacks return, and a message that is sent again and   *)
(* again arrives at last; a set-up datagram or an answer may be lost.       *)
KcpFairSpec ==
  /\ KcpSpec
  /\ WF_kcpVars(UpdateReturns)
  /\ \A o \in 1 .. MaxObjects : WF_kcpVars(o \in Objects /\ Tick(o))
  /\ \A to \in Sides, conv \in Convs, o \in 1 .. MaxObjects, n \in 1 .. MaxSends :
       SF_kcpVars(Awaited(to, conv, o, n) /\ Receive(Push(to, conv, o, n)))

-----------------------------------------------------------------------------
(* A datagram finds only sessions that are not released.                    *)
MappedIsLive ==
  \A side \in Sides, conv \in Convs :
    LET o == map[side][conv] IN
    o # 0 => sessions[o].live /\ sessions[o].side = side /\ sessions[o].conv = conv

(* The server can find and close every session it has.                      *)
ServerFindsAll ==
  \A o \in Objects :
    sessions[o].live /\ sessions[o].side = Server => map[Server][sessions[o].conv] = o

(* Messages of different sessions are never mixed: all that a session read  *)
(* was sent in its own conversation, from the side it talks to, by one      *)
(* session that read nothing but messages of this one.  Only an answer that *)
(* came twice gives a conversation two sessions of one side (twins), which  *)
(* share it.                                                                *)
Partners(o) == {sessions[o].input[n] : n \in 1 .. sessions[o].read}
HasTwin(o) ==
  \E p \in Objects \ {o} :
    sessions[p].side = sessions[o].side /\ sessions[p].conv = sessions[o].conv
OnePartner ==
  \A o \in Objects : \A p \in Partners(o) :
    /\ sessions[p].conv = sessions[o].conv
    /\ sessions[p].side = sessions[o].peer /\ sessions[p].peer = sessions[o].side
    /\ HasTwin(o) \/ HasTwin(p) \/ (Partners(o) = {p} /\ Partners(p) \subseteq {o})

(* KcpEvent.h recommends to close a session that timed out.  A session that *)
(* closeSession finds no entry for cannot be closed.                        *)
Closable ==
  \A o \in Objects : sessions[o].live => map[sessions[o].side][sessions[o].conv] # 0

(* A message sent on a session is read by the application of its partner,   *)
(* if neither is closed, the server is not shut down, and no other session  *)
(* is closed in its own onMsg, after which nothing is defined.              *)
Partner(o, p) ==
  /\ {o, p} \subseteq Objects
  /\ sessions[o].live /\ sessions[p].live
  /\ sessions[o].conv = sessions[p].conv /\ sessions[o].side # sessions[p].side
UpdateOfClosed == inUpdate # 0 /\ ~sessions[inUpdate].live
EveryMessageRead ==
  \A o, p \in 1 .. MaxObjects, n \in 1 .. MaxSends :
    (up /\ Partner(o, p) /\ sessions[o].sends >= n) ~>
      (~up \/ ~Partner(o, p) \/ sessions[p].read >= n \/ UpdateOfClosed)
=============================================================================
