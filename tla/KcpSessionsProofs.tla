------------------------- MODULE KcpSessionsProofs -------------------------
(***************************************************************************)
(* Theorems about KcpSessions: its safety properties hold for any number   *)
(* of clients, sessions and messages, with and without datagrams that      *)
(* arrive twice.                                                           *)
(***************************************************************************)
EXTENDS KcpSessions, SequenceTheorems, TLAPS

(* A number is given to one client, and nobody else hears of it.            *)
NumberInv ==
  /\ \A o \in Objects : sessions[o].conv <= gSessionid
  /\ \A o \in Objects : \/ sessions[o].side = Server /\ sessions[o].peer \in Clients
                        \/ sessions[o].side \in Clients /\ sessions[o].peer = Server
  /\ \A o, p \in Objects :
       sessions[o].side = Server /\ sessions[o].conv = sessions[p].conv =>
         IF sessions[p].side = Server THEN o = p ELSE sessions[p].side = sessions[o].peer
  /\ \A d \in net : d.kind = "answer" =>
       /\ d.conv <= gSessionid
       /\ \A o \in Objects :
            sessions[o].side = Server /\ sessions[o].conv = d.conv => sessions[o].peer = d.client

(* From: p sends to the side and the conversation o is of.                  *)
From(o, p) ==
  /\ p \in Objects
  /\ sessions[p].conv = sessions[o].conv
  /\ sessions[p].side = sessions[o].peer /\ sessions[p].peer = sessions[o].side

(* What is on its way, and what has come, is of the right conversation.     *)
StreamInv ==
  /\ \A d \in net : d.kind = "push" =>
       d.to = sessions[d.from].peer /\ d.conv = sessions[d.from].conv
  /\ \A o \in Objects, n \in 1 .. MaxSends :
       /\ sessions[o].input[n] # 0 => From(o, sessions[o].input[n])
       /\ n <= sessions[o].read => sessions[o].input[n] # 0

MapInv == MappedIsLive /\ ServerFindsAll

KcpInv == KcpTypeOK /\ MapInv /\ NumberInv /\ StreamInv

-----------------------------------------------------------------------------
(* Datagrams and objects *)

LEMMA SetupFields ==
  ASSUME KcpTypeOK, NEW d \in net, d.kind = "setup"
  PROVE  d.client \in Clients
  BY DEF KcpTypeOK, Setup, Answer, Push

LEMMA AnswerFields ==
  ASSUME KcpTypeOK, NEW d \in net, d.kind = "answer"
  PROVE  d.client \in Clients /\ d.conv \in Convs
  BY DEF KcpTypeOK, Setup, Answer, Push

LEMMA PushFields ==
  ASSUME KcpTypeOK, NEW d \in net, d.kind = "push"
  PROVE  d.to \in Sides /\ d.conv \in Convs /\ d.from \in Objects /\ d.number \in 1 .. MaxSends
  BY DEF KcpTypeOK, Setup, Answer, Push

LEMMA ObjectType ==
  ASSUME KcpTypeOK, NEW o \in Objects
  PROVE  /\ sessions[o] \in Session /\ sessions[o].side \in Sides /\ sessions[o].peer \in Sides
         /\ sessions[o].conv \in Convs /\ sessions[o].live \in BOOLEAN
         /\ sessions[o].input \in [1 .. MaxSends -> 0 .. MaxObjects]
         /\ sessions[o].read \in 0 .. MaxSends
<1>1. sessions \in Seq(Session)
  BY DEF KcpTypeOK
<1>2. sessions[o] \in Session
  BY <1>1 DEF Objects
<1> QED
  BY <1>2 DEF Session

LEMMA MappedObject ==
  ASSUME KcpTypeOK, NEW s \in Sides, NEW c \in Convs, map[s][c] # 0
  PROVE  map[s][c] \in Objects
<1>1. map[s][c] \in 0 .. Len(sessions) /\ Len(sessions) \in Nat
  BY DEF KcpTypeOK
<1> QED
  BY <1>1 DEF Objects

(* Net: the datagrams have the types KcpTypeOK gives them, where objects    *)
(* are counted up to len                                                    *)
IsDatagram(d, len) ==
  \/ \E c \in Clients, n \in 1 .. MaxSetups : d = Setup(c, n)
  \/ \E c \in Clients, conv \in Convs : d = Answer(c, conv)
  \/ \E s \in Sides, conv \in Convs, o \in 1 .. len, n \in 1 .. MaxSends :
       d = Push(s, conv, o, n)

LEMMA DatagramsStay ==
  ASSUME KcpTypeOK, NEW len \in Nat, Len(sessions) <= len
  PROVE  \A d \in net : IsDatagram(d, len)
<1> SUFFICES ASSUME NEW d \in net PROVE IsDatagram(d, len)
  OBVIOUS
<1>1. Len(sessions) \in Nat
  BY DEF KcpTypeOK
<1>2. Objects \subseteq 1 .. len
  BY <1>1 DEF Objects
<1>3. \/ \E c \in Clients, n \in 1 .. MaxSetups : d = Setup(c, n)
      \/ \E c \in Clients, conv \in Convs : d = Answer(c, conv)
      \/ \E s \in Sides, conv \in Convs, o \in Objects, n \in 1 .. MaxSends :
           d = Push(s, conv, o, n)
  BY DEF KcpTypeOK
<1> QED
  BY <1>2, <1>3 DEF IsDatagram

-----------------------------------------------------------------------------
(* What an action does to the objects: it changes one of them, makes a new  *)
(* one, or leaves them alone.                                               *)

SameEnds(o) ==
  /\ sessions'[o].side = sessions[o].side /\ sessions'[o].peer = sessions[o].peer
  /\ sessions'[o].conv = sessions[o].conv

SameStream(o) ==
  sessions'[o].input = sessions[o].input /\ sessions'[o].read = sessions[o].read

LEMMA OneChanged ==
  ASSUME KcpTypeOK, NEW o \in Objects, NEW s \in Session,
         sessions' = [sessions EXCEPT ![o] = s]
  PROVE  /\ sessions' \in Seq(Session) /\ Len(sessions') = Len(sessions) /\ Objects' = Objects
         /\ sessions'[o] = s /\ \A p \in Objects : p # o => sessions'[p] = sessions[p]
<1>1. sessions \in Seq(Session) /\ o \in 1 .. Len(sessions)
  BY DEF KcpTypeOK, Objects
<1> QED
  BY <1>1, ExceptSeq DEF Objects

LEMMA NewType ==
  ASSUME NEW s \in Sides, NEW p \in Sides, NEW c \in Convs
  PROVE  NewSession(s, p, c) \in Session
<1>1. MaxSends \in Nat /\ MaxObjects \in Nat
  BY BoundsAssumption
<1> QED
  BY <1>1 DEF NewSession, Session

LEMMA OneMade ==
  ASSUME KcpTypeOK, NEW s \in Session, sessions' = Append(sessions, s)
  PROVE  /\ sessions' \in Seq(Session) /\ Len(sessions') = Len(sessions) + 1
         /\ Objects' = Objects \cup {Len(sessions) + 1} /\ Len(sessions) + 1 \notin Objects
         /\ sessions'[Len(sessions) + 1] = s /\ \A p \in Objects : sessions'[p] = sessions[p]
<1>1. sessions \in Seq(Session) /\ Len(sessions) \in Nat
  BY DEF KcpTypeOK
<1>2. /\ sessions' \in Seq(Session) /\ Len(sessions') = Len(sessions) + 1
      /\ sessions'[Len(sessions) + 1] = s
      /\ \A p \in 1 .. Len(sessions) : sessions'[p] = sessions[p]
  BY <1>1, AppendProperties
<1> QED
  BY <1>1, <1>2 DEF Objects

(* Effects: the actions in these terms *)

LEMMA SendEffect ==
  ASSUME KcpTypeOK, NEW o \in Objects, SendMsg(o)
  PROVE  /\ \E s \in Session : /\ sessions' = [sessions EXCEPT ![o] = s]
                               /\ s.side = sessions[o].side /\ s.peer = sessions[o].peer
                               /\ s.conv = sessions[o].conv /\ s.live = sessions[o].live
                               /\ s.input = sessions[o].input /\ s.read = sessions[o].read
         /\ \E n \in 1 .. MaxSends :
              net' \subseteq net \cup {Push(sessions[o].peer, sessions[o].conv, o, n)}
<1> DEFINE s == [sessions[o] EXCEPT !.sends = @ + 1]
           n == sessions[o].sends + 1
<1>1. sessions[o] \in Session /\ MaxSends \in Nat /\ sessions[o].sends < MaxSends
  BY ObjectType, BoundsAssumption DEF SendMsg
<1>2. sessions[o].sends \in 0 .. MaxSends
  BY <1>1 DEF Session
<1>3. n \in 1 .. MaxSends
  BY <1>1, <1>2
<1>4. s \in Session
  BY <1>1, <1>3 DEF Session
<1>5. sessions' = [sessions EXCEPT ![o] = s]
  BY DEF SendMsg
<1>6. /\ s.side = sessions[o].side /\ s.peer = sessions[o].peer
      /\ s.conv = sessions[o].conv /\ s.live = sessions[o].live
      /\ s.input = sessions[o].input /\ s.read = sessions[o].read
  BY <1>1 DEF Session
<1>7. net' \subseteq net \cup {Push(sessions[o].peer, sessions[o].conv, o, n)}
  BY DEF SendMsg
<1> QED
  <2>1. \E t \in Session : /\ sessions' = [sessions EXCEPT ![o] = t]
                           /\ t.side = sessions[o].side /\ t.peer = sessions[o].peer
                           /\ t.conv = sessions[o].conv /\ t.live = sessions[o].live
                           /\ t.input = sessions[o].input /\ t.read = sessions[o].read
    <3> HIDE DEF s
    <3> QED BY <1>4, <1>5, <1>6
  <2>2. \E k \in 1 .. MaxSends :
          net' \subseteq net \cup {Push(sessions[o].peer, sessions[o].conv, o, k)}
    <3> HIDE DEF n
    <3> QED BY <1>3, <1>7
  <2> QED BY <2>1, <2>2

LEMMA ReleaseEffect ==
  ASSUME KcpTypeOK, NEW o \in Objects, Release(o)
  PROVE  \E s \in Session : /\ sessions' = [sessions EXCEPT ![o] = s]
                            /\ s.side = sessions[o].side /\ s.peer = sessions[o].peer
                            /\ s.conv = sessions[o].conv /\ s.live = FALSE
                            /\ s.input = sessions[o].input /\ s.read = sessions[o].read
<1> DEFINE s == [sessions[o] EXCEPT !.live = FALSE]
<1>1. sessions[o] \in Session
  BY ObjectType
<1>2. /\ s \in Session
      /\ s.side = sessions[o].side /\ s.peer = sessions[o].peer
      /\ s.conv = sessions[o].conv /\ s.live = FALSE
      /\ s.input = sessions[o].input /\ s.read = sessions[o].read
  BY <1>1 DEF Session
<1>3. sessions' = [sessions EXCEPT ![o] = s]
  BY DEF Release
<1> HIDE DEF s
<1> QED
  BY <1>2, <1>3

(* update: the messages that have come, and one of them handed over *)
Handed(o, s) ==
  \/ s.read = sessions[o].read /\ inUpdate' = inUpdate
  \/ /\ s.read = sessions[o].read + 1 /\ s.read \in 1 .. MaxSends
     /\ s.input[s.read] # 0 /\ inUpdate' = o

LEMMA UpdateEffect ==
  ASSUME KcpTypeOK, NEW o \in Objects, NEW input \in [1 .. MaxSends -> 0 .. MaxObjects],
         Update(o, input)
  PROVE  \E s \in Session : /\ sessions' = [sessions EXCEPT ![o] = s]
                            /\ s.side = sessions[o].side /\ s.peer = sessions[o].peer
                            /\ s.conv = sessions[o].conv /\ s.live = sessions[o].live
                            /\ s.input = input /\ Handed(o, s)
<1> DEFINE n == sessions[o].read + 1
           r == [sessions[o] EXCEPT !.input = input, !.read = n]
           u == [sessions[o] EXCEPT !.input = input]
<1>1. sessions[o] \in Session /\ MaxSends \in Nat
  BY ObjectType, BoundsAssumption
<1>2. CASE n \in 1 .. MaxSends /\ input[n] # 0
  <2>1. sessions' = [sessions EXCEPT ![o].input = input, ![o].read = n] /\ inUpdate' = o
    BY <1>2 DEF Update
  <2>2. sessions \in Seq(Session) /\ o \in 1 .. Len(sessions)
    BY DEF KcpTypeOK, Objects
  <2>3. DOMAIN sessions = 1 .. Len(sessions)
    BY <2>2
  <2>4. sessions' = [sessions EXCEPT ![o] = r]
    BY <2>1, <2>2, <2>3
  <2>5. n \in 0 .. MaxSends /\ n = sessions[o].read + 1
    BY <1>1, <1>2
  <2>6. r \in Session
    BY <1>1, <2>5 DEF Session
  <2>7. /\ r.side = sessions[o].side /\ r.peer = sessions[o].peer
        /\ r.conv = sessions[o].conv /\ r.live = sessions[o].live /\ r.input = input /\ r.read = n
    BY <1>1 DEF Session
  <2>8. Handed(o, r)
    <3> HIDE DEF r
    <3> QED BY <1>2, <2>1, <2>5, <2>7 DEF Handed
  <2> HIDE DEF r
  <2> QED
    BY <2>4, <2>6, <2>7, <2>8
<1>3. CASE ~(n \in 1 .. MaxSends /\ input[n] # 0)
  <2>1. sessions' = [sessions EXCEPT ![o] = u] /\ inUpdate' = inUpdate
    BY <1>3 DEF Update
  <2>2. u \in Session
    BY <1>1 DEF Session
  <2>3. /\ u.side = sessions[o].side /\ u.peer = sessions[o].peer
        /\ u.conv = sessions[o].conv /\ u.live = sessions[o].live /\ u.input = input
        /\ u.read = sessions[o].read
    BY <1>1 DEF Session
  <2> HIDE DEF u
  <2>4. Handed(o, u)
    BY <2>1, <2>3 DEF Handed
  <2> QED
    BY <2>1, <2>2, <2>3, <2>4
<1> QED
  BY <1>2, <1>3

(* Came: the messages session o has after datagram d *)
Came(o, d) ==
  IF sessions[o].input[d.number] # 0 THEN sessions[o].input
  ELSE [sessions[o].input EXCEPT ![d.number] = d.from]

LEMMA ReceiveEffect ==
  ASSUME KcpTypeOK, MappedIsLive, NEW d \in net, Receive(d)
  PROVE  /\ d.kind = "push"
         /\ \E o \in Objects :
              /\ o = map[d.to][d.conv] /\ sessions[o].live
              /\ sessions[o].side = d.to /\ sessions[o].conv = d.conv
              /\ \E s \in Session : /\ sessions' = [sessions EXCEPT ![o] = s]
                                    /\ s.side = sessions[o].side /\ s.peer = sessions[o].peer
                                    /\ s.conv = sessions[o].conv /\ s.live = sessions[o].live
                                    /\ s.input = Came(o, d) /\ Handed(o, s)
<1> DEFINE o == map[d.to][d.conv]
<1>1. d.kind = "push" /\ o # 0
  BY DEF Receive
<1>2. d.to \in Sides /\ d.conv \in Convs /\ d.from \in Objects /\ d.number \in 1 .. MaxSends
  BY <1>1, PushFields
<1>3. o \in Objects
  BY <1>1, <1>2, MappedObject
<1>4. sessions[o].live /\ sessions[o].side = d.to /\ sessions[o].conv = d.conv
  BY <1>1, <1>2 DEF MappedIsLive
<1>5. Update(o, Came(o, d))
  BY DEF Receive, Came
<1>6. d.from \in 0 .. MaxObjects
  <2>1. Len(sessions) \in Nat /\ Len(sessions) <= MaxObjects /\ MaxObjects \in Nat
    BY BoundsAssumption DEF KcpTypeOK
  <2> QED
    BY <1>2, <2>1 DEF Objects
<1> HIDE DEF o
<1>7. Came(o, d) \in [1 .. MaxSends -> 0 .. MaxObjects]
  BY <1>2, <1>3, <1>6, ObjectType DEF Came
<1>8. \E s \in Session : /\ sessions' = [sessions EXCEPT ![o] = s]
                         /\ s.side = sessions[o].side /\ s.peer = sessions[o].peer
                         /\ s.conv = sessions[o].conv /\ s.live = sessions[o].live
                         /\ s.input = Came(o, d) /\ Handed(o, s)
  BY <1>3, <1>5, <1>7, UpdateEffect
<1> QED
  BY <1>1, <1>3, <1>4, <1>8 DEF o

LEMMA TickEffect ==
  ASSUME KcpTypeOK, NEW o \in Objects, Tick(o)
  PROVE  /\ sessions[o].live /\ inUpdate = 0
         /\ \E s \in Session : /\ sessions' = [sessions EXCEPT ![o] = s]
                               /\ s.side = sessions[o].side /\ s.peer = sessions[o].peer
                               /\ s.conv = sessions[o].conv /\ s.live = sessions[o].live
                               /\ s.input = sessions[o].input /\ Handed(o, s)
<1>1. Update(o, sessions[o].input) /\ sessions[o].live /\ inUpdate = 0
  BY DEF Tick
<1>2. sessions[o].input \in [1 .. MaxSends -> 0 .. MaxObjects]
  BY ObjectType
<1> QED
  BY <1>1, <1>2, UpdateEffect

(* A session gone: it is released and the entry of its number erased.       *)
Gone(o) == Release(o) /\ Erase(sessions[o].side, sessions[o].conv)

LEMMA CloseEffect ==
  ASSUME NEW o \in Objects, CloseSession(o)
  PROVE  /\ Gone(o) \/ UNCHANGED <<map, sessions>>
         /\ UNCHANGED <<gSessionid, setups, net, inUpdate, up>>
  BY DEF CloseSession, Gone

LEMMA RefuseEffect ==
  ASSUME KcpTypeOK, MappedIsLive, NEW s \in Sides, NEW c \in Convs, Refuse(s, c)
  PROVE  /\ \E o \in Objects : Gone(o)
         /\ UNCHANGED <<gSessionid, setups, net, inUpdate, up>>
<1>1. map[s][c] \in Objects
  BY MappedObject DEF Refuse
<1>2. sessions[map[s][c]].side = s /\ sessions[map[s][c]].conv = c
  BY DEF Refuse, MappedIsLive
<1>3. Gone(map[s][c])
  <2>1. Release(map[s][c]) /\ Erase(s, c)
    BY DEF Refuse
  <2> QED
    BY <1>2, <2>1 DEF Gone
<1> QED
  BY <1>1, <1>3 DEF Refuse

(* A session made, with its entry *)
Made(side, peer, conv) ==
  /\ Len(sessions) + 1 <= MaxObjects
  /\ sessions' = Append(sessions, NewSession(side, peer, conv))
  /\ map' = [map EXCEPT ![side][conv] = Len(sessions) + 1]
  /\ inUpdate = 0

LEMMA AcceptEffect ==
  ASSUME KcpTypeOK, NEW d \in net, AcceptSession(d)
  PROVE  /\ d.client \in Clients /\ gSessionid + 1 \in Convs /\ gSessionid' = gSessionid + 1
         /\ Made(Server, d.client, gSessionid + 1)
         /\ net' \subseteq net \cup {Answer(d.client, gSessionid + 1)}
         /\ UNCHANGED <<setups, inUpdate, up>>
<1>1. d.client \in Clients
  BY SetupFields DEF AcceptSession, Accept
<1>2. gSessionid < MaxSessions /\ gSessionid \in 0 .. MaxSessions /\ MaxSessions \in Nat
  BY BoundsAssumption DEF AcceptSession, Accept, KcpTypeOK
<1>3. gSessionid + 1 \in Convs
  BY <1>2 DEF Convs
<1> QED
  BY <1>1, <1>3 DEF AcceptSession, Accept, Made, After

LEMMA ConnectEffect ==
  ASSUME KcpTypeOK, NEW d \in net, ConnectSession(d)
  PROVE  /\ d.kind = "answer" /\ d.client \in Clients /\ d.conv \in Convs
         /\ Made(d.client, Server, d.conv)
         /\ net' \subseteq net
         /\ UNCHANGED <<gSessionid, setups, inUpdate, up>>
<1>1. d.kind = "answer" /\ d.client \in Clients /\ d.conv \in Convs
  BY AnswerFields DEF ConnectSession
<1> QED
  BY <1>1 DEF ConnectSession, Made, After

-----------------------------------------------------------------------------
(* Type correctness *)

LEMMA NextType ==
  ASSUME NEW len, sessions' \in Seq(Session), Len(sessions') = len, len <= MaxObjects,
         gSessionid' \in 0 .. MaxSessions, setups' \in 0 .. MaxSetups,
         map' \in [Sides -> [Convs -> 0 .. len]], \A d \in net' : IsDatagram(d, len),
         inUpdate' \in 0 .. len, up' \in BOOLEAN
  PROVE  KcpTypeOK'
<1>1. Objects' = 1 .. len
  BY DEF Objects
<1>2. \A d \in net' :
        \/ \E c \in Clients, n \in 1 .. MaxSetups : d = Setup(c, n)
        \/ \E c \in Clients, conv \in Convs : d = Answer(c, conv)
        \/ \E s \in Sides, conv \in Convs, o \in Objects', n \in 1 .. MaxSends :
             d = Push(s, conv, o, n)
  BY <1>1, Zenon DEF IsDatagram
<1> QED
  BY <1>2 DEF KcpTypeOK

LEMMA KcpTypeStep ==
  ASSUME KcpTypeOK, MappedIsLive, [KcpNext]_kcpVars
  PROVE  KcpTypeOK'
<1> DEFINE len == Len(sessions)
<1>1. /\ gSessionid \in 0 .. MaxSessions /\ setups \in 0 .. MaxSetups
      /\ sessions \in Seq(Session) /\ len \in Nat /\ len <= MaxObjects
      /\ map \in [Sides -> [Convs -> 0 .. len]]
      /\ inUpdate \in 0 .. len /\ up \in BOOLEAN
      /\ {MaxSetups, MaxSessions, MaxObjects, MaxSends} \subseteq Nat
  BY BoundsAssumption DEF KcpTypeOK
<1>2. \A d \in net : IsDatagram(d, len)
  BY <1>1, DatagramsStay
<1>3. ASSUME NEW c \in Clients, CreateSession(c) PROVE KcpTypeOK'
  <2>1. setups + 1 \in 1 .. MaxSetups
    BY <1>1, <1>3 DEF CreateSession
  <2>2. IsDatagram(Setup(c, setups + 1), len)
    BY <2>1 DEF IsDatagram
  <2>3. \A d \in net' : IsDatagram(d, len)
    BY <1>2, <1>3, <2>2 DEF CreateSession
  <2> QED
    BY <1>1, <1>3, <2>1, <2>3, NextType DEF CreateSession
<1>4. ASSUME NEW o \in Objects, SendMsg(o) PROVE KcpTypeOK'
  <2>1. sessions' \in Seq(Session) /\ len' = len
    BY <1>4, SendEffect, OneChanged
  <2>2. PICK n \in 1 .. MaxSends :
          net' \subseteq net \cup {Push(sessions[o].peer, sessions[o].conv, o, n)}
    BY <1>4, SendEffect
  <2>3. IsDatagram(Push(sessions[o].peer, sessions[o].conv, o, n), len)
    <3>1. sessions[o].peer \in Sides /\ sessions[o].conv \in Convs /\ o \in 1 .. len
      BY ObjectType DEF Objects
    <3> QED
      BY <3>1 DEF IsDatagram
  <2>4. \A d \in net' : IsDatagram(d, len)
    BY <1>2, <2>2, <2>3
  <2>5. UNCHANGED <<gSessionid, setups, map, inUpdate, up>>
    BY <1>4 DEF SendMsg
  <2> HIDE DEF len
  <2> QED
    BY <1>1, <2>1, <2>4, <2>5, NextType DEF len
<1>5. ASSUME NEW o \in Objects, Gone(o), UNCHANGED <<gSessionid, setups, net, inUpdate, up>>
      PROVE  KcpTypeOK'
  <2>1. sessions' \in Seq(Session) /\ len' = len
    BY <1>5, ReleaseEffect, OneChanged DEF Gone
  <2>2. map' \in [Sides -> [Convs -> 0 .. len]]
    BY <1>1, <1>5, ObjectType DEF Gone, Erase
  <2> QED
    BY <1>1, <1>2, <1>5, <2>1, <2>2, NextType
<1>6. ASSUME NEW o \in Objects, CloseSession(o) PROVE KcpTypeOK'
  <2>1. UNCHANGED <<gSessionid, setups, net, inUpdate, up>>
    BY <1>6, CloseEffect
  <2>2. CASE UNCHANGED <<map, sessions>>
    BY <1>1, <1>2, <2>1, <2>2, NextType
  <2> QED
    BY <1>5, <1>6, <2>1, <2>2, CloseEffect
<1>7. ASSUME NEW s \in Sides, NEW c \in Convs, Refuse(s, c) PROVE KcpTypeOK'
  BY <1>5, <1>7, RefuseEffect
<1>8. ASSUME NEW o \in Objects, NEW s \in Session, sessions' = [sessions EXCEPT ![o] = s],
             Handed(o, s), net' \subseteq net, UNCHANGED <<gSessionid, setups, map, up>>
      PROVE  KcpTypeOK'
  <2>1. sessions' \in Seq(Session) /\ len' = len
    BY <1>8, OneChanged
  <2>2. inUpdate' \in 0 .. len
    BY <1>1, <1>8 DEF Handed, Objects
  <2> QED
    BY <1>1, <1>2, <1>8, <2>1, <2>2, NextType
<1>9. ASSUME NEW o \in Objects, Tick(o) PROVE KcpTypeOK'
  BY <1>8, <1>9, TickEffect DEF Tick
<1>10. ASSUME NEW d \in net, Receive(d) PROVE KcpTypeOK'
  BY <1>8, <1>10, ReceiveEffect DEF Receive
<1>11. ASSUME NEW s \in Sides, NEW p \in Sides, NEW c \in Convs, Made(s, p, c),
              gSessionid' \in 0 .. MaxSessions, UNCHANGED <<setups, inUpdate, up>>,
              NEW e, net' \subseteq net \cup {e}, IsDatagram(e, len)
       PROVE  KcpTypeOK'
  <2>1. sessions' \in Seq(Session) /\ len' = len + 1
    BY <1>11, NewType, OneMade DEF Made
  <2>2. map' \in [Sides -> [Convs -> 0 .. len + 1]]
    <3>1. map \in [Sides -> [Convs -> 0 .. len + 1]]
      BY <1>1
    <3>2. len + 1 \in 0 .. len + 1
      BY <1>1
    <3> HIDE DEF len
    <3> QED
      BY <1>11, <3>1, <3>2 DEF Made, len
  <2>3. \A d \in net' : IsDatagram(d, len + 1)
    <3>0. 1 .. len \subseteq 1 .. len + 1
      BY <1>1
    <3>1. \A d : IsDatagram(d, len) => IsDatagram(d, len + 1)
      BY <3>0 DEF IsDatagram
    <3> QED
      BY <1>2, <1>11, <3>1
  <2>4. inUpdate' \in 0 .. len + 1 /\ len + 1 <= MaxObjects
    BY <1>1, <1>11 DEF Made
  <2> HIDE DEF len
  <2> QED
    BY <1>1, <1>11, <2>1, <2>2, <2>3, <2>4, NextType DEF len
<1>12. ASSUME NEW d \in net, AcceptSession(d) PROVE KcpTypeOK'
  <2>1. /\ d.client \in Clients /\ gSessionid + 1 \in Convs /\ gSessionid' = gSessionid + 1
        /\ Made(Server, d.client, gSessionid + 1)
        /\ net' \subseteq net \cup {Answer(d.client, gSessionid + 1)}
        /\ UNCHANGED <<setups, inUpdate, up>>
    BY <1>12, AcceptEffect
  <2>2. IsDatagram(Answer(d.client, gSessionid + 1), len)
    BY <2>1 DEF IsDatagram
  <2>3. gSessionid' \in 0 .. MaxSessions /\ Server \in Sides /\ d.client \in Sides
    BY <1>1, <2>1 DEF Convs, Sides
  <2> QED
    BY <1>11, <2>1, <2>2, <2>3
<1>13. ASSUME NEW d \in net, ConnectSession(d) PROVE KcpTypeOK'
  <2>1. /\ d.client \in Clients /\ d.conv \in Convs /\ Made(d.client, Server, d.conv)
        /\ net' \subseteq net /\ UNCHANGED <<gSessionid, setups, inUpdate, up>>
    BY <1>13, ConnectEffect
  <2>2. Server \in Sides /\ d.client \in Sides
    BY <2>1 DEF Sides
  <2> QED
    BY <1>1, <1>2, <1>11, <2>1, <2>2
<1>14. ASSUME UpdateReturns \/ Shutdown \/ UNCHANGED kcpVars PROVE KcpTypeOK'
  <2>1. UNCHANGED <<gSessionid, setups, sessions, map, net>>
    BY <1>14 DEF UpdateReturns, Shutdown, kcpVars
  <2>2. inUpdate' \in 0 .. len
    BY <1>1, <1>14 DEF UpdateReturns, Shutdown, kcpVars
  <2>3. up' \in BOOLEAN
    BY <1>1, <1>14, Zenon DEF UpdateReturns, Shutdown, kcpVars
  <2> QED
    BY <1>1, <1>2, <2>1, <2>2, <2>3, NextType
<1> QED
  BY <1>3, <1>4, <1>6, <1>7, <1>9, <1>10, <1>12, <1>13, <1>14 DEF KcpNext

-----------------------------------------------------------------------------
(* Kept: no session is made or released and no entry changes.               *)
Kept ==
  /\ Objects' = Objects
  /\ \A p \in Objects : SameEnds(p) /\ sessions'[p].live = sessions[p].live
  /\ UNCHANGED <<map, gSessionid>>
  /\ \A d \in net' : d.kind = "answer" => d \in net

LEMMA ChangeKeeps ==
  ASSUME KcpTypeOK, NEW o \in Objects, NEW s \in Session,
         sessions' = [sessions EXCEPT ![o] = s],
         s.side = sessions[o].side, s.peer = sessions[o].peer,
         s.conv = sessions[o].conv, s.live = sessions[o].live
  PROVE  /\ Objects' = Objects
         /\ \A p \in Objects : SameEnds(p) /\ sessions'[p].live = sessions[p].live
  BY OneChanged DEF SameEnds

(* Every step keeps the sessions and the entries, takes one away or makes   *)
(* one.                                                                     *)
LEMMA StepKinds ==
  ASSUME KcpTypeOK, MappedIsLive, [KcpNext]_kcpVars
  PROVE  \/ Kept
         \/ \E o \in Objects : Gone(o) /\ UNCHANGED <<gSessionid, net>>
         \/ \E d \in net : AcceptSession(d) \/ ConnectSession(d)
<1>1. ASSUME NEW c \in Clients, CreateSession(c) PROVE Kept
  <2>1. UNCHANGED <<gSessionid, sessions, map>>
    BY <1>1 DEF CreateSession
  <2>2. \A d \in net' : d.kind = "answer" => d \in net
    BY <1>1 DEF CreateSession, Setup
  <2> QED
    BY <2>1, <2>2 DEF Kept, SameEnds, Objects
<1>2. ASSUME NEW o \in Objects, SendMsg(o) PROVE Kept
  <2>1. /\ Objects' = Objects
        /\ \A p \in Objects : SameEnds(p) /\ sessions'[p].live = sessions[p].live
    BY <1>2, SendEffect, ChangeKeeps
  <2>2. UNCHANGED <<gSessionid, map>>
    BY <1>2 DEF SendMsg
  <2>3. \A d \in net' : d.kind = "answer" => d \in net
    BY <1>2 DEF SendMsg, Push
  <2> QED
    BY <2>1, <2>2, <2>3 DEF Kept
<1>3. ASSUME NEW o \in Objects, CloseSession(o)
      PROVE  Kept \/ (Gone(o) /\ UNCHANGED <<gSessionid, net>>)
  <2>1. Gone(o) \/ UNCHANGED <<map, sessions>>
    BY <1>3, CloseEffect
  <2>2. UNCHANGED <<gSessionid, net>>
    BY <1>3, CloseEffect
  <2>3. CASE UNCHANGED <<map, sessions>>
    BY <2>2, <2>3 DEF Kept, SameEnds, Objects
  <2> QED
    BY <2>1, <2>2, <2>3
<1>4. ASSUME NEW o \in Objects, Tick(o) PROVE Kept
  <2>1. PICK s \in Session : /\ sessions' = [sessions EXCEPT ![o] = s]
                             /\ s.side = sessions[o].side /\ s.peer = sessions[o].peer
                             /\ s.conv = sessions[o].conv /\ s.live = sessions[o].live
                             /\ s.input = sessions[o].input /\ Handed(o, s)
    BY <1>4, TickEffect
  <2>2. /\ Objects' = Objects
        /\ \A p \in Objects : SameEnds(p) /\ sessions'[p].live = sessions[p].live
    BY <2>1, ChangeKeeps
  <2> QED
    BY <1>4, <2>2 DEF Tick, Kept
<1>5. ASSUME NEW d \in net, Receive(d) PROVE Kept
  <2>1. PICK o \in Objects :
          /\ o = map[d.to][d.conv] /\ sessions[o].live
          /\ sessions[o].side = d.to /\ sessions[o].conv = d.conv
          /\ \E s \in Session : /\ sessions' = [sessions EXCEPT ![o] = s]
                                /\ s.side = sessions[o].side /\ s.peer = sessions[o].peer
                                /\ s.conv = sessions[o].conv /\ s.live = sessions[o].live
                                /\ s.input = Came(o, d) /\ Handed(o, s)
    BY <1>5, ReceiveEffect
  <2>2. /\ Objects' = Objects
        /\ \A p \in Objects : SameEnds(p) /\ sessions'[p].live = sessions[p].live
    BY <2>1, ChangeKeeps
  <2> QED
    BY <1>5, <2>2 DEF Receive, Kept
<1>6. ASSUME NEW s \in Sides, NEW c \in Convs, Refuse(s, c)
      PROVE  \E o \in Objects : Gone(o) /\ UNCHANGED <<gSessionid, net>>
  BY <1>6, RefuseEffect
<1>7. ASSUME UpdateReturns \/ Shutdown \/ UNCHANGED kcpVars PROVE Kept
  <2>1. UNCHANGED <<gSessionid, sessions, map, net>>
    BY <1>7 DEF UpdateReturns, Shutdown, kcpVars
  <2> QED
    BY <2>1 DEF Kept, SameEnds, Objects
<1> QED
  BY <1>1, <1>2, <1>3, <1>4, <1>5, <1>6, <1>7 DEF KcpNext

-----------------------------------------------------------------------------
(* The maps *)

LEMMA MadeEffect ==
  ASSUME KcpTypeOK, NEW s \in Sides, NEW p \in Sides, NEW c \in Convs, Made(s, p, c)
  PROVE  /\ Objects' = Objects \cup {Len(sessions) + 1} /\ Len(sessions) + 1 \notin Objects
         /\ \A o \in Objects : sessions'[o] = sessions[o]
         /\ sessions'[Len(sessions) + 1] = NewSession(s, p, c)
         /\ map'[s][c] = Len(sessions) + 1
         /\ \A t \in Sides, e \in Convs : <<t, e>> # <<s, c>> => map'[t][e] = map[t][e]
<1>1. map \in [Sides -> [Convs -> 0 .. Len(sessions)]]
  BY DEF KcpTypeOK
<1> QED
  BY <1>1, NewType, OneMade DEF Made

LEMMA GoneEffect ==
  ASSUME KcpTypeOK, NEW o \in Objects, Gone(o)
  PROVE  /\ Objects' = Objects /\ \A p \in Objects : SameEnds(p) /\ SameStream(p)
         /\ sessions'[o].live = FALSE /\ \A p \in Objects : p # o => sessions'[p] = sessions[p]
         /\ map'[sessions[o].side][sessions[o].conv] = 0
         /\ \A t \in Sides, e \in Convs :
              <<t, e>> # <<sessions[o].side, sessions[o].conv>> => map'[t][e] = map[t][e]
<1>1. map \in [Sides -> [Convs -> 0 .. Len(sessions)]]
  BY DEF KcpTypeOK
<1>2. /\ Objects' = Objects /\ \A p \in Objects : SameEnds(p) /\ SameStream(p)
      /\ sessions'[o].live = FALSE /\ \A p \in Objects : p # o => sessions'[p] = sessions[p]
  <2>1. PICK s \in Session : /\ sessions' = [sessions EXCEPT ![o] = s]
                             /\ s.side = sessions[o].side /\ s.peer = sessions[o].peer
                             /\ s.conv = sessions[o].conv /\ s.live = FALSE
                             /\ s.input = sessions[o].input /\ s.read = sessions[o].read
    BY ReleaseEffect DEF Gone
  <2>2. Objects' = Objects /\ sessions'[o] = s /\ \A p \in Objects : p # o => sessions'[p] = sessions[p]
    BY <2>1, OneChanged
  <2>3. \A p \in Objects : SameEnds(p) /\ SameStream(p)
    BY <2>1, <2>2 DEF SameEnds, SameStream
  <2> QED
    BY <2>1, <2>2, <2>3
<1>3. sessions[o].side \in Sides /\ sessions[o].conv \in Convs
  BY ObjectType
<1> QED
  BY <1>1, <1>2, <1>3 DEF Gone, Erase

LEMMA MapStep ==
  ASSUME KcpInv, [KcpNext]_kcpVars
  PROVE  MapInv'
<1> DEFINE new == Len(sessions) + 1
<1>1. /\ KcpTypeOK /\ MappedIsLive /\ ServerFindsAll /\ NumberInv
      /\ Server \in Sides /\ Server \notin Clients /\ Clients \subseteq Sides
  BY ServerAssumption DEF KcpInv, MapInv, Sides
<1>2. ASSUME Kept PROVE MapInv'
  <2>1. /\ Objects' = Objects /\ map' = map
        /\ \A p \in Objects : /\ sessions'[p].side = sessions[p].side
                              /\ sessions'[p].conv = sessions[p].conv
                              /\ sessions'[p].live = sessions[p].live
    BY <1>2 DEF Kept, SameEnds
  <2>2. MappedIsLive'
    BY <1>1, <2>1, MappedObject DEF MappedIsLive
  <2>3. ServerFindsAll'
    BY <1>1, <2>1 DEF ServerFindsAll
  <2> QED
    BY <2>2, <2>3 DEF MapInv
<1>3. ASSUME NEW o \in Objects, Gone(o) PROVE MapInv'
  <2> DEFINE s == sessions[o].side
             c == sessions[o].conv
  <2>1. /\ Objects' = Objects /\ \A p \in Objects : SameEnds(p)
        /\ sessions'[o].live = FALSE /\ \A p \in Objects : p # o => sessions'[p] = sessions[p]
        /\ map'[s][c] = 0
        /\ \A t \in Sides, e \in Convs : <<t, e>> # <<s, c>> => map'[t][e] = map[t][e]
    BY <1>1, <1>3, GoneEffect
  <2>2. MappedIsLive'
    <3> SUFFICES ASSUME NEW t \in Sides, NEW e \in Convs, map'[t][e] # 0
                 PROVE  /\ sessions'[map'[t][e]].live /\ sessions'[map'[t][e]].side = t
                        /\ sessions'[map'[t][e]].conv = e
      BY DEF MappedIsLive
    <3>1. <<t, e>> # <<s, c>>
      BY <2>1
    <3>2. map'[t][e] = map[t][e] /\ map[t][e] \in Objects
      BY <1>1, <2>1, <3>1, MappedObject
    <3>3. /\ sessions[map[t][e]].live /\ sessions[map[t][e]].side = t
          /\ sessions[map[t][e]].conv = e
      BY <1>1, <3>2 DEF MappedIsLive
    <3> QED
      BY <2>1, <3>1, <3>2, <3>3
  <2>3. ServerFindsAll'
    <3> SUFFICES ASSUME NEW p \in Objects, sessions'[p].live, sessions'[p].side = Server
                 PROVE  map'[Server][sessions'[p].conv] = p
      BY <2>1 DEF ServerFindsAll
    <3>1. p # o /\ sessions'[p] = sessions[p]
      BY <2>1
    <3>2. map[Server][sessions[p].conv] = p /\ sessions[p].conv \in Convs
      BY <1>1, <3>1, ObjectType DEF ServerFindsAll
    <3>3. <<Server, sessions[p].conv>> # <<s, c>>
      BY <1>1, <3>1 DEF NumberInv
    <3> QED
      BY <1>1, <2>1, <3>1, <3>2, <3>3
  <2> QED
    BY <2>2, <2>3 DEF MapInv
<1>4. ASSUME NEW s \in Sides, NEW p \in Sides, NEW c \in Convs, Made(s, p, c),
             s = Server => \A o \in Objects : sessions[o].conv # c
      PROVE  MapInv'
  <2>1. /\ Objects' = Objects \cup {new} /\ new \notin Objects
        /\ \A o \in Objects : sessions'[o] = sessions[o]
        /\ sessions'[new].side = s /\ sessions'[new].conv = c /\ sessions'[new].live
        /\ map'[s][c] = new
        /\ \A t \in Sides, e \in Convs : <<t, e>> # <<s, c>> => map'[t][e] = map[t][e]
    <3>1. sessions'[new] = NewSession(s, p, c)
      BY <1>1, <1>4, MadeEffect
    <3>2. sessions'[new].side = s /\ sessions'[new].conv = c /\ sessions'[new].live
      <4>1. /\ NewSession(s, p, c).side = s /\ NewSession(s, p, c).conv = c
            /\ NewSession(s, p, c).live = TRUE
        BY DEF NewSession
      <4>2. sessions'[new].side = s /\ sessions'[new].conv = c
        BY <3>1, <4>1
      <4>3. sessions'[new].live
        BY <3>1, <4>1, Zenon
      <4> QED
        BY <4>2, <4>3
    <3>3. /\ Objects' = Objects \cup {new} /\ new \notin Objects
          /\ \A o \in Objects : sessions'[o] = sessions[o]
          /\ map'[s][c] = new
          /\ \A t \in Sides, e \in Convs : <<t, e>> # <<s, c>> => map'[t][e] = map[t][e]
      BY <1>1, <1>4, MadeEffect
    <3> QED
      BY <3>2, <3>3
  <2> HIDE DEF new
  <2>2. MappedIsLive'
    <3> SUFFICES ASSUME NEW t \in Sides, NEW e \in Convs, map'[t][e] # 0
                 PROVE  /\ sessions'[map'[t][e]].live /\ sessions'[map'[t][e]].side = t
                        /\ sessions'[map'[t][e]].conv = e
      BY DEF MappedIsLive
    <3>1. CASE <<t, e>> = <<s, c>>
      BY <2>1, <3>1
    <3>2. CASE <<t, e>> # <<s, c>>
      <4>1. map'[t][e] = map[t][e] /\ map[t][e] \in Objects
        BY <1>1, <2>1, <3>2, MappedObject
      <4>2. /\ sessions[map[t][e]].live /\ sessions[map[t][e]].side = t
            /\ sessions[map[t][e]].conv = e
        BY <1>1, <4>1 DEF MappedIsLive
      <4> QED
        BY <2>1, <4>1, <4>2
    <3> QED
      BY <3>1, <3>2
  <2>3. ServerFindsAll'
    <3> SUFFICES ASSUME NEW o \in Objects', sessions'[o].live, sessions'[o].side = Server
                 PROVE  map'[Server][sessions'[o].conv] = o
      BY DEF ServerFindsAll
    <3>1. CASE o = new
      BY <2>1, <3>1
    <3>2. CASE o \in Objects
      <4>1. sessions'[o] = sessions[o]
        BY <2>1, <3>2
      <4>2. map[Server][sessions[o].conv] = o /\ sessions[o].conv \in Convs
        BY <1>1, <3>2, <4>1, ObjectType DEF ServerFindsAll
      <4>3. <<Server, sessions[o].conv>> # <<s, c>>
        BY <1>4, <3>2
      <4> QED
        BY <1>1, <2>1, <4>1, <4>2, <4>3
    <3> QED
      BY <2>1, <3>1, <3>2
  <2> QED
    BY <2>2, <2>3 DEF MapInv
<1>5. ASSUME NEW d \in net, AcceptSession(d) PROVE MapInv'
  <2>1. /\ d.client \in Sides /\ gSessionid + 1 \in Convs
        /\ Made(Server, d.client, gSessionid + 1)
    BY <1>1, <1>5, AcceptEffect
  <2>2. \A o \in Objects : sessions[o].conv # gSessionid + 1
    <3>1. gSessionid \in Int /\ \A o \in Objects : sessions[o].conv \in Int
      BY <1>1, ObjectType DEF KcpTypeOK, Convs
    <3> QED
      BY <1>1, <3>1 DEF NumberInv
  <2> QED
    BY <1>1, <1>4, <2>1, <2>2
<1>6. ASSUME NEW d \in net, ConnectSession(d) PROVE MapInv'
  <2>1. /\ d.client \in Clients /\ d.conv \in Convs
        /\ Made(d.client, Server, d.conv)
    BY <1>1, <1>6, ConnectEffect
  <2> QED
    BY <1>1, <1>4, <2>1
<1> QED
  BY <1>1, <1>2, <1>3, <1>5, <1>6, StepKinds

-----------------------------------------------------------------------------
(* The numbers *)

LEMMA NumberStep ==
  ASSUME KcpInv, [KcpNext]_kcpVars
  PROVE  NumberInv'
<1> DEFINE new == Len(sessions) + 1
<1>1. /\ KcpTypeOK /\ MappedIsLive /\ NumberInv
      /\ Server \in Sides /\ Server \notin Clients /\ Clients \subseteq Sides
      /\ gSessionid \in Int
  BY ServerAssumption DEF KcpInv, MapInv, Sides, KcpTypeOK
<1>2. ASSUME Objects' = Objects, \A p \in Objects : SameEnds(p), gSessionid' = gSessionid,
             \A d \in net' : d.kind = "answer" => d \in net
      PROVE  NumberInv'
  BY <1>1, <1>2 DEF NumberInv, SameEnds
<1>3. ASSUME Kept PROVE NumberInv'
  BY <1>2, <1>3 DEF Kept
<1>4. ASSUME NEW o \in Objects, Gone(o), UNCHANGED <<gSessionid, net>> PROVE NumberInv'
  <2>1. Objects' = Objects /\ \A p \in Objects : SameEnds(p)
    BY <1>1, <1>4, GoneEffect
  <2> QED
    BY <1>2, <1>4, <2>1
<1>5. ASSUME NEW d \in net, AcceptSession(d) PROVE NumberInv'
  <2> DEFINE k == d.client
             g == gSessionid
  <2>1. /\ k \in Clients /\ k \in Sides /\ g + 1 \in Convs /\ g' = g + 1
        /\ Made(Server, k, g + 1)
    BY <1>1, <1>5, AcceptEffect
  <2>2. \A e \in net' : e \in net \/ e = Answer(k, g + 1)
    BY <1>1, <1>5, AcceptEffect
  <2>3. /\ Objects' = Objects \cup {new} /\ new \notin Objects
        /\ \A o \in Objects : sessions'[o] = sessions[o]
        /\ sessions'[new] = NewSession(Server, k, g + 1)
    BY <1>1, <2>1, MadeEffect
  <2>4. sessions'[new].side = Server /\ sessions'[new].peer = k /\ sessions'[new].conv = g + 1
    BY <2>3 DEF NewSession
  <2>5. \A o \in Objects : sessions[o].conv <= g /\ sessions[o].conv \in Int
    BY <1>1, ObjectType DEF NumberInv, Convs
  <2>6. \A e \in net : e.kind = "answer" => e.conv <= g /\ e.conv \in Int
    BY <1>1, AnswerFields DEF NumberInv, Convs
  <2>7. Answer(k, g + 1).conv = g + 1 /\ Answer(k, g + 1).client = k
    BY DEF Answer
  <2> HIDE DEF new
  <2>8. \A o \in Objects' : sessions'[o].conv <= g'
    BY <1>1, <2>1, <2>3, <2>4, <2>5
  <2>9. \A o \in Objects' : \/ sessions'[o].side = Server /\ sessions'[o].peer \in Clients
                            \/ sessions'[o].side \in Clients /\ sessions'[o].peer = Server
    BY <1>1, <2>1, <2>3, <2>4 DEF NumberInv
  <2>10. \A o, p \in Objects' :
           sessions'[o].side = Server /\ sessions'[o].conv = sessions'[p].conv =>
             IF sessions'[p].side = Server THEN o = p ELSE sessions'[p].side = sessions'[o].peer
    <3> SUFFICES ASSUME NEW o \in Objects', NEW p \in Objects',
                        sessions'[o].side = Server, sessions'[o].conv = sessions'[p].conv
                 PROVE  IF sessions'[p].side = Server THEN o = p
                        ELSE sessions'[p].side = sessions'[o].peer
      OBVIOUS
    <3>1. CASE o \in Objects /\ p \in Objects
      <4>1. sessions'[o] = sessions[o] /\ sessions'[p] = sessions[p]
        BY <2>3, <3>1
      <4> QED
        BY <1>1, <3>1, <4>1 DEF NumberInv
    <3>2. ~(o = new /\ p \in Objects) /\ ~(p = new /\ o \in Objects)
      BY <1>1, <2>3, <2>4, <2>5
    <3>3. CASE o = new /\ p = new
      BY <2>4, <3>3
    <3> QED
      BY <2>3, <3>1, <3>2, <3>3
  <2>11. ASSUME NEW e \in net', e.kind = "answer"
         PROVE  /\ e.conv <= g'
                /\ \A o \in Objects' : sessions'[o].side = Server /\ sessions'[o].conv = e.conv =>
                                         sessions'[o].peer = e.client
    <3>1. CASE e \in net
      <4>1. e.conv <= g /\ e.conv \in Int
        BY <2>6, <2>11, <3>1
      <4>2. sessions'[new].conv # e.conv /\ e.conv <= g'
        BY <1>1, <2>1, <2>4, <4>1
      <4> QED
        BY <1>1, <2>3, <2>11, <3>1, <4>2 DEF NumberInv
    <3>2. CASE e = Answer(k, g + 1)
      <4>1. \A o \in Objects : sessions[o].conv # g + 1
        BY <1>1, <2>5
      <4> HIDE DEF k, g
      <4>2. e.conv = g + 1 /\ e.client = k
        BY <2>7, <3>2
      <4>3. e.conv <= g'
        BY <1>1, <2>1, <4>2 DEF g
      <4> QED
        BY <2>3, <2>4, <4>1, <4>2, <4>3
    <3> QED
      BY <2>2, <2>11, <3>1, <3>2
  <2> QED
    BY <2>8, <2>9, <2>10, <2>11 DEF NumberInv
<1>6. ASSUME NEW d \in net, ConnectSession(d) PROVE NumberInv'
  <2> DEFINE k == d.client
  <2>1. /\ d.kind = "answer" /\ k \in Clients /\ k \in Sides /\ d.conv \in Convs
        /\ Made(k, Server, d.conv) /\ net' \subseteq net /\ gSessionid' = gSessionid
    BY <1>1, <1>6, ConnectEffect
  <2>2. /\ Objects' = Objects \cup {new} /\ new \notin Objects
        /\ \A o \in Objects : sessions'[o] = sessions[o]
        /\ sessions'[new] = NewSession(k, Server, d.conv)
    BY <1>1, <2>1, MadeEffect
  <2>3. sessions'[new].side = k /\ sessions'[new].peer = Server /\ sessions'[new].conv = d.conv
    BY <2>2 DEF NewSession
  <2>4. /\ d.conv <= gSessionid
        /\ \A o \in Objects :
             sessions[o].side = Server /\ sessions[o].conv = d.conv => sessions[o].peer = k
    BY <1>1, <2>1 DEF NumberInv
  <2> HIDE DEF new, k
  <2>5. k # Server
    BY <1>1, <2>1
  <2>6. \A o \in Objects' : sessions'[o].conv <= gSessionid'
    BY <1>1, <2>1, <2>2, <2>3, <2>4 DEF NumberInv
  <2>7. \A o \in Objects' : \/ sessions'[o].side = Server /\ sessions'[o].peer \in Clients
                            \/ sessions'[o].side \in Clients /\ sessions'[o].peer = Server
    BY <1>1, <2>1, <2>2, <2>3 DEF NumberInv
  <2>8. \A o, p \in Objects' :
          sessions'[o].side = Server /\ sessions'[o].conv = sessions'[p].conv =>
            IF sessions'[p].side = Server THEN o = p ELSE sessions'[p].side = sessions'[o].peer
    <3> SUFFICES ASSUME NEW o \in Objects', NEW p \in Objects',
                        sessions'[o].side = Server, sessions'[o].conv = sessions'[p].conv
                 PROVE  IF sessions'[p].side = Server THEN o = p
                        ELSE sessions'[p].side = sessions'[o].peer
      OBVIOUS
    <3>1. o \in Objects /\ sessions'[o] = sessions[o]
      BY <2>2, <2>3, <2>5
    <3>2. CASE p \in Objects
      <4>1. sessions'[p] = sessions[p]
        BY <2>2, <3>2
      <4> QED
        BY <1>1, <3>1, <3>2, <4>1 DEF NumberInv
    <3>3. CASE p = new
      BY <2>3, <2>4, <2>5, <3>1, <3>3
    <3> QED
      BY <2>2, <3>2, <3>3
  <2>9. ASSUME NEW e \in net', e.kind = "answer"
        PROVE  /\ e.conv <= gSessionid'
               /\ \A o \in Objects' : sessions'[o].side = Server /\ sessions'[o].conv = e.conv =>
                                        sessions'[o].peer = e.client
    BY <1>1, <2>1, <2>2, <2>3, <2>5, <2>9 DEF NumberInv
  <2> QED
    BY <2>6, <2>7, <2>8, <2>9 DEF NumberInv
<1> QED
  BY <1>1, <1>3, <1>4, <1>5, <1>6, StepKinds

-----------------------------------------------------------------------------
(* The streams *)

PushesRight ==
  \A d \in net : d.kind = "push" =>
    d.to = sessions[d.from].peer /\ d.conv = sessions[d.from].conv

InputRight(o) ==
  \A n \in 1 .. MaxSends :
    /\ sessions[o].input[n] # 0 => From(o, sessions[o].input[n])
    /\ n <= sessions[o].read => sessions[o].input[n] # 0

LEMMA StreamParts == StreamInv <=> PushesRight /\ \A o \in Objects : InputRight(o)
  BY DEF StreamInv, PushesRight, InputRight

(* What arrives for a conversation comes from the partner of its session.   *)
LEMMA SenderIsPartner ==
  ASSUME KcpInv, NEW d \in net, d.kind = "push", NEW o \in Objects,
         sessions[o].side = d.to, sessions[o].conv = d.conv
  PROVE  From(o, d.from)
<1> DEFINE f == d.from
<1>1. f \in Objects
  BY PushFields DEF KcpInv
<1>2. sessions[f].peer = sessions[o].side /\ sessions[f].conv = sessions[o].conv
  BY DEF KcpInv, StreamInv
<1>3. Server \notin Clients
  BY ServerAssumption
<1> HIDE DEF f
<1>4. CASE sessions[o].side = Server
  <2>1. sessions[f].side # Server
    BY <1>1, <1>2, <1>3, <1>4 DEF KcpInv, NumberInv
  <2> QED
    BY <1>1, <1>2, <1>4, <2>1 DEF KcpInv, NumberInv, From, f
<1>5. CASE sessions[o].side # Server
  <2>1. sessions[o].side \in Clients /\ sessions[o].peer = Server
    BY <1>5 DEF KcpInv, NumberInv
  <2>2. sessions[f].side = Server
    BY <1>1, <1>2, <1>3, <2>1 DEF KcpInv, NumberInv
  <2> QED
    BY <1>1, <1>2, <2>1, <2>2 DEF From, f
<1> QED
  BY <1>4, <1>5

LEMMA StreamStep ==
  ASSUME KcpInv, [KcpNext]_kcpVars
  PROVE  StreamInv'
<1> DEFINE new == Len(sessions) + 1
           Ends == Objects \subseteq Objects' /\ \A p \in Objects : SameEnds(p)
<1>1. /\ KcpTypeOK /\ MappedIsLive /\ PushesRight /\ \A o \in Objects : InputRight(o)
      /\ Server \in Sides /\ Server \notin Clients /\ Clients \subseteq Sides
      /\ MaxSends \in Nat
  BY ServerAssumption, BoundsAssumption, StreamParts DEF KcpInv, MapInv, Sides
<1>2. \A d \in net : d.kind = "push" => d.from \in Objects
  BY <1>1, PushFields
<1>3. ASSUME Ends, \A d \in net' : d.kind = "push" => d \in net PROVE PushesRight'
  BY <1>1, <1>2, <1>3 DEF PushesRight, SameEnds
<1>4. ASSUME Ends, NEW o \in Objects, NEW p, From(o, p) PROVE From(o, p)'
  BY <1>4 DEF From, SameEnds
<1>5. ASSUME Ends, NEW o \in Objects, SameStream(o) PROVE InputRight(o)'
  <2>1. ASSUME NEW n \in 1 .. MaxSends, sessions[o].input[n] # 0
        PROVE  From(o, sessions[o].input[n])'
    <3>1. From(o, sessions[o].input[n])
      BY <1>1, <2>1 DEF InputRight
    <3>2. sessions'[o].input[n] = sessions[o].input[n]
      BY <1>5 DEF SameStream
    <3>3. \A p : From(o, p) => From(o, p)'
      BY <1>4, <1>5
    <3> QED
      BY <3>1, <3>2, <3>3 DEF From
  <2>2. sessions'[o].input = sessions[o].input /\ sessions'[o].read = sessions[o].read
    BY <1>5 DEF SameStream
  <2> QED
    BY <1>1, <2>1, <2>2 DEF InputRight
<1>6. ASSUME Objects' = Objects, Ends, \A p \in Objects : SameStream(p),
             \A d \in net' : d.kind = "push" => d \in net
      PROVE  StreamInv'
  <2>1. \A o \in Objects' : InputRight(o)'
    BY <1>5, <1>6
  <2>2. PushesRight'
    BY <1>3, <1>6
  <2> QED
    BY <2>1, <2>2 DEF StreamInv, PushesRight, InputRight
<1>7. ASSUME UNCHANGED sessions, \A d \in net' : d.kind = "push" => d \in net PROVE StreamInv'
  BY <1>6, <1>7 DEF Objects, SameEnds, SameStream
<1>8. ASSUME NEW c \in Clients, CreateSession(c) PROVE StreamInv'
  <2>1. UNCHANGED sessions /\ \A d \in net' : d.kind = "push" => d \in net
    BY <1>8 DEF CreateSession, Setup
  <2> QED
    BY <1>7, <2>1
<1>9. ASSUME NEW o \in Objects, SendMsg(o) PROVE StreamInv'
  <2>1. PICK s \in Session : /\ sessions' = [sessions EXCEPT ![o] = s]
                             /\ s.side = sessions[o].side /\ s.peer = sessions[o].peer
                             /\ s.conv = sessions[o].conv /\ s.live = sessions[o].live
                             /\ s.input = sessions[o].input /\ s.read = sessions[o].read
    BY <1>1, <1>9, SendEffect
  <2>2. /\ Objects' = Objects /\ sessions'[o] = s
        /\ \A p \in Objects : p # o => sessions'[p] = sessions[p]
    BY <1>1, <2>1, OneChanged
  <2>3. Ends /\ \A p \in Objects : SameStream(p)
    BY <2>1, <2>2 DEF SameEnds, SameStream
  <2>4. PICK n \in 1 .. MaxSends :
          net' \subseteq net \cup {Push(sessions[o].peer, sessions[o].conv, o, n)}
    BY <1>1, <1>9, SendEffect
  <2>5. PushesRight'
    <3> SUFFICES ASSUME NEW d \in net', d.kind = "push"
                 PROVE  d.to = sessions'[d.from].peer /\ d.conv = sessions'[d.from].conv
      BY DEF PushesRight
    <3>1. CASE d \in net
      BY <1>1, <1>2, <2>3, <3>1 DEF PushesRight, SameEnds
    <3>2. CASE d = Push(sessions[o].peer, sessions[o].conv, o, n)
      <4>1. d.to = sessions[o].peer /\ d.conv = sessions[o].conv /\ d.from = o
        BY <3>2 DEF Push
      <4> QED
        BY <2>3, <4>1 DEF SameEnds
    <3> QED
      BY <2>4, <3>1, <3>2
  <2>6. \A p \in Objects' : InputRight(p)'
    BY <1>5, <2>2, <2>3
  <2> QED
    BY <2>5, <2>6 DEF StreamInv, PushesRight, InputRight
<1>10. ASSUME NEW o \in Objects, Gone(o), net' = net PROVE StreamInv'
  <2>1. Objects' = Objects /\ Ends /\ \A p \in Objects : SameStream(p)
    BY <1>1, <1>10, GoneEffect
  <2> QED
    BY <1>6, <1>10, <2>1
<1>11. ASSUME NEW o \in Objects, CloseSession(o) PROVE StreamInv'
  <2>1. (Gone(o) \/ UNCHANGED sessions) /\ net' = net
    BY <1>11, CloseEffect
  <2> QED
    BY <1>7, <1>10, <2>1
<1>12. ASSUME NEW s \in Sides, NEW c \in Convs, Refuse(s, c) PROVE StreamInv'
  <2>1. net' = net /\ \E o \in Objects : Gone(o)
    BY <1>1, <1>12, RefuseEffect
  <2> QED
    BY <1>10, <2>1
<1>13. ASSUME NEW o \in Objects, NEW s \in Session, sessions' = [sessions EXCEPT ![o] = s],
              s.side = sessions[o].side, s.peer = sessions[o].peer, s.conv = sessions[o].conv,
              Handed(o, s), net' \subseteq net,
              \A n \in 1 .. MaxSends : \/ s.input[n] = sessions[o].input[n]
                                       \/ sessions[o].input[n] = 0 /\ From(o, s.input[n])
       PROVE  StreamInv'
  <2>1. /\ Objects' = Objects /\ sessions'[o] = s
        /\ \A p \in Objects : p # o => sessions'[p] = sessions[p]
    BY <1>1, <1>13, OneChanged
  <2>2. Ends /\ \A p \in Objects : p # o => SameStream(p)
    BY <1>13, <2>1 DEF SameEnds, SameStream
  <2>3. InputRight(o)'
    <3>1. ASSUME NEW n \in 1 .. MaxSends, s.input[n] # 0 PROVE From(o, s.input[n])'
      <4>1. From(o, s.input[n])
        BY <1>1, <1>13, <3>1 DEF InputRight
      <4>2. \A p : From(o, p) => From(o, p)'
        BY <1>4, <2>2
      <4> QED
        BY <4>1, <4>2 DEF From
    <3>2. ASSUME NEW n \in 1 .. MaxSends, n <= s.read PROVE s.input[n] # 0
      <4>1. sessions[o].read \in Nat /\ 0 \notin Objects
        BY <1>1, ObjectType DEF Objects
      <4>2. n <= sessions[o].read \/ (n = s.read /\ s.input[s.read] # 0)
        BY <1>13, <3>2, <4>1 DEF Handed
      <4>3. n <= sessions[o].read => sessions[o].input[n] # 0
        BY <1>1 DEF InputRight
      <4>4. s.input[n] = sessions[o].input[n] \/ sessions[o].input[n] = 0
        BY <1>13
      <4> QED
        BY <4>2, <4>3, <4>4
    <3> QED
      BY <2>1, <3>1, <3>2 DEF InputRight
  <2>4. \A p \in Objects' : InputRight(p)'
    BY <1>5, <2>1, <2>2, <2>3
  <2>5. PushesRight'
    BY <1>3, <1>13, <2>2
  <2> QED
    BY <2>4, <2>5 DEF StreamInv, PushesRight, InputRight
<1>14. ASSUME NEW o \in Objects, Tick(o) PROVE StreamInv'
  <2>1. net' = net
    BY <1>14 DEF Tick
  <2> QED
    BY <1>1, <1>13, <1>14, <2>1, TickEffect
<1>15. ASSUME NEW d \in net, Receive(d) PROVE StreamInv'
  <2>1. PICK o \in Objects :
          /\ o = map[d.to][d.conv] /\ sessions[o].live
          /\ sessions[o].side = d.to /\ sessions[o].conv = d.conv
          /\ \E s \in Session : /\ sessions' = [sessions EXCEPT ![o] = s]
                                /\ s.side = sessions[o].side /\ s.peer = sessions[o].peer
                                /\ s.conv = sessions[o].conv /\ s.live = sessions[o].live
                                /\ s.input = Came(o, d) /\ Handed(o, s)
    BY <1>1, <1>15, ReceiveEffect
  <2>2. PICK s \in Session : /\ sessions' = [sessions EXCEPT ![o] = s]
                             /\ s.side = sessions[o].side /\ s.peer = sessions[o].peer
                             /\ s.conv = sessions[o].conv /\ s.live = sessions[o].live
                             /\ s.input = Came(o, d) /\ Handed(o, s)
    BY <2>1
  <2>3. d.kind = "push" /\ net' = net
    BY <1>15 DEF Receive
  <2>4. From(o, d.from)
    BY <2>1, <2>3, SenderIsPartner
  <2>5. \A n \in 1 .. MaxSends : \/ Came(o, d)[n] = sessions[o].input[n]
                                 \/ sessions[o].input[n] = 0 /\ From(o, Came(o, d)[n])
    <3>1. sessions[o].input \in [1 .. MaxSends -> 0 .. MaxObjects]
      BY <1>1, ObjectType
    <3> QED
      BY <2>4, <3>1 DEF Came
  <2> QED
    BY <1>13, <2>2, <2>3, <2>5
<1>16. ASSUME NEW s \in Sides, NEW p \in Sides, NEW c \in Convs, Made(s, p, c),
              \A d \in net' : d.kind = "push" => d \in net
       PROVE  StreamInv'
  <2>1. /\ Objects' = Objects \cup {new} /\ new \notin Objects
        /\ \A o \in Objects : sessions'[o] = sessions[o]
        /\ sessions'[new] = NewSession(s, p, c)
    BY <1>1, <1>16, MadeEffect
  <2>2. \A n \in 1 .. MaxSends : sessions'[new].input[n] = 0 /\ ~(n <= sessions'[new].read)
    BY <1>1, <2>1 DEF NewSession
  <2> HIDE DEF new
  <2>3. Ends /\ \A o \in Objects : SameStream(o)
    BY <2>1 DEF SameEnds, SameStream
  <2>4. ASSUME NEW o \in Objects', o \notin Objects PROVE InputRight(o)'
    <3>1. o = new
      BY <2>1, <2>4
    <3> QED
      BY <2>2, <3>1 DEF InputRight
  <2>5. \A o \in Objects' : InputRight(o)'
    BY <1>5, <2>3, <2>4
  <2>6. PushesRight'
    BY <1>3, <1>16, <2>3
  <2> QED
    BY <2>5, <2>6 DEF StreamInv, PushesRight, InputRight
<1>17. ASSUME NEW d \in net, AcceptSession(d) PROVE StreamInv'
  <2>1. /\ d.client \in Clients /\ gSessionid + 1 \in Convs
        /\ Made(Server, d.client, gSessionid + 1)
        /\ net' \subseteq net \cup {Answer(d.client, gSessionid + 1)}
    BY <1>1, <1>17, AcceptEffect
  <2>2. \A e \in net' : e.kind = "push" => e \in net
    BY <2>1 DEF Answer
  <2> QED
    BY <1>1, <1>16, <2>1, <2>2
<1>18. ASSUME NEW d \in net, ConnectSession(d) PROVE StreamInv'
  BY <1>1, <1>16, <1>18, ConnectEffect
<1>19. ASSUME UpdateReturns \/ Shutdown \/ UNCHANGED kcpVars PROVE StreamInv'
  <2>1. sessions' = sessions /\ net' = net
    BY <1>19 DEF UpdateReturns, Shutdown, kcpVars
  <2> QED
    BY <1>7, <2>1
<1> QED
  BY <1>8, <1>9, <1>11, <1>12, <1>14, <1>15, <1>17, <1>18, <1>19 DEF KcpNext

-----------------------------------------------------------------------------
LEMMA KcpInitInv == KcpInit => KcpInv
<1> SUFFICES ASSUME KcpInit PROVE KcpInv
  OBVIOUS
<1>1. /\ sessions \in Seq(Session) /\ Len(sessions) = 0 /\ Objects = {}
      /\ {MaxSetups, MaxSessions, MaxObjects, MaxSends} \subseteq Nat
  BY BoundsAssumption DEF KcpInit, Objects
<1>2. KcpTypeOK
  BY <1>1 DEF KcpInit, KcpTypeOK
<1>3. MapInv
  BY <1>1 DEF KcpInit, MapInv, MappedIsLive, ServerFindsAll
<1>4. NumberInv /\ StreamInv
  BY <1>1 DEF KcpInit, NumberInv, StreamInv
<1> QED
  BY <1>2, <1>3, <1>4 DEF KcpInv

LEMMA KcpInvariance == KcpSpec => []KcpInv
<1>1. KcpInv /\ [KcpNext]_kcpVars => KcpInv'
  BY KcpTypeStep, MapStep, NumberStep, StreamStep DEF KcpInv, MapInv
<1> QED
  BY <1>1, KcpInitInv, PTL DEF KcpSpec

(* The variables keep their types, however many clients, sessions and       *)
(* datagrams there are.                                                     *)
THEOREM KcpTypeCorrect == KcpSpec => []KcpTypeOK
<1>1. KcpInv => KcpTypeOK
  BY DEF KcpInv
<1> QED
  BY <1>1, KcpInvariance, PTL

(* A datagram never finds a session that is released: both closeSession and *)
(* the refusal of a datagram erase the entry with the object, and an answer *)
(* that comes twice overwrites one live session with another.               *)
THEOREM MappedIsLiveAlways == KcpSpec => []MappedIsLive
<1>1. KcpInv => MappedIsLive
  BY DEF KcpInv, MapInv
<1> QED
  BY <1>1, KcpInvariance, PTL

(* Every live session of the server is in its map, since KcpServer never    *)
(* gives a number twice.                                                    *)
THEOREM ServerFindsAllAlways == KcpSpec => []ServerFindsAll
<1>1. KcpInv => ServerFindsAll
  BY DEF KcpInv, MapInv
<1> QED
  BY <1>1, KcpInvariance, PTL

(* No session reads messages of another conversation, and, unless an answer *)
(* came twice, a session and its partner read nothing but each other's.     *)
THEOREM OnePartnerAlways == KcpSpec => []OnePartner
<1>1. KcpInv => OnePartner
  <2> SUFFICES ASSUME KcpInv, NEW o \in Objects, NEW p \in Partners(o)
               PROVE  /\ From(o, p)
                      /\ HasTwin(o) \/ HasTwin(p) \/ (Partners(o) = {p} /\ Partners(p) \subseteq {o})
    BY DEF OnePartner, From
  <2>1. ASSUME NEW q \in Objects, NEW r \in Partners(q) PROVE From(q, r)
    <3>1. PICK n \in 1 .. sessions[q].read : r = sessions[q].input[n]
      BY DEF Partners
    <3>2. sessions[q].read \in 0 .. MaxSends /\ MaxSends \in Nat
      BY ObjectType, BoundsAssumption DEF KcpInv
    <3>3. n \in 1 .. MaxSends /\ n <= sessions[q].read
      BY <3>1, <3>2
    <3> QED
      BY <3>1, <3>3 DEF KcpInv, StreamInv
  <2>2. From(o, p) /\ p \in Objects
    BY <2>1 DEF From
  <2>3. ASSUME ~HasTwin(p), NEW q \in Partners(o) PROVE q = p
    BY <2>1, <2>2, <2>3 DEF HasTwin, From
  <2>4. ASSUME ~HasTwin(o), NEW q \in Partners(p) PROVE q = o
    BY <2>1, <2>2, <2>4 DEF HasTwin, From
  <2> QED
    BY <2>2, <2>3, <2>4
<1> QED
  BY <1>1, KcpInvariance, PTL
=============================================================================
