----------------------------- MODULE HttpServer -----------------------------
(***************************************************************************)
(* The HTTP server: accept (src/src/network/TcpServer.cpp, HttpServer.cpp),*)
(* the parser loop and the answers of a connection (HttpConnect.cpp), and  *)
(* the pool its connection objects come from and return to                 *)
(* (src/src/common/Objectpool.h, CommonPool.h).                            *)
(*                                                                         *)
(* A request is the stream units <<0, 1, 2, 3, ...>>: its head up to the   *)
(* mark that ends it, the two halves of that mark (the four bytes CR LF CR *)
(* LF), and its body, which holds no head of its own.  A read returns any  *)
(* number of units.  The send queue is the one of module TcpSocket, of     *)
(* which only what is promised there is kept: one batch at a time is       *)
(* written in order, or fails, and its callback comes.  The application    *)
(* answers in its handler, once.                                           *)
(***************************************************************************)
EXTENDS Integers, Sequences, FiniteSets

CONSTANTS
  Objects,      \* the addresses an HttpConnect can have
  MaxFree,      \* max_free of the pool, 0x200 in the code
  Capacity,     \* units a new packet holds before its storage moves (4096 bytes)
  MaxInt,       \* the largest int, 2^31 - 1 in the code
  Streams,      \* what the client of each connection may send: sequences of requests
  MaxConns      \* bound: connections accepted

(* kind BAD is a head the parser refuses, LONG one of 0xffff bytes or more, *)
(* GET any request but a POST: only a POST's body is waited for, and no     *)
(* other request has one here.  served says that a handler is registered,   *)
(* keep what the head says about keeping the connection.                    *)
Requests == {r \in [kind : {"GET", "POST", "BAD", "LONG"}, body : Nat,
                    served : BOOLEAN, keep : BOOLEAN] : r.kind # "POST" => r.body = 0}

Connections == 1 .. MaxConns

ASSUME StreamsAssumption ==
  \A k \in Connections : \A rs \in Streams[k] : rs \in Seq(Requests)
ASSUME HttpBoundsAssumption == {MaxFree, Capacity, MaxInt, MaxConns} \subseteq Nat

VARIABLES
  life,       \* of an object: "none" (no memory), "open", "closing", "pooled"
  enabled,    \* isEnabledPoolObject_
  pool,       \* objects_
  owner,      \* the connection an object serves or has served, 0 if none
  in,         \* what an object has read, and its parser
  out,        \* its send queue
  accepted,   \* connections accepted
  sent,       \* the requests of each connection
  unread,     \* the units of them the server has not read
  cut,        \* the requests with a mark that two reads share (history)
  delivered,  \* the requests given to handlers, by connection (history)
  wire,       \* the answers that left, by connection (history)
  process     \* "runs", "asserted" in uv_close, "overrun": undefined behaviour,
              \* "hangs" in the loop of on_msgbuffer

objectVars == <<life, enabled, pool, owner, accepted, sent, process>>
vars == <<life, enabled, pool, owner, in, out, accepted, sent, unread, cut,
          delivered, wire, process>>

Unit == [conn : Nat, req : Nat, part : Nat]
NoUnit == [conn |-> 0, req |-> 0, part |-> 0]

Units(k, i, r) == [p \in 1 .. 3 + r.body |-> [conn |-> k, req |-> i, part |-> p - 1]]

StreamOf(k, rs) ==
  LET upTo[i \in 0 .. Len(rs)] == IF i = 0 THEN <<>> ELSE upTo[i - 1] \o Units(k, i, rs[i])
  IN  upTo[Len(rs)]

(* static_cast<int> *)
AsInt(n) == ((n + MaxInt + 1) % (2 * (MaxInt + 1))) - (MaxInt + 1)

(* content is where m_content points to in the packet, 0 for NULL; dangling *)
(* that the packet has moved since; parser the unit of the head parsed      *)
(* last, NoUnit after zero(). *)
NewIn == [buffer |-> <<>>, packet |-> <<>>, storage |-> Capacity, content |-> 0,
          dangling |-> FALSE, parser |-> NoUnit, residue |-> 0]
NewOut == [queue |-> <<>>, sending |-> 0, request |-> "none", broken |-> FALSE]

HttpTypeOK ==
  /\ life \in [Objects -> {"none", "open", "closing", "pooled"}]
  /\ enabled \in [Objects -> BOOLEAN]
  /\ pool \in Seq(Objects)
  /\ owner \in [Objects -> {0} \cup Connections]
  /\ in \in [Objects -> [buffer : Seq(Unit), packet : Seq(Unit), storage : Nat,
                         content : Nat, dangling : BOOLEAN, parser : Unit,
                         residue : - MaxInt - 1 .. MaxInt]]
  /\ out \in [Objects -> [queue : Seq(Unit), sending : Nat,
                          request : {"none", "pending", "done"}, broken : BOOLEAN]]
  /\ accepted \in {0} \cup Connections
  /\ sent \in [Connections -> Seq(Requests)]
  /\ unread \in [Connections -> Seq(Unit)]
  /\ cut \in [Connections -> SUBSET Nat]
  /\ delivered \in [Connections -> Seq([asked : Unit, body : Seq(Unit), intact : BOOLEAN])]
  /\ wire \in [Connections -> Seq(Unit)]
  /\ process \in {"runs", "asserted", "overrun", "hangs"}

Init ==
  /\ life = [o \in Objects |-> "none"]
  /\ enabled = [o \in Objects |-> FALSE]
  /\ pool = <<>>
  /\ owner = [o \in Objects |-> 0]
  /\ in = [o \in Objects |-> NewIn]
  /\ out = [o \in Objects |-> NewOut]
  /\ accepted = 0
  /\ sent = [k \in Connections |-> <<>>]
  /\ unread = [k \in Connections |-> <<>>]
  /\ cut = [k \in Connections |-> {}]
  /\ delivered = [k \in Connections |-> <<>>]
  /\ wire = [k \in Connections |-> <<>>]
  /\ process = "runs"

RequestOf(u) == sent[u.conn][u.req]

-----------------------------------------------------------------------------
(* Accepting, with the pool *)

(* zero() of the connection *)
Zero(r) == [r EXCEPT !.packet = <<>>, !.content = 0, !.dangling = FALSE,
                     !.parser = NoUnit, !.residue = 0]

(* createObject takes the first free object or makes one *)
CreateFrom(o) ==
  \/ /\ pool # <<>>
     /\ o = Head(pool)
     /\ pool' = Tail(pool)
  \/ /\ pool = <<>>
     /\ life[o] = "none"
     /\ UNCHANGED pool

(* on_new_connection: create with zero(), clear(), a new handle, accept. *)
OnNewConnection(o) ==
  LET k == accepted + 1
  IN  /\ k \in Connections
      /\ CreateFrom(o)
      /\ \E rs \in Streams[k] :
           /\ sent' = [sent EXCEPT ![k] = rs]
           /\ unread' = [unread EXCEPT ![k] = StreamOf(k, rs)]
      /\ accepted' = k
      /\ enabled' = [enabled EXCEPT ![o] = TRUE]
      /\ life' = [life EXCEPT ![o] = "open"]
      /\ owner' = [owner EXCEPT ![o] = k]
      /\ in' = [in EXCEPT ![o] = Zero(@)]
      /\ out' = [out EXCEPT ![o].broken = FALSE]
      /\ UNCHANGED <<cut, delivered, wire, process>>

-----------------------------------------------------------------------------
(* Writing *)

(* uv_write is refused once the handle is closing *)
SendTopMsg(w, q, open) ==
  [w EXCEPT !.queue = q, !.sending = Len(q),
            !.request = IF open /\ q # <<>> THEN "pending" ELSE "none"]

(* autoMsg: TcpSocket::write *)
AutoMsg(w, answer) ==
  IF w.sending > 0 THEN [w EXCEPT !.queue = Append(@, answer)]
                   ELSE SendTopMsg(w, Append(w.queue, answer), TRUE)

(* seeded fault: only the head seen last is asked, none asks for no close *)
IsCloseOfHead(u) == u # NoUnit /\ ~RequestOf(u).keep

(* isClose: llhttp_should_keep_alive of the parser as it is NOW.  zero()    *)
(* has reset it when the request it answers was complete; a reset parser    *)
(* has no version and counts as not to be kept.                             *)
IsClose(u) == u = NoUnit \/ ~RequestOf(u).keep

(* TcpSocket::on_writecomplete *)
PopBatch(w, open) == SendTopMsg(w, SubSeq(w.queue, w.sending + 1, Len(w.queue)), open)

KernelWrite(o) ==
  /\ life[o] = "open"
  /\ out[o].request = "pending"
  /\ \/ /\ ~out[o].broken
        /\ wire' = [wire EXCEPT ![owner[o]] = @ \o SubSeq(out[o].queue, 1, out[o].sending)]
        /\ out' = [out EXCEPT ![o].request = "done"]
     \/ /\ out' = [out EXCEPT ![o].request = "done", ![o].broken = TRUE]
        /\ UNCHANGED wire
  /\ UNCHANGED <<objectVars, in, unread, cut, delivered>>

(* echo_write, on_writecomplete *)
EchoWrite(o) ==
  /\ life[o] = "open"
  /\ in[o].buffer = <<>>
  /\ out[o].request = "done"
  /\ LET closes == IsClose(in[o].parser)
     IN  /\ life' = [life EXCEPT ![o] = IF closes THEN "closing" ELSE "open"]
         /\ out' = [out EXCEPT ![o] = PopBatch(@, ~closes)]
  /\ UNCHANGED <<enabled, pool, owner, in, accepted, sent, unread, cut, delivered,
                 wire, process>>

-----------------------------------------------------------------------------
(* Reading *)

EchoRead(o, n) ==
  LET k == owner[o]
  IN  /\ life[o] = "open"
      /\ in[o].buffer = <<>>
      /\ n \in 1 .. Len(unread[k])
      /\ in' = [in EXCEPT ![o].buffer = SubSeq(unread[k], 1, n)]
      /\ unread' = [unread EXCEPT ![k] = SubSeq(@, n + 1, Len(@))]
      /\ cut' = [cut EXCEPT ![k] =
                   IF unread[k][n].part = 1 THEN @ \cup {unread[k][n].req} ELSE @]
      /\ UNCHANGED <<objectVars, out, delivered, wire>>

(* the end of the stream, or an error *)
EchoReadEnd(o) ==
  /\ life[o] = "open"
  /\ in[o].buffer = <<>>
  /\ life' = [life EXCEPT ![o] = "closing"]
  /\ UNCHANGED <<enabled, pool, owner, in, out, accepted, sent, unread, cut,
                 delivered, wire, process>>

Least(m, n) == IF m < n THEN m ELSE n

(* seeded fault: rfind *)
LastEnd(b) == {i \in 2 .. Len(b) : b[i].part = 2 /\ \A j \in i + 1 .. Len(b) : b[j].part # 2}

(* where a mark that is all in the buffer ends *)
Ends(b) == {i \in 2 .. Len(b) : b[i].part = 2}

(* m_readPacket->append; m_content dangles when the storage has to move *)
AppendFront(r, n) ==
  LET size == Len(r.packet) + n
  IN  [r EXCEPT !.packet = @ \o SubSeq(r.buffer, 1, n),
                !.buffer = SubSeq(@, n + 1, Len(@)),
                !.storage = IF size > @ THEN size ELSE @,
                !.dangling = @ \/ (size > r.storage /\ r.content # 0)]

(* seeded fault: the length is not converted *)
TakeHeadWhole(r, n) ==
  LET u == r.buffer[n]
  IN  [AppendFront(r, n) EXCEPT
         !.content = Len(r.packet) + n, !.parser = u,
         !.residue = IF RequestOf(u).kind = "POST" THEN RequestOf(u).body ELSE @]

(* the head that ends with the n-th unit of the buffer, parsed *)
TakeHead(r, n) ==
  LET u == r.buffer[n]
  IN  [AppendFront(r, n) EXCEPT
         !.content = Len(r.packet) + n, !.parser = u,
         !.residue = IF RequestOf(u).kind = "POST" THEN AsInt(RequestOf(u).body) ELSE @]

(* llhttp_execute goes over requests that lie before the last one in the    *)
(* packet, and refuses what does not begin with a head.                     *)
Parses(r) ==
  /\ r.packet[1].part = 0
  /\ \A i \in 1 .. Len(r.packet) : RequestOf(r.packet[i]).kind # "BAD"

(* the part of the body that is in the buffer *)
TakeBody(r) ==
  LET n == IF r.residue > 0 THEN Least(r.residue, Len(r.buffer)) ELSE 0
  IN  [AppendFront(r, n) EXCEPT !.residue = @ - n]

(* complete() looks the path up, in storage that may be gone, and calls the *)
(* handler with what the converted length says; it answers; then zero().    *)
Complete(o, r) ==
  LET last == r.content + AsInt(RequestOf(r.parser).body)
      request == [asked |-> r.parser, intact |-> ~r.dangling,
                  body |-> IF r.dangling THEN <<>> ELSE SubSeq(r.packet, r.content + 1, last)]
  IN  /\ in' = [in EXCEPT ![o] = Zero(r)]
      /\ \/ /\ RequestOf(r.parser).served \/ r.dangling
            /\ delivered' = [delivered EXCEPT ![owner[o]] = Append(@, request)]
            /\ out' = [out EXCEPT ![o] = AutoMsg(@, r.parser)]
         \/ /\ ~RequestOf(r.parser).served \/ r.dangling
            /\ UNCHANGED <<delivered, out>>
      /\ UNCHANGED <<objectVars, unread, cut, wire>>

(* close() and break: the rest of the buffer is dropped *)
CloseAndBreak(o, r) ==
  /\ in' = [in EXCEPT ![o] = [r EXCEPT !.buffer = <<>>]]
  /\ life' = [life EXCEPT ![o] = "closing"]
  /\ UNCHANGED <<enabled, pool, owner, out, accepted, sent, unread, cut, delivered,
                 wire, process>>

(* the rest of a round, where h is the connection after the head *)
ReadBody(o, h) ==
  \E b \in {TakeBody(h)} :
    IF b.residue = 0 THEN Complete(o, b)
    ELSE /\ in' = [in EXCEPT ![o] = b]
         /\ UNCHANGED <<objectVars, out, unread, cut, delivered, wire>>

(* A round of the loop of on_msgbuffer with a body under way, or with the   *)
(* end of a head, the first there is in the buffer.  With a negative        *)
(* residue it is the first of rounds without end.                           *)
ReadRequest(o) ==
  /\ life[o] = "open"
  /\ in[o].buffer # <<>>
  /\ \/ /\ in[o].content # 0 /\ in[o].residue >= 0
        /\ ReadBody(o, in[o])
     \/ /\ in[o].content # 0 /\ in[o].residue < 0
        /\ process' = "hangs"
        /\ UNCHANGED <<life, enabled, pool, owner, in, out, accepted, sent, unread,
                       cut, delivered, wire>>
     \/ /\ in[o].content = 0
        /\ \E n \in Ends(in[o].buffer) :
             /\ \A i \in Ends(in[o].buffer) : n <= i
             /\ \E h \in {TakeHead(in[o], n)} :
                  IF Parses(h) THEN ReadBody(o, h) ELSE CloseAndBreak(o, h)

(* A round without the end of a head.  The search runs up to the next zero  *)
(* byte, beyond what was read.  Where the read filled the buffer, or a      *)
(* longer one before it, of an earlier connection perhaps, left an end      *)
(* there, the loop runs out of the buffer.                                  *)
ReadHeadPart(o) ==
  LET r == in[o]
      all == AppendFront(r, Len(r.buffer))
  IN  /\ life[o] = "open"
      /\ r.buffer # <<>>
      /\ r.content = 0
      /\ Ends(r.buffer) = {}
      /\ \/ /\ process' = "overrun"
            /\ UNCHANGED <<life, enabled, pool, owner, in, out, accepted, sent,
                           unread, cut, delivered, wire>>
         \/ IF \E i \in 1 .. Len(all.packet) : RequestOf(all.packet[i]).kind = "LONG"
              THEN CloseAndBreak(o, all)
              ELSE /\ in' = [in EXCEPT ![o] = all]
                   /\ UNCHANGED <<objectVars, out, unread, cut, delivered, wire>>

-----------------------------------------------------------------------------
(* Closing, with the pool *)

(* seeded fault: the queue is not emptied *)
ReleaseSending(w) == [w EXCEPT !.sending = 0, !.request = "none"]

(* release() empties the queue *)
Release(w) == [w EXCEPT !.queue = <<>>, !.sending = 0, !.request = "none"]

(* seeded fault: the pool takes one more than it should *)
ReclaimOneMore(o) ==
  /\ enabled' = [enabled EXCEPT ![o] = FALSE]
  /\ pool' = IF Len(pool) > MaxFree THEN pool ELSE Append(pool, o)
  /\ life' = [life EXCEPT ![o] = IF Len(pool) > MaxFree THEN "none" ELSE "pooled"]
  /\ in' = IF Len(pool) > MaxFree THEN [in EXCEPT ![o] = NewIn] ELSE in

(* reclaimObject: back to the pool, deleted when that is full.  Its refusal *)
(* of an object that is in the pool already is left out: PoolSound.         *)
Reclaim(o) ==
  /\ enabled' = [enabled EXCEPT ![o] = FALSE]
  /\ IF Len(pool) >= MaxFree
       THEN /\ life' = [life EXCEPT ![o] = "none"]
            /\ in' = [in EXCEPT ![o] = NewIn]
            /\ UNCHANGED pool
       ELSE /\ life' = [life EXCEPT ![o] = "pooled"]
            /\ pool' = Append(pool, o)
            /\ UNCHANGED in

(* The closing phase: an outstanding request is called back first, and      *)
(* on_writecomplete may close() again, which uv_close asserts against; then *)
(* onClose reclaims the object.                                             *)
OnUvClose(o) ==
  /\ life[o] = "closing"
  /\ IF out[o].request # "none" /\ IsClose(in[o].parser)
       THEN /\ process' = "asserted"
            /\ UNCHANGED <<life, enabled, pool, in, out>>
       ELSE /\ out' = [out EXCEPT ![o] = Release(@)]
            /\ Reclaim(o)
            /\ UNCHANGED process
  /\ UNCHANGED <<owner, accepted, sent, unread, cut, delivered, wire>>

-----------------------------------------------------------------------------
LoopStep(o) ==
  \/ KernelWrite(o)
  \/ EchoWrite(o)
  \/ \E n \in 1 .. (IF owner[o] = 0 THEN 0 ELSE Len(unread[owner[o]])) : EchoRead(o, n)
  \/ ReadRequest(o)
  \/ ReadHeadPart(o)
  \/ OnUvClose(o)

Next ==
  /\ process = "runs"
  /\ \E o \in Objects : OnNewConnection(o) \/ EchoReadEnd(o) \/ LoopStep(o)

Spec == Init /\ [][Next]_vars

(* The loop serves every connection; what a client has sent arrives. *)
FairSpec == Spec /\ \A o \in Objects : WF_vars(process = "runs" /\ LoopStep(o))

-----------------------------------------------------------------------------
(* Handlers get the requests of a connection in order, each once, none      *)
(* skipped, with the body the client sent, however the stream was cut into  *)
(* reads and whoever used the object before, with the exceptions the code   *)
(* has.  A request with a mark that two reads share is taken for the        *)
(* beginning of the next one, which is then the longer one.  One that       *)
(* outgrows a new packet's storage is handed out through pointers into the  *)
(* old one, and may miss its handler.  Of a body longer than an int counts  *)
(* only the converted length.                                               *)
Regular(k, i) ==
  /\ {i - 1, i} \cap cut[k] = {}
  /\ 3 + sent[k][i].body <= Capacity
  /\ sent[k][i].body <= MaxInt

RequestsInOrder ==
  \A k \in Connections :
    LET d == delivered[k]
    IN  \A n \in 1 .. Len(d) :
          LET i == d[n].asked.req
              before == IF n = 1 THEN 0 ELSE d[n - 1].asked.req
              body == AsInt(sent[k][i].body)
          IN  /\ d[n].asked = [conn |-> k, req |-> i, part |-> 2]
              /\ before < i
              /\ \A j \in before + 1 .. i - 1 : ~(sent[k][j].served /\ Regular(k, j))
              /\ Regular(k, i) => d[n].intact /\ body = sent[k][i].body
              /\ d[n].intact =>
                   /\ sent[k][i].served
                   /\ d[n].body = SubSeq(Units(k, i, sent[k][i]), 4, 3 + body)

(* What leaves on a connection are the answers to its own requests, in the  *)
(* order of the requests, without a gap: an object that served another      *)
(* connection before brings nothing of it along.                            *)
AnswersToAsker ==
  \A k \in Connections :
    /\ Len(wire[k]) <= Len(delivered[k])
    /\ \A n \in 1 .. Len(wire[k]) : wire[k][n] = delivered[k][n].asked

(* The pool holds at most MaxFree objects, each once, none in use, with an  *)
(* empty queue and no request left in libuv; and no two connections share   *)
(* an object, nor one object two.                                           *)
PoolSound ==
  /\ Len(pool) <= MaxFree
  /\ \A i, j \in 1 .. Len(pool) : pool[i] = pool[j] => i = j
  /\ \A o \in Objects :
       /\ life[o] = "pooled" <=> \E i \in 1 .. Len(pool) : pool[i] = o
       /\ enabled[o] <=> life[o] \in {"open", "closing"}
       /\ ~enabled[o] => out[o].queue = <<>> /\ out[o].request = "none"
  /\ \A o, p \in Objects : (enabled[o] /\ enabled[p] /\ owner[o] = owner[p]) => o = p

(* A connection is closed, and its object given back, once its last request *)
(* is answered, if that asked not to be kept alive: nobody but              *)
(* on_writecomplete does it while the client waits, and the parser it asks  *)
(* has forgotten the request by then.                                       *)
AnsweredIsReleased ==
  \A k \in Connections :
    (\E i \in 1 .. Len(sent[k]), n \in 1 .. Len(wire[k]) :
        i = Len(sent[k]) /\ ~sent[k][i].keep /\ wire[k][n].req = i) ~>
      (process # "runs" \/ \A o \in Objects : owner[o] = k => ~enabled[o])

(* uv_close asserts !uv__is_closing(handle) (dependencies/libuv/src/unix/   *)
(* core.c).                                                                 *)
NeverAsserts == process # "asserted"
=============================================================================
