--------------------------- MODULE HttpServerProofs --------------------------
(***************************************************************************)
(* Theorems about HttpServer: the pool is sound, answers go to whoever     *)
(* asked, and handlers get the requests of their connection in order, for  *)
(* any number of objects and connections, any size of the pool, of an int  *)
(* and of a packet's storage, and any requests, of any length.             *)
(*                                                                         *)
(* HttpInv, for the first two, leaves open what the queues and histories   *)
(* hold: there are sets S of answers and D of deliveries.  OrderInv, for   *)
(* the third, fixes them: it says where every unit of a connection's       *)
(* stream is, among the requests that are done, in the packet, in the      *)
(* buffer or still to be read, and which requests had their mark cut.      *)
(***************************************************************************)
EXTENDS HttpServer, Concatenation

ObjectTypes ==
  /\ life \in [Objects -> {"none", "open", "closing", "pooled"}]
  /\ enabled \in [Objects -> BOOLEAN]
  /\ pool \in Seq(Objects)
  /\ owner \in [Objects -> {0} \cup Connections]
  /\ accepted \in {0} \cup Connections

Out(S) == [queue : Seq(S), sending : Nat, request : {"none", "pending", "done"},
           broken : BOOLEAN]

Typed(S, D) ==
  /\ out \in [Objects -> Out(S)]
  /\ wire \in [Connections -> Seq(S)]
  /\ delivered \in [Connections -> Seq(D)]

(* An object serves a connection that was accepted, while it is enabled.    *)
LifeInv ==
  \A o \in Objects :
    /\ owner[o] <= accepted
    /\ enabled[o] => owner[o] # 0

(* An object that serves nobody has no batch under way.                     *)
IdleInv == \A o \in Objects : ~enabled[o] => out[o].sending = 0

(* Later connections have nothing yet.                                      *)
FreshInv == \A k \in Connections : accepted < k => wire[k] = <<>> /\ delivered[k] = <<>>

(* The queue holds the last answers; those before it have left, unless the  *)
(* stream is broken, and of the queue a batch that was written.  w is a     *)
(* queue, x what left, d what was delivered.                                *)
Written(w) == IF w.request = "done" THEN w.sending ELSE 0

QueueOk(w, d) ==
  /\ w.sending <= Len(w.queue) /\ Len(w.queue) <= Len(d)
  /\ \A i \in 1 .. Len(w.queue) : w.queue[i] = d[Len(d) - Len(w.queue) + i].asked

CountOk(w, x, d) == ~w.broken => Len(x) + Len(w.queue) = Len(d) + Written(w)

LeftOk(x, d) == Len(x) <= Len(d) /\ \A n \in 1 .. Len(x) : x[n] = d[n].asked

QueueInv ==
  \A o \in Objects : enabled[o] =>
    /\ QueueOk(out[o], delivered[owner[o]])
    /\ life[o] = "open" => CountOk(out[o], wire[owner[o]], delivered[owner[o]])

LeftInv == \A k \in Connections : LeftOk(wire[k], delivered[k])

HttpInv ==
  /\ ObjectTypes
  /\ \E S, D : Typed(S, D)
  /\ LifeInv /\ PoolSound /\ IdleInv /\ FreshInv /\ QueueInv /\ LeftInv

-----------------------------------------------------------------------------
LEMMA SeqGrows ==
  ASSUME NEW S, NEW T, S \subseteq T
  PROVE  Seq(S) \subseteq Seq(T)
  OBVIOUS

LEMMA AppendOf ==
  ASSUME NEW S, NEW q \in Seq(S), NEW x
  PROVE  /\ Append(q, x) \in Seq(S \cup {x}) /\ Len(Append(q, x)) = Len(q) + 1 /\ Len(q) \in Nat
         /\ Append(q, x)[Len(q) + 1] = x /\ \A i \in 1 .. Len(q) : Append(q, x)[i] = q[i]
<1>1. q \in Seq(S \cup {x})
  BY SeqGrows
<1>2. x \in S \cup {x}
  OBVIOUS
<1> QED
  BY <1>1, <1>2, AppendProperties

LEMMA TailOf ==
  ASSUME NEW S, NEW q \in Seq(S), q # <<>>
  PROVE  /\ Tail(q) \in Seq(S) /\ Len(Tail(q)) = Len(q) - 1 /\ Len(q) \in Nat \ {0}
         /\ Head(q) = q[1] /\ \A i \in 1 .. Len(q) - 1 : Tail(q)[i] = q[i + 1]
  BY HeadTailProperties

(* m units of a queue, from a place on *)
LEMMA BatchOf ==
  ASSUME NEW S, NEW q \in Seq(S), NEW n \in 0 .. Len(q)
  PROVE  /\ SubSeq(q, 1, n) \in Seq(S) /\ Len(SubSeq(q, 1, n)) = n
         /\ \A i \in 1 .. n : SubSeq(q, 1, n)[i] = q[i]
         /\ SubSeq(q, n + 1, Len(q)) \in Seq(S) /\ Len(SubSeq(q, n + 1, Len(q))) = Len(q) - n
         /\ \A i \in 1 .. Len(q) - n : SubSeq(q, n + 1, Len(q))[i] = q[n + i]
<1>1. Len(q) \in Nat
  OBVIOUS
<1> QED
  BY <1>1, SubSeqProperties
-----------------------------------------------------------------------------
(* Serves: the loop calls a handler for open object o; other objects are    *)
(* not touched, and o may be closing after it.                              *)
Serves(o) ==
  /\ life[o] = "open"
  /\ life' = life \/ life' = [life EXCEPT ![o] = "closing"]
  /\ UNCHANGED <<enabled, pool, owner, accepted>>
  /\ \A p \in Objects : p # o => out'[p] = out[p]

Quiet == UNCHANGED <<life, enabled, pool, owner, accepted, out, wire, delivered>>

LEMMA OneOut ==
  ASSUME NEW S, NEW D, Typed(S, D), NEW o \in Objects, NEW w, out' = [out EXCEPT ![o] = w]
  PROVE  out'[o] = w /\ \A p \in Objects : p # o => out'[p] = out[p]
  BY DEF Typed

LEMMA ReadServes ==
  ASSUME NEW S, NEW D, Typed(S, D), NEW o \in Objects, ReadRequest(o)
  PROVE  Serves(o)
<1>1. ASSUME NEW r, Complete(o, r) PROVE Serves(o)
  <2>1. UNCHANGED <<life, enabled, pool, owner, accepted>>
    BY <1>1 DEF Complete, objectVars
  <2>2. \A p \in Objects : p # o => out'[p] = out[p]
    <3>1. out' = [out EXCEPT ![o] = AutoMsg(@, r.parser)] \/ out' = out
      BY <1>1 DEF Complete
    <3> QED
      BY <3>1 DEF Typed
  <2> QED
    BY <2>1, <2>2 DEF Serves, ReadRequest
<1>2. ASSUME NEW r, CloseAndBreak(o, r) PROVE Serves(o)
  BY <1>2 DEF CloseAndBreak, Serves, ReadRequest
<1>3. ASSUME NEW r, ReadBody(o, r) PROVE Serves(o)
  <2>1. PICK b \in {TakeBody(r)} :
          IF b.residue = 0 THEN Complete(o, b)
          ELSE /\ in' = [in EXCEPT ![o] = b]
               /\ UNCHANGED <<objectVars, out, unread, cut, delivered, wire>>
    BY <1>3 DEF ReadBody
  <2>2. CASE UNCHANGED <<objectVars, out>>
    BY <2>2 DEF objectVars, Serves, ReadRequest
  <2> QED
    BY <1>1, <2>1, <2>2
<1>4. ASSUME life[o] = "open", UNCHANGED <<life, enabled, pool, owner, accepted, out>>
      PROVE  Serves(o)
  BY <1>4 DEF Serves
<1> QED
  BY <1>2, <1>3, <1>4 DEF ReadRequest

LEMMA EchoWriteServes ==
  ASSUME HttpInv, NEW o \in Objects, EchoWrite(o)
  PROVE  Serves(o)
<1>1. PICK S, D : Typed(S, D)
  BY DEF HttpInv
<1>2. \E w : out' = [out EXCEPT ![o] = w]
  BY DEF EchoWrite
<1>3. life' = life \/ life' = [life EXCEPT ![o] = "closing"]
  <2>1. life' = [life EXCEPT ![o] = IF IsClose(in[o].parser) THEN "closing" ELSE "open"]
    BY DEF EchoWrite
  <2>2. life[o] = "open" /\ life \in [Objects -> {"none", "open", "closing", "pooled"}]
    BY DEF EchoWrite, HttpInv, ObjectTypes
  <2> QED
    BY <2>1, <2>2
<1> QED
  BY <1>1, <1>2, <1>3, OneOut DEF EchoWrite, Serves

LEMMA StepKinds ==
  ASSUME HttpInv, [Next]_vars
  PROVE  \/ Quiet
         \/ \E o \in Objects :
              OnNewConnection(o) \/ Serves(o) \/ (life[o] = "closing" /\ OnUvClose(o))
<1>1. PICK S, D : Typed(S, D)
  BY DEF HttpInv
<1>2. ASSUME NEW o \in Objects, KernelWrite(o) PROVE Serves(o)
  <2>1. \E w : out' = [out EXCEPT ![o] = w]
    <3>1. \/ out' = [out EXCEPT ![o].request = "done"]
          \/ out' = [out EXCEPT ![o].request = "done", ![o].broken = TRUE]
      BY <1>2 DEF KernelWrite
    <3> QED
      BY <1>1, <3>1 DEF Typed
  <2> QED
    BY <1>1, <1>2, <2>1, OneOut DEF KernelWrite, Serves, objectVars
<1>3. ASSUME NEW o \in Objects, EchoWrite(o) PROVE Serves(o)
  BY <1>3, EchoWriteServes
<1>4. ASSUME NEW o \in Objects, NEW n, EchoRead(o, n) PROVE Serves(o)
  BY <1>4 DEF EchoRead, Serves, objectVars
<1>5. ASSUME NEW o \in Objects, EchoReadEnd(o) PROVE Serves(o)
  BY <1>5 DEF EchoReadEnd, Serves
<1>6. ASSUME NEW o \in Objects, ReadRequest(o) PROVE Serves(o)
  BY <1>1, <1>6, ReadServes
<1>7. ASSUME NEW o \in Objects, ReadHeadPart(o) PROVE Serves(o)
  BY <1>7 DEF ReadHeadPart, CloseAndBreak, Serves, objectVars
<1>8. ASSUME UNCHANGED vars PROVE Quiet
  BY <1>8 DEF vars, Quiet
<1>9. ASSUME NEW o \in Objects, OnUvClose(o) PROVE life[o] = "closing"
  BY <1>9 DEF OnUvClose
<1> QED
  BY <1>2, <1>3, <1>4, <1>5, <1>6, <1>7, <1>8, <1>9 DEF Next, LoopStep
-----------------------------------------------------------------------------
(* The pool *)

(* What OnNewConnection does to the objects: o was free and serves k now.   *)
NewEffect(o) ==
  /\ life[o] \in {"none", "pooled"} /\ life' = [life EXCEPT ![o] = "open"]
  /\ enabled' = [enabled EXCEPT ![o] = TRUE]
  /\ accepted + 1 \in Connections /\ accepted' = accepted + 1
  /\ owner' = [owner EXCEPT ![o] = accepted + 1]
  /\ out' = [out EXCEPT ![o].broken = FALSE]
  /\ UNCHANGED <<wire, delivered>>

LEMMA NewObject ==
  ASSUME HttpInv, NEW o \in Objects, OnNewConnection(o)
  PROVE  NewEffect(o) /\ ~enabled[o]
<1>1. life[o] = "pooled" \/ life[o] = "none"
  <2>1. CASE pool # <<>> /\ o = Head(pool)
    <3>1. o = pool[1] /\ 1 \in 1 .. Len(pool)
      BY <2>1, TailOf DEF HttpInv, ObjectTypes
    <3> QED
      BY <3>1 DEF HttpInv, PoolSound
  <2> QED
    BY <2>1 DEF OnNewConnection, CreateFrom
<1>2. ~enabled[o]
  BY <1>1 DEF HttpInv, PoolSound
<1>3. life[o] \in {"none", "pooled"}
  BY <1>1
<1> QED
  BY <1>2, <1>3 DEF OnNewConnection, NewEffect

LEMMA PoolStep ==
  ASSUME HttpInv, [Next]_vars
  PROVE  ObjectTypes' /\ LifeInv' /\ PoolSound'
<1>1. /\ ObjectTypes /\ LifeInv /\ PoolSound
      /\ MaxFree \in Nat /\ MaxConns \in Nat /\ Connections \subseteq Nat \ {0}
  BY HttpBoundsAssumption DEF HttpInv, Connections
<1>2. PICK S, D : Typed(S, D)
  BY DEF HttpInv
<1>3. ASSUME Quiet PROVE ObjectTypes' /\ LifeInv' /\ PoolSound'
  BY <1>1, <1>3 DEF Quiet, ObjectTypes, LifeInv, PoolSound
<1>4. ASSUME NEW o \in Objects, Serves(o) PROVE ObjectTypes' /\ LifeInv' /\ PoolSound'
  <2>1. \A p \in Objects : \/ life'[p] = life[p]
                           \/ p = o /\ life[p] = "open" /\ life'[p] = "closing"
    BY <1>1, <1>4 DEF Serves, ObjectTypes
  <2>2. enabled[o]
    BY <1>1, <1>4 DEF Serves, PoolSound
  <2>3. ObjectTypes' /\ LifeInv'
    BY <1>1, <1>4 DEF Serves, ObjectTypes, LifeInv
  <2>4. UNCHANGED <<enabled, pool, owner>> /\ \A p \in Objects : p # o => out'[p] = out[p]
    BY <1>4 DEF Serves
  <2>5. \A p \in Objects : life'[p] = "pooled" <=> life[p] = "pooled"
    BY <2>1
  <2>6. \A p \in Objects : life'[p] \in {"open", "closing"} <=> life[p] \in {"open", "closing"}
    BY <2>1
  <2>7. PoolSound'
    BY <1>1, <2>2, <2>4, <2>5, <2>6 DEF PoolSound
  <2> QED
    BY <2>3, <2>7
<1>5. ASSUME NEW o \in Objects, OnNewConnection(o) PROVE ObjectTypes' /\ LifeInv' /\ PoolSound'
  <2>1. NewEffect(o) /\ ~enabled[o]
    BY <1>5, NewObject
  <2>2. /\ life'[o] = "open" /\ enabled'[o] = TRUE /\ owner'[o] = accepted + 1
        /\ \A p \in Objects : p # o =>
             life'[p] = life[p] /\ enabled'[p] = enabled[p] /\ owner'[p] = owner[p] /\ out'[p] = out[p]
    BY <1>1, <1>2, <2>1 DEF NewEffect, ObjectTypes, Typed
  <2>3. \/ pool # <<>> /\ o = Head(pool) /\ pool' = Tail(pool)
        \/ pool = <<>> /\ life[o] = "none" /\ pool' = pool
    BY <1>5 DEF OnNewConnection, CreateFrom
  <2>4. pool \in Seq(Objects) /\ Len(pool) \in Nat
    BY <1>1 DEF ObjectTypes
  <2>5. /\ pool' \in Seq(Objects) /\ Len(pool') <= MaxFree
        /\ \A i, j \in 1 .. Len(pool') : pool'[i] = pool'[j] => i = j
        /\ \A i \in 1 .. Len(pool') : pool'[i] # o /\ \E j \in 1 .. Len(pool) : pool'[i] = pool[j]
        /\ \A j \in 1 .. Len(pool) : pool[j] = o \/ \E i \in 1 .. Len(pool') : pool'[i] = pool[j]
    <3>1. CASE pool # <<>> /\ o = Head(pool) /\ pool' = Tail(pool)
      <4>1. /\ pool' \in Seq(Objects) /\ Len(pool') = Len(pool) - 1 /\ o = pool[1]
            /\ \A i \in 1 .. Len(pool) - 1 : pool'[i] = pool[i + 1]
        BY <2>4, <3>1, TailOf
      <4>2. \A i \in 1 .. Len(pool') : i + 1 \in 1 .. Len(pool) /\ i + 1 # 1 /\ 1 \in 1 .. Len(pool)
        BY <2>4, <4>1
      <4>3. \A i \in 1 .. Len(pool') : pool'[i] # o
        BY <1>1, <4>1, <4>2 DEF PoolSound
      <4>4. \A i, j \in 1 .. Len(pool') : pool'[i] = pool'[j] => i = j
        BY <1>1, <2>4, <4>1, <4>2 DEF PoolSound
      <4>5. ASSUME NEW j \in 1 .. Len(pool)
            PROVE  pool[j] = o \/ \E i \in 1 .. Len(pool') : pool'[i] = pool[j]
        <5>1. CASE j = 1
          BY <4>1, <5>1
        <5>2. CASE j # 1
          <6>1. j - 1 \in 1 .. Len(pool') /\ (j - 1) + 1 = j
            BY <2>4, <4>1, <5>2
          <6> QED
            BY <4>1, <6>1
        <5> QED
          BY <5>1, <5>2
      <4>6. Len(pool') <= MaxFree
        BY <1>1, <2>4, <4>1 DEF PoolSound
      <4>7. \A i \in 1 .. Len(pool') : \E j \in 1 .. Len(pool) : pool'[i] = pool[j]
        BY <2>4, <4>1, <4>2
      <4> QED
        BY <4>1, <4>3, <4>4, <4>5, <4>6, <4>7
    <3>2. CASE pool = <<>> /\ life[o] = "none" /\ pool' = pool
      BY <1>1, <2>4, <3>2 DEF PoolSound
    <3> QED
      BY <2>3, <3>1, <3>2
  <2>6. ObjectTypes'
    BY <1>1, <2>1, <2>5 DEF NewEffect, ObjectTypes
  <2>7. \A p \in Objects : owner[p] \in Nat /\ owner[p] <= accepted /\ accepted \in Nat
    <3>1. \A p \in Objects : owner[p] \in {0} \cup Connections /\ owner[p] <= accepted
      BY <1>1 DEF ObjectTypes, LifeInv
    <3>2. accepted \in {0} \cup Connections /\ {0} \cup Connections \subseteq Nat
      BY <1>1 DEF ObjectTypes
    <3> QED
      BY <3>1, <3>2
  <2>8. LifeInv'
    BY <1>1, <2>1, <2>2, <2>7 DEF LifeInv, NewEffect
  <2>9. \A p \in Objects : p # o => (life[p] = "pooled" <=> \E i \in 1 .. Len(pool') : pool'[i] = p)
    <3> SUFFICES ASSUME NEW p \in Objects, p # o
                 PROVE  life[p] = "pooled" <=> \E i \in 1 .. Len(pool') : pool'[i] = p
      OBVIOUS
    <3>1. life[p] = "pooled" <=> \E i \in 1 .. Len(pool) : pool[i] = p
      BY <1>1 DEF PoolSound
    <3>2. ASSUME NEW i \in 1 .. Len(pool'), pool'[i] = p
          PROVE  \E j \in 1 .. Len(pool) : pool[j] = p
      <4>1. PICK j \in 1 .. Len(pool) : pool'[i] = pool[j]
        BY <2>5
      <4> QED
        BY <3>2, <4>1
    <3>3. ASSUME NEW j \in 1 .. Len(pool), pool[j] = p
          PROVE  \E i \in 1 .. Len(pool') : pool'[i] = p
      <4>1. PICK i \in 1 .. Len(pool') : pool'[i] = pool[j]
        BY <2>5, <3>3
      <4> QED
        BY <3>3, <4>1
    <3> QED
      BY <3>1, <3>2, <3>3
  <2>10. \A p, q \in Objects : (enabled'[p] /\ enabled'[q] /\ owner'[p] = owner'[q]) => p = q
    <3> SUFFICES ASSUME NEW p \in Objects, NEW q \in Objects, p # q, enabled'[p], enabled'[q],
                        owner'[p] = owner'[q]
                 PROVE  FALSE
      OBVIOUS
    <3>1. owner[p] # accepted + 1 /\ owner[q] # accepted + 1
      <4>1. \A m, n \in Nat : m <= n => m # n + 1
        OBVIOUS
      <4> QED
        BY <2>7, <4>1
    <3>2. p # o /\ q # o
      BY <2>2, <3>1
    <3>3. enabled[p] /\ enabled[q] /\ owner[p] = owner[q]
      BY <2>2, <3>2
    <3> QED
      BY <1>1, <3>3 DEF PoolSound
  <2>11. \A p \in Objects :
           /\ life'[p] = "pooled" <=> \E i \in 1 .. Len(pool') : pool'[i] = p
           /\ enabled'[p] <=> life'[p] \in {"open", "closing"}
           /\ ~enabled'[p] => out'[p].queue = <<>> /\ out'[p].request = "none"
    BY <1>1, <2>2, <2>5, <2>9 DEF PoolSound
  <2>12. PoolSound'
    BY <2>5, <2>10, <2>11 DEF PoolSound
  <2> QED
    BY <2>6, <2>8, <2>12
<1>6. ASSUME NEW o \in Objects, life[o] = "closing", OnUvClose(o)
      PROVE  ObjectTypes' /\ LifeInv' /\ PoolSound'
  <2>1. UNCHANGED <<owner, accepted, wire, delivered>>
    BY <1>6 DEF OnUvClose
  <2>2. CASE UNCHANGED <<life, enabled, pool, in, out>>
    BY <1>3, <2>1, <2>2 DEF Quiet
  <2>3. CASE out' = [out EXCEPT ![o] = Release(@)] /\ Reclaim(o)
    <3>1. /\ enabled'[o] = FALSE /\ out'[o].queue = <<>> /\ out'[o].request = "none"
          /\ \A p \in Objects : p # o => enabled'[p] = enabled[p] /\ out'[p] = out[p]
      BY <1>1, <1>2, <2>3 DEF Reclaim, Release, ObjectTypes, Typed, Out
    <3>2. pool \in Seq(Objects) /\ Len(pool) \in Nat /\ \A i \in 1 .. Len(pool) : pool[i] # o
      BY <1>1, <1>6 DEF ObjectTypes, PoolSound
    <3>3. \/ Len(pool) >= MaxFree /\ life' = [life EXCEPT ![o] = "none"] /\ pool' = pool
          \/ Len(pool) < MaxFree /\ life' = [life EXCEPT ![o] = "pooled"] /\ pool' = Append(pool, o)
      BY <1>1, <2>3, <3>2 DEF Reclaim
    <3>4. enabled' = [enabled EXCEPT ![o] = FALSE]
      BY <2>3 DEF Reclaim
    <3>5. CASE Len(pool) >= MaxFree /\ life' = [life EXCEPT ![o] = "none"] /\ pool' = pool
      <4>1. life'[o] = "none" /\ \A p \in Objects : p # o => life'[p] = life[p]
        BY <1>1, <3>5 DEF ObjectTypes
      <4>2. ObjectTypes' /\ LifeInv'
        BY <1>1, <2>1, <3>1, <3>4, <3>5 DEF ObjectTypes, LifeInv
      <4>3. \A p \in Objects :
              /\ life'[p] = "pooled" <=> \E i \in 1 .. Len(pool') : pool'[i] = p
              /\ enabled'[p] <=> life'[p] \in {"open", "closing"}
              /\ ~enabled'[p] => out'[p].queue = <<>> /\ out'[p].request = "none"
        BY <1>1, <3>1, <3>2, <3>5, <4>1 DEF PoolSound
      <4>4. \A p, q \in Objects : (enabled'[p] /\ enabled'[q] /\ owner'[p] = owner'[q]) => p = q
        BY <1>1, <2>1, <3>1 DEF PoolSound
      <4>5. PoolSound'
        BY <1>1, <3>5, <4>3, <4>4 DEF PoolSound
      <4> QED
        BY <4>2, <4>5
    <3>6. CASE Len(pool) < MaxFree /\ life' = [life EXCEPT ![o] = "pooled"] /\ pool' = Append(pool, o)
      <4>1. life'[o] = "pooled" /\ \A p \in Objects : p # o => life'[p] = life[p]
        BY <1>1, <3>6 DEF ObjectTypes
      <4>2. /\ pool' \in Seq(Objects) /\ Len(pool') = Len(pool) + 1 /\ pool'[Len(pool) + 1] = o
            /\ \A i \in 1 .. Len(pool) : pool'[i] = pool[i]
        BY <3>2, <3>6, AppendProperties
      <4>3. \A i \in 1 .. Len(pool') : i \in 1 .. Len(pool) \/ i = Len(pool) + 1
        BY <3>2, <4>2
      <4>4. Len(pool) + 1 \in 1 .. Len(pool') /\ 1 .. Len(pool) \subseteq 1 .. Len(pool')
        BY <3>2, <4>2
      <4>5. ObjectTypes' /\ LifeInv'
        BY <1>1, <2>1, <3>1, <3>4, <3>6, <4>2 DEF ObjectTypes, LifeInv
      <4>a. \A p \in Objects : p # o =>
              ((\E i \in 1 .. Len(pool') : pool'[i] = p) <=> \E i \in 1 .. Len(pool) : pool[i] = p)
        BY <4>2, <4>3, <4>4
      <4>b. \E i \in 1 .. Len(pool') : pool'[i] = o
        BY <4>2, <4>4
      <4>6. \A p \in Objects : life'[p] = "pooled" <=> \E i \in 1 .. Len(pool') : pool'[i] = p
        BY <1>1, <4>1, <4>a, <4>b DEF PoolSound
      <4>7. \A p \in Objects :
              /\ enabled'[p] <=> life'[p] \in {"open", "closing"}
              /\ ~enabled'[p] => out'[p].queue = <<>> /\ out'[p].request = "none"
        BY <1>1, <3>1, <4>1 DEF PoolSound
      <4>8. \A p, q \in Objects : (enabled'[p] /\ enabled'[q] /\ owner'[p] = owner'[q]) => p = q
        BY <1>1, <2>1, <3>1 DEF PoolSound
      <4>9. \A i, j \in 1 .. Len(pool') : pool'[i] = pool'[j] => i = j
        BY <1>1, <3>2, <4>2, <4>3 DEF PoolSound
      <4>10. Len(pool') <= MaxFree
        BY <1>1, <3>2, <3>6, <4>2
      <4>11. PoolSound'
        BY <4>6, <4>7, <4>8, <4>9, <4>10 DEF PoolSound
      <4> QED
        BY <4>5, <4>11
    <3> QED
      BY <3>3, <3>5, <3>6
  <2> QED
    BY <1>6, <2>2, <2>3 DEF OnUvClose
<1> QED
  BY <1>3, <1>4, <1>5, <1>6, StepKinds
-----------------------------------------------------------------------------
(* The queue: what writing and answering do to these facts *)

LEMMA WrittenOk ==
  ASSUME NEW S, NEW D, NEW w \in Out(S), NEW x \in Seq(S), NEW d \in Seq(D),
         QueueOk(w, d), CountOk(w, x, d), LeftOk(x, d), w.request = "pending", ~w.broken,
         NEW w2 \in Out(S), w2.queue = w.queue, w2.sending = w.sending, w2.request = "done"
  PROVE  /\ QueueOk(w2, d) /\ x \o SubSeq(w.queue, 1, w.sending) \in Seq(S)
         /\ CountOk(w2, x \o SubSeq(w.queue, 1, w.sending), d)
         /\ LeftOk(x \o SubSeq(w.queue, 1, w.sending), d)
<1> DEFINE q == w.queue
           m == w.sending
           b == SubSeq(q, 1, m)
<1>1. q \in Seq(S) /\ m \in Nat /\ Len(q) \in Nat /\ Len(x) \in Nat /\ Len(d) \in Nat
  BY DEF Out
<1>2. m <= Len(q) /\ Len(x) + Len(q) = Len(d)
  BY <1>1 DEF QueueOk, CountOk, Written
<1>3. b \in Seq(S) /\ Len(b) = m /\ \A i \in 1 .. m : b[i] = q[i]
  <2>1. m \in 0 .. Len(q)
    BY <1>1, <1>2
  <2> HIDE DEF q, m
  <2> QED
    BY <1>1, <2>1, BatchOf DEF b
<1>4. \A i \in 1 .. Len(q) : q[i] = d[Len(d) - Len(q) + i].asked
  BY DEF QueueOk
<1> HIDE DEF b
<1>5. /\ x \o b \in Seq(S) /\ Len(x \o b) = Len(x) + m
      /\ \A n \in 1 .. Len(x) + m : (x \o b)[n] = IF n <= Len(x) THEN x[n] ELSE b[n - Len(x)]
  <2>1. /\ x \o b \in Seq(S) /\ Len(x \o b) = Len(x) + Len(b)
        /\ \A n \in 1 .. Len(x) + Len(b) :
             (x \o b)[n] = IF n <= Len(x) THEN x[n] ELSE b[n - Len(x)]
    BY <1>3, ConcatProperties
  <2> HIDE DEF m
  <2> QED
    BY <1>3, <2>1
<1>6. ASSUME NEW n \in 1 .. Len(x) + m PROVE (x \o b)[n] = d[n].asked
  <2>1. CASE n <= Len(x)
    <3>1. n \in 1 .. Len(x)
      BY <1>1, <1>6, <2>1
    <3> QED
      BY <1>5, <2>1, <3>1 DEF LeftOk
  <2>2. CASE ~(n <= Len(x))
    <3>1. n - Len(x) \in 1 .. m /\ n - Len(x) \in 1 .. Len(q)
      BY <1>1, <1>2, <1>6, <2>2
    <3>2. (x \o b)[n] = q[n - Len(x)]
      BY <1>3, <1>5, <2>2, <3>1
    <3> HIDE DEF q, m
    <3>3. Len(d) - Len(q) + (n - Len(x)) = n
      <4> DEFINE a == Len(x)
                 g == Len(q)
                 e == Len(d)
      <4>1. a \in Nat /\ g \in Nat /\ e \in Nat /\ a + g = e /\ n \in Int
        BY <1>1, <1>2, <1>6
      <4> HIDE DEF a, g, e
      <4>2. e - g + (n - a) = n
        BY <4>1
      <4> QED
        BY <4>2 DEF a, g, e
    <3> QED
      BY <1>4, <3>1, <3>2, <3>3
  <2> QED
    BY <2>1, <2>2
<1>7. LeftOk(x \o b, d)
  <2> DEFINE y == x \o b
  <2> HIDE DEF q, m
  <2>1. Len(y) = Len(x) + m /\ \A n \in 1 .. Len(x) + m : y[n] = d[n].asked
    BY <1>5, <1>6
  <2> HIDE DEF y
  <2>2. Len(y) <= Len(d)
    BY <1>1, <1>2, <2>1
  <2> QED
    BY <2>1, <2>2 DEF LeftOk, y
<1>8. CountOk(w2, x \o b, d)
  <2>1. Len(x \o b) + Len(q) = Len(d) + m
    <3> DEFINE y == Len(x \o b)
    <3>1. y = Len(x) + m
      BY <1>5
    <3> HIDE DEF q, m, y
    <3>2. y + Len(q) = Len(d) + m
      BY <1>1, <1>2, <3>1
    <3> QED
      BY <3>2 DEF y
  <2> QED
    BY <2>1 DEF CountOk, Written
<1> QED
  BY <1>5, <1>7, <1>8 DEF QueueOk, b

LEMMA PoppedOk ==
  ASSUME NEW S, NEW D, NEW w \in Out(S), NEW x \in Seq(S), NEW d \in Seq(D), NEW open \in BOOLEAN,
         QueueOk(w, d), CountOk(w, x, d), w.request = "done"
  PROVE  /\ PopBatch(w, open) \in Out(S) /\ QueueOk(PopBatch(w, open), d)
         /\ CountOk(PopBatch(w, open), x, d)
<1> DEFINE q == w.queue
           m == w.sending
           t == SubSeq(q, m + 1, Len(q))
           v == PopBatch(w, open)
<1>1. q \in Seq(S) /\ m \in Nat /\ Len(q) \in Nat /\ Len(x) \in Nat /\ Len(d) \in Nat
  BY DEF Out
<1>2. m \in 0 .. Len(q) /\ Len(q) <= Len(d)
  BY <1>1 DEF QueueOk
<1>3. t \in Seq(S) /\ Len(t) = Len(q) - m /\ \A i \in 1 .. Len(q) - m : t[i] = q[m + i]
  <2> HIDE DEF q, m
  <2> QED
    BY <1>1, <1>2, BatchOf DEF t
<1>4. /\ v.queue = t /\ v.sending = Len(t) /\ v.broken = w.broken
      /\ v.request \in {"none", "pending"}
  BY DEF PopBatch, SendTopMsg, Out
<1>5. v \in Out(S)
  <2>1. Len(t) \in Nat
    BY <1>1, <1>2, <1>3
  <2> HIDE DEF t
  <2>2. t \in Seq(S) /\ SubSeq(w.queue, w.sending + 1, Len(w.queue)) = t
    BY <1>3 DEF t
  <2> QED
    BY <2>1, <2>2 DEF PopBatch, SendTopMsg, Out
<1>6. QueueOk(v, d)
  <2>1. ASSUME NEW i \in 1 .. Len(t) PROVE t[i] = d[Len(d) - Len(t) + i].asked
    <3> HIDE DEF q, m, t
    <3>1. m + i \in 1 .. Len(q) /\ i \in 1 .. Len(q) - m
      BY <1>1, <1>2, <1>3, <2>1
    <3>2. Len(d) - Len(q) + (m + i) = Len(d) - Len(t) + i
      BY <1>1, <1>2, <1>3, <2>1
    <3>3. t[i] = q[m + i]
      BY <1>3, <3>1
    <3> USE DEF q
    <3>4. q[m + i] = d[Len(d) - Len(q) + (m + i)].asked
      BY <3>1 DEF QueueOk
    <3> QED
      BY <3>2, <3>3, <3>4
  <2>2. Len(t) <= Len(t) /\ Len(t) <= Len(d)
    BY <1>1, <1>2, <1>3
  <2> HIDE DEF v, t
  <2> QED
    BY <1>4, <2>1, <2>2 DEF QueueOk
<1>7. CountOk(v, x, d)
  <2>1. w.broken \/ Len(x) + Len(q) = Len(d) + m
    BY DEF CountOk, Written
  <2>2. w.broken \/ Len(x) + Len(t) = Len(d)
    <3> HIDE DEF q, m, t
    <3> QED
      BY <1>1, <1>2, <1>3, <2>1
  <2> HIDE DEF v, t
  <2> QED
    BY <1>1, <1>4, <2>2 DEF CountOk, Written
<1> QED
  BY <1>5, <1>6, <1>7

LEMMA AnsweredOk ==
  ASSUME NEW S, NEW D, NEW w \in Out(S), NEW x \in Seq(S), NEW d \in Seq(D), NEW e,
         QueueOk(w, d), CountOk(w, x, d), LeftOk(x, d)
  PROVE  /\ AutoMsg(w, e.asked) \in Out(S \cup {e.asked}) /\ Append(d, e) \in Seq(D \cup {e})
         /\ QueueOk(AutoMsg(w, e.asked), Append(d, e))
         /\ CountOk(AutoMsg(w, e.asked), x, Append(d, e)) /\ LeftOk(x, Append(d, e))
<1> DEFINE q == w.queue
           a == e.asked
           p == Append(q, a)
           c == Append(d, e)
           v == AutoMsg(w, a)
<1>1. q \in Seq(S) /\ w.sending \in Nat /\ Len(q) \in Nat /\ Len(x) \in Nat /\ Len(d) \in Nat
  BY DEF Out
<1>2. Len(q) <= Len(d) /\ w.sending <= Len(q)
  BY DEF QueueOk
<1>3. /\ p \in Seq(S \cup {a}) /\ Len(p) = Len(q) + 1 /\ p[Len(q) + 1] = a
      /\ \A i \in 1 .. Len(q) : p[i] = q[i]
  <2> HIDE DEF q, a
  <2> QED
    BY <1>1, AppendOf DEF p
<1>4. /\ c \in Seq(D \cup {e}) /\ Len(c) = Len(d) + 1 /\ c[Len(d) + 1] = e
      /\ \A i \in 1 .. Len(d) : c[i] = d[i]
  BY AppendOf
<1>5. /\ v.queue = p /\ v.broken = w.broken
      /\ \/ v.sending = w.sending /\ v.request = w.request /\ w.sending > 0
         \/ v.sending = Len(p) /\ v.request = "pending" /\ w.sending = 0
  <2> HIDE DEF p
  <2>1. p # <<>>
    BY <1>1, <1>3
  <2>2. CASE w.sending > 0
    BY <2>2 DEF AutoMsg, Out, p
  <2>3. CASE ~(w.sending > 0)
    <3>1. w.sending = 0
      BY <1>1, <2>3
    <3>2. v = SendTopMsg(w, p, TRUE)
      BY <2>3 DEF AutoMsg, p
    <3> QED
      BY <2>1, <3>1, <3>2 DEF SendTopMsg, Out
  <2> QED
    BY <2>2, <2>3
<1>6. v \in Out(S \cup {a})
  <2>1. S \subseteq S \cup {a}
    OBVIOUS
  <2>2. Len(p) \in Nat
    BY <1>1, <1>3
  <2> HIDE DEF p, a
  <2> QED
    BY <1>3, <2>1, <2>2 DEF AutoMsg, SendTopMsg, Out, p
<1>7. QueueOk(v, c)
  <2>1. ASSUME NEW i \in 1 .. Len(p) PROVE p[i] = c[Len(c) - Len(p) + i].asked
    <3> HIDE DEF p, c, q
    <3>1. CASE i = Len(q) + 1
      <4>1. Len(c) - Len(p) + i = Len(d) + 1
        BY <1>1, <1>3, <1>4, <3>1
      <4> QED
        BY <1>3, <1>4, <3>1, <4>1
    <3>2. CASE i # Len(q) + 1
      <4>1. i \in 1 .. Len(q)
        BY <1>1, <1>3, <2>1, <3>2
      <4>2. Len(c) - Len(p) + i = Len(d) - Len(q) + i /\ Len(d) - Len(q) + i \in 1 .. Len(d)
        BY <1>1, <1>2, <1>3, <1>4, <4>1
      <4>3. q[i] = d[Len(d) - Len(q) + i].asked
        BY <4>1 DEF QueueOk, q
      <4> QED
        BY <1>3, <1>4, <4>1, <4>2, <4>3
    <3> QED
      BY <3>1, <3>2
  <2>2. Len(p) <= Len(c) /\ w.sending <= Len(p) /\ Len(p) <= Len(p)
    <3> HIDE DEF p, c, q
    <3> QED
      BY <1>1, <1>2, <1>3, <1>4
  <2>3. v.sending <= Len(v.queue)
    BY <1>5, <2>2
  <2> HIDE DEF v, p, c
  <2> QED
    BY <1>5, <2>1, <2>2, <2>3 DEF QueueOk
<1>8. CountOk(v, x, c)
  <2> SUFFICES ASSUME ~w.broken PROVE Len(x) + Len(p) = Len(c) + Written(v)
    BY <1>5 DEF CountOk
  <2>1. Len(x) + Len(q) = Len(d) + Written(w)
    BY DEF CountOk
  <2>2. Written(v) = Written(w) /\ Written(w) \in Nat
    <3> HIDE DEF v
    <3> QED
      BY <1>1, <1>5 DEF Written
  <2> HIDE DEF v, p, c, q
  <2> QED
    BY <1>1, <1>3, <1>4, <2>1, <2>2
<1>9. LeftOk(x, c)
  <2>1. Len(x) <= Len(d) /\ \A n \in 1 .. Len(x) : x[n] = d[n].asked
    BY DEF LeftOk
  <2>2. \A n \in 1 .. Len(x) : n \in 1 .. Len(d)
    BY <1>1, <2>1
  <2> HIDE DEF c
  <2> QED
    BY <1>1, <1>4, <2>1, <2>2 DEF LeftOk
<1> QED
  BY <1>4, <1>6, <1>7, <1>8, <1>9

-----------------------------------------------------------------------------
(* The answers *)

AnswerInv == (\E S, D : Typed(S, D)) /\ FreshInv /\ QueueInv /\ LeftInv

LEMMA ServedObject ==
  ASSUME HttpInv, NEW o \in Objects, life[o] = "open"
  PROVE  /\ enabled[o] /\ owner[o] \in Connections /\ owner[o] <= accepted
         /\ QueueOk(out[o], delivered[owner[o]])
         /\ CountOk(out[o], wire[owner[o]], delivered[owner[o]])
         /\ LeftOk(wire[owner[o]], delivered[owner[o]])
<1>1. enabled[o]
  BY DEF HttpInv, PoolSound
<1>2. owner[o] \in Connections /\ owner[o] <= accepted
  BY <1>1 DEF HttpInv, LifeInv, ObjectTypes
<1>3. QueueOk(out[o], delivered[owner[o]]) /\ CountOk(out[o], wire[owner[o]], delivered[owner[o]])
  BY <1>1 DEF HttpInv, QueueInv
<1>4. LeftOk(wire[owner[o]], delivered[owner[o]])
  BY <1>2 DEF HttpInv, LeftInv
<1> QED
  BY <1>1, <1>2, <1>3, <1>4

LEMMA OneServed ==
  ASSUME HttpInv, NEW o \in Objects, life[o] = "open", NEW k, k = owner[o],
         UNCHANGED <<enabled, owner, accepted>>,
         \A p \in Objects : life'[p] = "open" => life[p] = "open",
         \A p \in Objects : p # o => out'[p] = out[p],
         \A j \in Connections : j # k => wire'[j] = wire[j] /\ delivered'[j] = delivered[j],
         QueueOk(out'[o], delivered'[k]), LeftOk(wire'[k], delivered'[k]),
         life'[o] = "open" => CountOk(out'[o], wire'[k], delivered'[k])
  PROVE  FreshInv' /\ QueueInv' /\ LeftInv'
<1>1. enabled[o] /\ k \in Connections /\ k <= accepted
  BY ServedObject
<1>2. FreshInv'
  <2> SUFFICES ASSUME NEW j \in Connections, accepted < j
               PROVE  wire'[j] = <<>> /\ delivered'[j] = <<>>
    BY DEF FreshInv
  <2>1. j # k
    <3>1. accepted \in Nat /\ j \in Nat /\ k \in Nat
      BY <1>1, HttpBoundsAssumption DEF HttpInv, ObjectTypes, Connections
    <3> QED
      BY <1>1, <3>1
  <2> QED
    BY <2>1 DEF HttpInv, FreshInv
<1>3. QueueInv'
  <2> SUFFICES ASSUME NEW p \in Objects, enabled[p]
               PROVE  /\ QueueOk(out'[p], delivered'[owner[p]])
                      /\ life'[p] = "open" => CountOk(out'[p], wire'[owner[p]], delivered'[owner[p]])
    BY DEF QueueInv
  <2>1. CASE p = o
    BY <2>1
  <2>2. CASE p # o
    <3>1. owner[p] # k
      BY <1>1, <2>2 DEF HttpInv, PoolSound
    <3>2. owner[p] \in Connections
      BY DEF HttpInv, LifeInv, ObjectTypes
    <3> QED
      BY <2>2, <3>1, <3>2 DEF HttpInv, QueueInv
  <2> QED
    BY <2>1, <2>2
<1>4. LeftInv'
  BY DEF HttpInv, LeftInv
<1> QED
  BY <1>2, <1>3, <1>4

LEMMA StillAnswers ==
  ASSUME HttpInv, UNCHANGED <<enabled, owner, accepted, out, wire, delivered>>,
         \A p \in Objects : life'[p] = "open" => life[p] = "open"
  PROVE  AnswerInv'
<1>1. FreshInv' /\ LeftInv'
  BY DEF HttpInv, FreshInv, LeftInv
<1>2. QueueInv'
  BY DEF HttpInv, QueueInv
<1>3. PICK S, D : Typed(S, D)
  BY DEF HttpInv
<1>4. Typed(S, D)'
  BY <1>3 DEF Typed
<1> QED
  BY <1>1, <1>2, <1>4 DEF AnswerInv

LEMMA KernelWriteAnswers ==
  ASSUME HttpInv, NEW S, NEW D, Typed(S, D), NEW o \in Objects, KernelWrite(o)
  PROVE  AnswerInv' /\ Typed(S, D)'
<1> DEFINE k == owner[o]
           w == out[o]
<1>2. /\ life[o] = "open" /\ w.request = "pending"
      /\ UNCHANGED <<life, enabled, owner, accepted, delivered>>
  BY DEF KernelWrite, objectVars
<1>3. /\ k \in Connections /\ QueueOk(w, delivered[k]) /\ CountOk(w, wire[k], delivered[k])
      /\ LeftOk(wire[k], delivered[k])
  BY <1>2, ServedObject
<1>4. /\ w \in Out(S) /\ wire[k] \in Seq(S) /\ delivered[k] \in Seq(D)
      /\ out \in [Objects -> Out(S)] /\ wire \in [Connections -> Seq(S)]
      /\ delivered \in [Connections -> Seq(D)]
  BY <1>3 DEF Typed
<1>5. CASE /\ ~w.broken
           /\ wire' = [wire EXCEPT ![k] = @ \o SubSeq(w.queue, 1, w.sending)]
           /\ out' = [out EXCEPT ![o].request = "done"]
  <2> DEFINE w2 == [w EXCEPT !.request = "done"]
             x2 == wire[k] \o SubSeq(w.queue, 1, w.sending)
  <2>1. w2 \in Out(S) /\ w2.queue = w.queue /\ w2.sending = w.sending /\ w2.request = "done"
    BY <1>4 DEF Out
  <2>2. out' = [out EXCEPT ![o] = w2] /\ wire' = [wire EXCEPT ![k] = x2]
    BY <1>5
  <2> HIDE DEF w, k, w2
  <2>3. /\ QueueOk(w2, delivered[k]) /\ x2 \in Seq(S) /\ CountOk(w2, x2, delivered[k])
        /\ LeftOk(x2, delivered[k])
    BY <1>2, <1>3, <1>4, <1>5, <2>1, WrittenOk
  <2> HIDE DEF x2
  <2>4. Typed(S, D)'
    BY <1>2, <1>4, <2>1, <2>2, <2>3 DEF Typed, k
  <2>5. /\ out'[o] = w2 /\ \A p \in Objects : p # o => out'[p] = out[p]
        /\ wire'[k] = x2 /\ \A j \in Connections : j # k => wire'[j] = wire[j]
    BY <1>3, <1>4, <2>2
  <2>6. FreshInv' /\ QueueInv' /\ LeftInv'
    BY <1>2, <2>3, <2>5, OneServed DEF k
  <2> QED
    BY <2>4, <2>6 DEF AnswerInv
<1>6. CASE /\ out' = [out EXCEPT ![o].request = "done", ![o].broken = TRUE]
           /\ wire' = wire
  <2> DEFINE w2 == [w EXCEPT !.request = "done", !.broken = TRUE]
  <2>1. /\ w2 \in Out(S) /\ w2.queue = w.queue /\ w2.sending = w.sending /\ w2.broken = TRUE
    BY <1>4 DEF Out
  <2>2. out' = [out EXCEPT ![o] = w2]
    BY <1>4, <1>6
  <2> HIDE DEF w, k, w2
  <2>3. QueueOk(w2, delivered[k])
    BY <1>3, <2>1 DEF QueueOk
  <2>4. CountOk(w2, wire[k], delivered[k])
    BY <2>1 DEF CountOk
  <2>5. Typed(S, D)'
    BY <1>2, <1>4, <1>6, <2>1, <2>2 DEF Typed
  <2>6. out'[o] = w2 /\ \A p \in Objects : p # o => out'[p] = out[p]
    BY <1>4, <2>2
  <2>7. FreshInv' /\ QueueInv' /\ LeftInv'
    BY <1>2, <1>3, <1>6, <2>3, <2>4, <2>6, OneServed DEF k
  <2> QED
    BY <2>5, <2>7 DEF AnswerInv
<1> QED
  BY <1>5, <1>6 DEF KernelWrite

LEMMA EchoWriteAnswers ==
  ASSUME HttpInv, NEW S, NEW D, Typed(S, D), NEW o \in Objects, EchoWrite(o), Serves(o)
  PROVE  AnswerInv' /\ Typed(S, D)'
<1> DEFINE k == owner[o]
           w == out[o]
           closes == IsClose(in[o].parser)
           w2 == PopBatch(w, ~closes)
<1>2. /\ life[o] = "open" /\ w.request = "done"
      /\ UNCHANGED <<enabled, owner, accepted, wire, delivered>>
  BY DEF EchoWrite
<1>3. out' = [out EXCEPT ![o] = w2]
  BY DEF EchoWrite
<1>4. \A p \in Objects : life'[p] = "open" => life[p] = "open"
  BY DEF Serves, HttpInv, ObjectTypes
<1>5. /\ k \in Connections /\ QueueOk(w, delivered[k]) /\ CountOk(w, wire[k], delivered[k])
      /\ LeftOk(wire[k], delivered[k])
  BY <1>2, ServedObject
<1>6. /\ w \in Out(S) /\ wire[k] \in Seq(S) /\ delivered[k] \in Seq(D)
      /\ out \in [Objects -> Out(S)]
  BY <1>5 DEF Typed
<1>7. (~closes) \in BOOLEAN
  OBVIOUS
<1> HIDE DEF w, k, closes
<1>8. w2 \in Out(S) /\ QueueOk(w2, delivered[k]) /\ CountOk(w2, wire[k], delivered[k])
  BY <1>2, <1>5, <1>6, <1>7, PoppedOk
<1> HIDE DEF w2
<1>9. Typed(S, D)'
  BY <1>2, <1>3, <1>6, <1>8 DEF Typed
<1>10. out'[o] = w2 /\ \A p \in Objects : p # o => out'[p] = out[p]
  BY <1>3, <1>6
<1>11. FreshInv' /\ QueueInv' /\ LeftInv'
  BY <1>2, <1>4, <1>5, <1>8, <1>10, OneServed DEF k
<1> QED
  BY <1>9, <1>11 DEF AnswerInv

(* what complete() hands over *)
DeliveryOf(r) ==
  [asked |-> r.parser, intact |-> ~r.dangling,
   body |-> IF r.dangling THEN <<>>
            ELSE SubSeq(r.packet, r.content + 1,
                        r.content + AsInt(RequestOf(r.parser).body))]

LEMMA CompleteAnswers ==
  ASSUME HttpInv, NEW S, NEW D, Typed(S, D), NEW o \in Objects, life[o] = "open",
         NEW r, Complete(o, r)
  PROVE  AnswerInv' /\ (r.parser \in S /\ DeliveryOf(r) \in D => Typed(S, D)')
<1> DEFINE k == owner[o]
           w == out[o]
           d == delivered[k]
           e == DeliveryOf(r)
           w2 == AutoMsg(w, r.parser)
           d2 == Append(d, e)
<1>2. UNCHANGED <<life, enabled, owner, accepted, wire>>
  BY DEF Complete, objectVars
<1>3. /\ k \in Connections /\ QueueOk(w, d) /\ CountOk(w, wire[k], d) /\ LeftOk(wire[k], d)
  BY ServedObject
<1>4. /\ w \in Out(S) /\ wire[k] \in Seq(S) /\ d \in Seq(D)
      /\ out \in [Objects -> Out(S)] /\ delivered \in [Connections -> Seq(D)]
      /\ wire \in [Connections -> Seq(S)]
  BY <1>3 DEF Typed
<1>5. CASE out' = out /\ delivered' = delivered
  <2>1. Typed(S, D)'
    BY <1>2, <1>5 DEF Typed
  <2> QED
    BY <1>2, <1>5, <2>1, StillAnswers
<1>6. CASE out' = [out EXCEPT ![o] = w2] /\ delivered' = [delivered EXCEPT ![k] = d2]
  <2>1. e.asked = r.parser
    BY DEF DeliveryOf
  <2> HIDE DEF w, k, d, e
  <2>2. /\ w2 \in Out(S \cup {e.asked}) /\ d2 \in Seq(D \cup {e})
        /\ QueueOk(w2, d2) /\ CountOk(w2, wire[k], d2) /\ LeftOk(wire[k], d2)
    BY <1>3, <1>4, <2>1, AnsweredOk
  <2> HIDE DEF w2, d2
  <2>3. /\ S \subseteq S \cup {e.asked} /\ D \subseteq D \cup {e}
    OBVIOUS
  <2>4. Seq(S) \subseteq Seq(S \cup {e.asked}) /\ Seq(D) \subseteq Seq(D \cup {e})
    BY <2>3, SeqGrows
  <2>5. Out(S) \subseteq Out(S \cup {e.asked})
    BY <2>4 DEF Out
  <2>6. /\ out' \in [Objects -> Out(S \cup {e.asked})]
        /\ delivered' \in [Connections -> Seq(D \cup {e})]
        /\ wire' \in [Connections -> Seq(S \cup {e.asked})]
    BY <1>2, <1>4, <1>6, <2>2, <2>4, <2>5
  <2>7. \E T, E : Typed(T, E)'
    BY <2>6 DEF Typed
  <2>8. /\ out'[o] = w2 /\ \A p \in Objects : p # o => out'[p] = out[p]
        /\ delivered'[k] = d2 /\ \A j \in Connections : j # k => delivered'[j] = delivered[j]
    BY <1>3, <1>4, <1>6
  <2>9. FreshInv' /\ QueueInv' /\ LeftInv'
    BY <1>2, <1>3, <2>2, <2>8, OneServed DEF k
  <2>10. r.parser \in S /\ e \in D => Typed(S, D)'
    <3> SUFFICES ASSUME r.parser \in S, e \in D PROVE Typed(S, D)'
      OBVIOUS
    <3>1. S \cup {e.asked} = S /\ D \cup {e} = D
      BY <2>1
    <3> QED
      BY <2>6, <3>1 DEF Typed
  <2> QED
    BY <2>7, <2>9, <2>10 DEF AnswerInv, e
<1>7. \/ out' = out /\ delivered' = delivered
      \/ out' = [out EXCEPT ![o] = w2] /\ delivered' = [delivered EXCEPT ![k] = d2]
  BY DEF Complete, DeliveryOf
<1> QED
  BY <1>5, <1>6, <1>7

LEMMA ReadRequestAnswers ==
  ASSUME HttpInv, NEW o \in Objects, ReadRequest(o), Serves(o)
  PROVE  AnswerInv'
<1>1. life[o] = "open" /\ \E S, D : Typed(S, D)
  BY DEF ReadRequest, HttpInv
<1>2. \A p \in Objects : life'[p] = "open" => life[p] = "open"
  BY DEF Serves, HttpInv, ObjectTypes
<1>3. ASSUME NEW r, CloseAndBreak(o, r) PROVE AnswerInv'
  <2>1. UNCHANGED <<enabled, owner, accepted, out, wire, delivered>>
    BY <1>3 DEF CloseAndBreak
  <2> QED
    BY <1>2, <2>1, StillAnswers
<1>4. ASSUME NEW r, ReadBody(o, r) PROVE AnswerInv'
  <2>1. PICK b \in {TakeBody(r)} :
          IF b.residue = 0 THEN Complete(o, b)
          ELSE /\ in' = [in EXCEPT ![o] = b]
               /\ UNCHANGED <<objectVars, out, unread, cut, delivered, wire>>
    BY <1>4 DEF ReadBody
  <2>2. CASE UNCHANGED <<objectVars, out, unread, cut, delivered, wire>>
    <3>1. UNCHANGED <<enabled, owner, accepted, out, wire, delivered>>
      BY <2>2 DEF objectVars
    <3> QED
      BY <1>2, <3>1, StillAnswers
  <2> QED
    BY <1>1, <2>1, <2>2, CompleteAnswers
<1>5. ASSUME UNCHANGED <<enabled, owner, accepted, out, wire, delivered>>
      PROVE  AnswerInv'
  BY <1>2, <1>5, StillAnswers
<1> QED
  BY <1>3, <1>4, <1>5 DEF ReadRequest

LEMMA NewConnectionAnswers ==
  ASSUME HttpInv, NEW S, NEW D, Typed(S, D), NEW o \in Objects, OnNewConnection(o)
  PROVE  AnswerInv' /\ Typed(S, D)'
<1> DEFINE k == accepted + 1
           w2 == [out[o] EXCEPT !.broken = FALSE]
<1>1. NewEffect(o) /\ ~enabled[o]
  BY NewObject
<1>a. Connections \subseteq Nat /\ {0} \cup Connections \subseteq Nat
  BY HttpBoundsAssumption DEF Connections
<1>3. /\ accepted \in Nat /\ k \in Connections /\ k \in Nat /\ accepted < k
      /\ \A p \in Objects : owner[p] \in Nat /\ owner[p] <= accepted
  <2>1. accepted \in {0} \cup Connections /\ k \in Connections
    BY <1>1 DEF HttpInv, ObjectTypes, NewEffect
  <2>2. accepted \in Nat /\ k \in Nat
    BY <1>a, <2>1
  <2>3. accepted < k
    BY <2>2
  <2>4. \A p \in Objects : owner[p] \in {0} \cup Connections
    BY DEF HttpInv, ObjectTypes
  <2>5. \A p \in Objects : owner[p] <= accepted
    BY DEF HttpInv, LifeInv
  <2>6. \A p \in Objects : owner[p] \in Nat
    BY <1>a, <2>4
  <2> QED
    BY <2>1, <2>2, <2>3, <2>5, <2>6
<1>4. wire[k] = <<>> /\ delivered[k] = <<>>
  BY <1>3 DEF HttpInv, FreshInv
<1>5. /\ out[o] \in Out(S) /\ out \in [Objects -> Out(S)]
      /\ out[o].queue = <<>> /\ out[o].request = "none"
  BY <1>1 DEF Typed, HttpInv, PoolSound
<1>6. out' = [out EXCEPT ![o] = w2] /\ UNCHANGED <<wire, delivered>> /\ accepted' = k
  BY <1>1 DEF NewEffect
<1>7. w2 \in Out(S) /\ w2.queue = <<>> /\ w2.request = "none" /\ w2.sending = out[o].sending
  BY <1>5 DEF Out
<1> HIDE DEF w2
<1>8. Typed(S, D)'
  BY <1>5, <1>6, <1>7 DEF Typed
<1>9. FreshInv'
  <2> SUFFICES ASSUME NEW j \in Connections, accepted' < j
               PROVE  wire'[j] = <<>> /\ delivered'[j] = <<>>
    BY DEF FreshInv
  <2>1. j \in Nat /\ k < j
    BY <1>a, <1>6
  <2>2. accepted < j
    BY <1>3, <2>1
  <2> QED
    BY <1>6, <2>2 DEF HttpInv, FreshInv
<1>10. LeftInv'
  BY <1>6 DEF HttpInv, LeftInv
<1>11. /\ out'[o] = w2 /\ owner'[o] = k /\ life'[o] = "open"
       /\ \A p \in Objects : p # o =>
            out'[p] = out[p] /\ owner'[p] = owner[p] /\ enabled'[p] = enabled[p] /\ life'[p] = life[p]
  BY <1>1, <1>5, <1>6 DEF NewEffect, HttpInv, ObjectTypes
<1>12. QueueInv'
  <2> SUFFICES ASSUME NEW p \in Objects, enabled'[p]
               PROVE  /\ QueueOk(out'[p], delivered[owner'[p]])
                      /\ life'[p] = "open" => CountOk(out'[p], wire[owner'[p]], delivered[owner'[p]])
    BY <1>6 DEF QueueInv
  <2>1. CASE p = o
    <3>1. w2.sending = 0
      BY <1>1, <1>7 DEF HttpInv, IdleInv
    <3>2. QueueOk(w2, delivered[k]) /\ CountOk(w2, wire[k], delivered[k])
      BY <1>4, <1>7, <3>1 DEF QueueOk, CountOk, Written
    <3> QED
      BY <1>11, <2>1, <3>2
  <2>2. CASE p # o
    BY <1>11, <2>2 DEF HttpInv, QueueInv
  <2> QED
    BY <2>1, <2>2
<1> QED
  BY <1>8, <1>9, <1>10, <1>12 DEF AnswerInv

LEMMA UvCloseAnswers ==
  ASSUME HttpInv, NEW S, NEW D, Typed(S, D), NEW o \in Objects, OnUvClose(o)
  PROVE  AnswerInv' /\ Typed(S, D)'
<1>1. UNCHANGED <<owner, accepted, wire, delivered>>
  BY DEF OnUvClose
<1>2. CASE UNCHANGED <<life, enabled, pool, in, out>>
  <2>1. Typed(S, D)'
    BY <1>1, <1>2 DEF Typed
  <2> QED
    BY <1>1, <1>2, <2>1, StillAnswers
<1>3. CASE out' = [out EXCEPT ![o] = Release(@)] /\ Reclaim(o)
  <2>2. Release(out[o]) \in Out(S)
    <3>1. out[o] \in Out(S)
      BY DEF Typed
    <3>2. <<>> \in Seq(S)
      OBVIOUS
    <3> QED
      BY <3>1, <3>2 DEF Out, Release
  <2>3. Typed(S, D)'
    BY <1>1, <1>3, <2>2 DEF Typed
  <2>4. enabled'[o] = FALSE /\ \A p \in Objects : p # o =>
          enabled'[p] = enabled[p] /\ out'[p] = out[p] /\ life'[p] = life[p]
    BY <1>3 DEF Reclaim, Typed, HttpInv, ObjectTypes
  <2>5. QueueInv'
    BY <1>1, <2>4 DEF HttpInv, QueueInv
  <2>6. FreshInv' /\ LeftInv'
    BY <1>1 DEF HttpInv, FreshInv, LeftInv
  <2> QED
    BY <2>3, <2>5, <2>6 DEF AnswerInv
<1> QED
  BY <1>2, <1>3 DEF OnUvClose

LEMMA AnswerStep ==
  ASSUME HttpInv, [Next]_vars
  PROVE  AnswerInv'
<1>1. ASSUME UNCHANGED <<enabled, owner, accepted, out, wire, delivered>>, NEW o \in Objects,
             life' = life \/ life' = [life EXCEPT ![o] = "closing"]
      PROVE  AnswerInv'
  <2>1. \A p \in Objects : life'[p] = "open" => life[p] = "open"
    BY <1>1 DEF HttpInv, ObjectTypes
  <2> QED
    BY <1>1, <2>1, StillAnswers
<1>2. ASSUME NEW o \in Objects, EchoWrite(o) PROVE AnswerInv'
  <2>1. Serves(o)
    BY <1>2, EchoWriteServes
  <2>2. \E S, D : Typed(S, D)
    BY DEF HttpInv
  <2> QED
    BY <1>2, <2>1, <2>2, EchoWriteAnswers
<1>3. ASSUME NEW o \in Objects, ReadRequest(o) PROVE AnswerInv'
  <2>1. Serves(o)
    BY <1>3, ReadServes DEF HttpInv
  <2> QED
    BY <1>3, <2>1, ReadRequestAnswers
<1>4. ASSUME NEW o \in Objects, NEW n, EchoRead(o, n) PROVE AnswerInv'
  BY <1>1, <1>4 DEF EchoRead, objectVars
<1>5. ASSUME NEW o \in Objects, EchoReadEnd(o) PROVE AnswerInv'
  BY <1>1, <1>5 DEF EchoReadEnd
<1>6. ASSUME NEW o \in Objects, ReadHeadPart(o) PROVE AnswerInv'
  BY <1>1, <1>6 DEF ReadHeadPart, CloseAndBreak, objectVars
<1>7. ASSUME UNCHANGED vars PROVE AnswerInv'
  BY <1>7, StillAnswers DEF vars
<1>8. \E S, D : Typed(S, D)
  BY DEF HttpInv
<1> QED
  BY <1>2, <1>3, <1>4, <1>5, <1>6, <1>7, <1>8, KernelWriteAnswers, NewConnectionAnswers,
     UvCloseAnswers DEF Next, LoopStep

LEMMA IdleStep ==
  ASSUME HttpInv, [Next]_vars
  PROVE  IdleInv'
<1>1. PICK S, D : Typed(S, D)
  BY DEF HttpInv
<1>2. CASE Quiet
  BY <1>2 DEF Quiet, HttpInv, IdleInv
<1>3. ASSUME NEW o \in Objects, Serves(o) PROVE IdleInv'
  <2>1. enabled[o]
    BY <1>3, ServedObject DEF Serves
  <2> QED
    BY <1>3, <2>1 DEF Serves, HttpInv, IdleInv
<1>4. ASSUME NEW o \in Objects, OnNewConnection(o) PROVE IdleInv'
  <2>1. NewEffect(o)
    BY <1>4, NewObject
  <2>2. enabled'[o] = TRUE /\ \A p \in Objects : p # o => enabled'[p] = enabled[p] /\ out'[p] = out[p]
    BY <1>1, <2>1 DEF NewEffect, HttpInv, ObjectTypes, Typed
  <2> QED
    BY <2>2 DEF HttpInv, IdleInv
<1>5. ASSUME NEW o \in Objects, OnUvClose(o) PROVE IdleInv'
  <2>1. CASE UNCHANGED <<life, enabled, pool, in, out>>
    BY <2>1 DEF HttpInv, IdleInv
  <2>2. CASE out' = [out EXCEPT ![o] = Release(@)] /\ Reclaim(o)
    <3>1. enabled'[o] = FALSE /\ out'[o].sending = 0 /\
          \A p \in Objects : p # o => enabled'[p] = enabled[p] /\ out'[p] = out[p]
      BY <1>1, <2>2 DEF Reclaim, Release, HttpInv, ObjectTypes, Typed, Out
    <3> QED
      BY <3>1 DEF HttpInv, IdleInv
  <2> QED
    BY <1>5, <2>1, <2>2 DEF OnUvClose
<1> QED
  BY <1>2, <1>3, <1>4, <1>5, StepKinds

LEMMA HttpInitInv == Init => HttpInv
<1> SUFFICES ASSUME Init PROVE HttpInv
  OBVIOUS
<1>1. MaxConns \in Nat /\ MaxFree \in Nat /\ {} \subseteq Nat
  BY HttpBoundsAssumption
<1>2. ObjectTypes
  BY DEF Init, ObjectTypes
<1>3. Typed({}, {})
  BY DEF Init, Typed, Out, NewOut
<1>4. LifeInv /\ IdleInv /\ PoolSound
  BY <1>1 DEF Init, LifeInv, IdleInv, PoolSound, NewOut
<1>5. FreshInv /\ QueueInv /\ LeftInv
  BY <1>1 DEF Init, FreshInv, QueueInv, LeftInv, LeftOk
<1> QED
  BY <1>2, <1>3, <1>4, <1>5 DEF HttpInv

LEMMA HttpInvariance == Spec => []HttpInv
<1>1. HttpInv /\ [Next]_vars => HttpInv'
  BY PoolStep, IdleStep, AnswerStep DEF HttpInv, AnswerInv
<1> QED
  BY <1>1, HttpInitInv, PTL DEF Spec

(* The pool of connection objects holds each object once, and none that     *)
(* serves a connection or that libuv may still write from.                  *)
THEOREM PoolSoundAlways == Spec => []PoolSound
<1>1. HttpInv => PoolSound
  BY DEF HttpInv
<1> QED
  BY <1>1, HttpInvariance, PTL

(* What leaves on a connection are the answers to what that connection      *)
(* asked, in order and without a gap, whoever had its object before.        *)
THEOREM AnswersToAskerAlways == Spec => []AnswersToAsker
<1>1. HttpInv => AnswersToAsker
  BY DEF HttpInv, LeftInv, LeftOk, AnswersToAsker
<1> QED
  BY <1>1, HttpInvariance, PTL

-----------------------------------------------------------------------------
(* Where the units of a stream are *)

(* what in[o] holds, with units of a stream in it *)
Reader == [buffer : Seq(Unit), packet : Seq(Unit), storage : Nat, content : Nat,
           dangling : BOOLEAN, parser : Unit, residue : - MaxInt - 1 .. MaxInt]

(* what a handler is given *)
Delivery == [asked : Unit, body : Seq(Unit), intact : BOOLEAN]

(* a unit of the i-th request of connection k *)
UnitOf(k, i, a) == [conn |-> k, req |-> i, part |-> a]

(* how many units it has *)
Size(rs, i) == 3 + rs[i].body

(* the requests rs of connection k end at the places e of their stream *)
Laid(k, rs, e) ==
  /\ e \in [0 .. Len(rs) -> Nat]
  /\ e[0] = 0
  /\ Len(StreamOf(k, rs)) = e[Len(rs)]
  /\ \A i \in 1 .. Len(rs) :
       /\ e[i] = e[i - 1] + Size(rs, i)
       /\ \A a \in 1 .. Size(rs, i) : StreamOf(k, rs)[e[i - 1] + a] = UnitOf(k, i, a - 1)

(* where the mark of a request is complete *)
Mark(e, i) == e[i - 1] + 3

(* the conversion to int is exact as far as ints go, and never adds *)
LEMMA IntOf ==
  ASSUME NEW n \in Nat
  PROVE  /\ AsInt(n) \in - MaxInt - 1 .. MaxInt /\ AsInt(n) \in Int
         /\ AsInt(n) <= n /\ (n <= MaxInt => AsInt(n) = n)
<1>1. MaxInt \in Nat
  BY HttpBoundsAssumption
<1>2. AsInt(n) \in - MaxInt - 1 .. MaxInt
  BY <1>1 DEF AsInt
<1>3. AsInt(n) <= n
  BY <1>1 DEF AsInt
<1>4. n <= MaxInt => AsInt(n) = n
  BY <1>1 DEF AsInt
<1>5. AsInt(n) \in Int
  BY <1>1 DEF AsInt
<1> QED
  BY <1>2, <1>3, <1>4, <1>5

(* the units of one request *)
LEMMA UnitsTyped ==
  ASSUME NEW k \in Nat, NEW rs \in Seq(Requests), NEW i \in 1 .. Len(rs)
  PROVE  /\ rs[i].body \in Nat /\ Size(rs, i) \in Nat /\ rs[i].served \in BOOLEAN
         /\ rs[i].kind # "POST" => rs[i].body = 0
         /\ Units(k, i, rs[i]) \in Seq(Unit) /\ Len(Units(k, i, rs[i])) = Size(rs, i)
         /\ \A a \in 1 .. Size(rs, i) : Units(k, i, rs[i])[a] = UnitOf(k, i, a - 1)
<1> DEFINE r == rs[i]
           n == 3 + r.body
           q == Units(k, i, r)
<1>1. r \in Requests /\ i \in Nat
  OBVIOUS
<1>2. r.body \in Nat /\ r.served \in BOOLEAN /\ (r.kind # "POST" => r.body = 0)
  BY <1>1 DEF Requests
<1>3. n \in Nat
  BY <1>2
<1>4. q = [a \in 1 .. n |-> UnitOf(k, i, a - 1)]
  BY DEF Units, UnitOf
<1>5. \A a \in 1 .. n : UnitOf(k, i, a - 1) \in Unit
  <2> SUFFICES ASSUME NEW a \in 1 .. n PROVE UnitOf(k, i, a - 1) \in Unit
    OBVIOUS
  <2>1. a - 1 \in Nat
    BY <1>3
  <2> QED
    BY <1>1, <2>1 DEF Unit, UnitOf
<1> HIDE DEF n, q
<1>6. q \in Seq(Unit) /\ Len(q) = n /\ \A a \in 1 .. n : q[a] = UnitOf(k, i, a - 1)
  BY <1>3, <1>4, <1>5
<1> QED
  BY <1>2, <1>3, <1>6 DEF n, q, Size

(* StreamOf joins the requests one after the other *)
LEMMA StreamLaid ==
  ASSUME NEW k \in Nat, NEW rs \in Seq(Requests)
  PROVE  StreamOf(k, rs) \in Seq(Unit) /\ \E e : Laid(k, rs, e)
<1> DEFINE N == Len(rs)
           p == [i \in 1 .. N |-> Units(k, i, rs[i])]
           F(upTo) == [i \in 0 .. N |-> IF i = 0 THEN <<>> ELSE upTo[i - 1] \o Units(k, i, rs[i])]
           f == CHOOSE upTo : upTo = F(upTo)
<1>1. N \in Nat
  OBVIOUS
<1>2. \A i \in 1 .. N : p[i] = Units(k, i, rs[i])
  OBVIOUS
<1>3. \A i \in 1 .. N : p[i] \in Seq(Unit) /\ Len(p[i]) = Size(rs, i)
  BY <1>2, UnitsTyped
<1>4. StreamOf(k, rs) = f[N]
  BY DEF StreamOf
<1>5. \A g : g = F(g) <=> Joins(g, N, p)
  <2> SUFFICES ASSUME NEW g PROVE g = F(g) <=> Joins(g, N, p)
    OBVIOUS
  <2>1. \A i \in 0 .. N : i # 0 => i \in 1 .. N
    BY <1>1
  <2>2. \A i \in 0 .. N : i # 0 => p[i] = Units(k, i, rs[i])
    BY <1>2, <2>1
  <2> HIDE DEF p
  <2>3. F(g) = [i \in 0 .. N |-> IF i = 0 THEN <<>> ELSE g[i - 1] \o p[i]]
    BY <2>2
  <2> QED
    BY <2>3 DEF Joins
<1> HIDE DEF F, p, N
<1>6. \E g : Joins(g, N, p)
  BY <1>1, JoinExists
<1>7. Joins(f, N, p)
  BY <1>5, <1>6
<1> HIDE DEF f
<1>8. f[N] \in Seq(Unit) /\ \E e : Layout(e, N, p, f[N])
  <2>1. \A i \in 1 .. N : p[i] \in Seq(Unit)
    BY <1>3
  <2> QED
    BY <1>1, <1>7, <2>1, JoinLayout
<1>9. PICK e : Layout(e, N, p, f[N])
  BY <1>8
<1>10. Laid(k, rs, e)
  <2>1. e \in [0 .. N -> Nat] /\ e[0] = 0 /\ Len(f[N]) = e[N]
    BY <1>9 DEF Layout
  <2>2. ASSUME NEW i \in 1 .. N
        PROVE  /\ e[i] = e[i - 1] + Size(rs, i)
               /\ \A a \in 1 .. Size(rs, i) : f[N][e[i - 1] + a] = UnitOf(k, i, a - 1)
    <3>1. e[i] = e[i - 1] + Len(p[i]) /\ \A a \in 1 .. Len(p[i]) : f[N][e[i - 1] + a] = p[i][a]
      BY <1>9 DEF Layout
    <3>2. \A a \in 1 .. Size(rs, i) : p[i][a] = UnitOf(k, i, a - 1)
      BY <1>2, UnitsTyped DEF N
    <3>3. Len(p[i]) = Size(rs, i)
      BY <1>3
    <3> QED
      BY <3>1, <3>2, <3>3
  <2> QED
    BY <1>4, <2>1, <2>2 DEF Laid, N
<1> QED
  BY <1>4, <1>8, <1>10

(* a request ends where the next one begins, or later *)
LEMMA EndsGrow ==
  ASSUME NEW k \in Nat, NEW rs \in Seq(Requests), NEW e, Laid(k, rs, e)
  PROVE  /\ \A i \in 0 .. Len(rs) : e[i] \in Nat
         /\ \A i \in 1 .. Len(rs) :
              /\ i \in Nat /\ i - 1 \in 0 .. Len(rs) /\ i \in 0 .. Len(rs)
              /\ Size(rs, i) \in Nat /\ Size(rs, i) >= 3 /\ e[i] = e[i - 1] + Size(rs, i)
         /\ \A i, j \in 0 .. Len(rs) : i <= j => e[i] <= e[j]
<1> DEFINE N == Len(rs)
           S == {n \in Nat : n <= N => \A i \in 0 .. n : e[i] <= e[n]}
<1>1. N \in Nat
  OBVIOUS
<1>2. \A i \in 0 .. N : e[i] \in Nat
  BY DEF Laid
<1>3. ASSUME NEW i \in 1 .. N
      PROVE  /\ i \in Nat /\ i - 1 \in 0 .. N /\ i \in 0 .. N
             /\ Size(rs, i) \in Nat /\ Size(rs, i) >= 3 /\ e[i] = e[i - 1] + Size(rs, i)
  <2>1. i \in Nat /\ i - 1 \in 0 .. N /\ i \in 0 .. N
    BY <1>1
  <2>2. rs[i].body \in Nat
    BY UnitsTyped
  <2>3. Size(rs, i) \in Nat /\ Size(rs, i) >= 3
    <3> DEFINE b == rs[i].body
    <3>1. b \in Nat /\ Size(rs, i) = 3 + b
      BY <2>2 DEF Size
    <3> HIDE DEF b
    <3> QED
      BY <3>1
  <2>4. e[i] = e[i - 1] + Size(rs, i)
    BY DEF Laid
  <2> QED
    BY <2>1, <2>3, <2>4
<1> HIDE DEF N
<1>4. 0 \in S
  <2>1. \A i \in 0 .. 0 : i = 0
    OBVIOUS
  <2>2. e[0] \in Nat
    BY <1>1, <1>2
  <2> QED
    BY <2>1, <2>2
<1>5. ASSUME NEW n \in S PROVE n + 1 \in S
  <2> SUFFICES ASSUME n + 1 <= N, NEW i \in 0 .. n + 1 PROVE e[i] <= e[n + 1]
    OBVIOUS
  <2>1. n \in Nat /\ n <= N /\ n + 1 \in 1 .. N /\ (n + 1) - 1 = n /\ n \in 0 .. N
    BY <1>1
  <2>2. Size(rs, n + 1) \in Nat /\ e[n + 1] = e[n] + Size(rs, n + 1) /\ e[n] \in Nat
    BY <1>2, <1>3, <2>1
  <2>3. e[n] <= e[n + 1]
    BY <2>2
  <2>4. CASE i = n + 1
    BY <2>2, <2>4
  <2>5. CASE i \in 0 .. n
    <3>1. e[i] <= e[n] /\ i \in 0 .. N
      BY <1>1, <2>1, <2>5
    <3> QED
      BY <1>2, <2>1, <2>2, <2>3, <3>1
  <2> QED
    BY <2>1, <2>4, <2>5
<1>6. S = Nat
  <2>1. S \subseteq Nat
    OBVIOUS
  <2> HIDE DEF S
  <2> QED
    BY <1>4, <1>5, <2>1, Induction
<1>7. ASSUME NEW i \in 0 .. N, NEW j \in 0 .. N, i <= j PROVE e[i] <= e[j]
  <2>1. j \in S /\ j <= N /\ i \in 0 .. j
    BY <1>1, <1>6, <1>7
  <2> QED
    BY <2>1
<1> QED
  BY <1>2, <1>3, <1>7 DEF N

(* every unit of a stream belongs to a request *)
LEMMA UnitAt ==
  ASSUME NEW k \in Nat, NEW rs \in Seq(Requests), NEW e, Laid(k, rs, e),
         NEW q \in 1 .. Len(StreamOf(k, rs))
  PROVE  \E i \in 1 .. Len(rs) : \E a \in 1 .. Size(rs, i) :
           q = e[i - 1] + a /\ StreamOf(k, rs)[q] = UnitOf(k, i, a - 1)
<1> DEFINE N == Len(rs)
           T == StreamOf(k, rs)
           S == {n \in Nat : n <= N => \A p \in 1 .. e[n] :
                                         \E i \in 1 .. n : e[i - 1] < p /\ p <= e[i]}
<1>1. N \in Nat /\ Len(T) = e[N] /\ e[0] = 0
  BY DEF Laid
<1>2. /\ \A i \in 0 .. N : e[i] \in Nat
      /\ \A i \in 1 .. N : /\ i \in Nat /\ i - 1 \in 0 .. N /\ i \in 0 .. N
                           /\ Size(rs, i) \in Nat /\ e[i] = e[i - 1] + Size(rs, i)
  BY EndsGrow
<1>3. \A i \in 1 .. N : \A a \in 1 .. Size(rs, i) : T[e[i - 1] + a] = UnitOf(k, i, a - 1)
  BY DEF Laid
<1> HIDE DEF N, T
<1>4. 0 \in S
  BY <1>1
<1>5. ASSUME NEW n \in S PROVE n + 1 \in S
  <2> SUFFICES ASSUME n + 1 <= N, NEW p \in 1 .. e[n + 1]
               PROVE  \E i \in 1 .. n + 1 : e[i - 1] < p /\ p <= e[i]
    OBVIOUS
  <2>1. n \in Nat /\ n <= N /\ n + 1 \in 1 .. N /\ n + 1 \in 1 .. n + 1 /\ (n + 1) - 1 = n /\ n \in 0 .. N
    BY <1>1
  <2>2. e[n] \in Nat /\ e[n + 1] \in Nat
    BY <1>2, <2>1
  <2>3. CASE p <= e[n]
    <3>1. p \in 1 .. e[n]
      BY <2>2, <2>3
    <3>2. PICK i \in 1 .. n : e[i - 1] < p /\ p <= e[i]
      BY <2>1, <3>1
    <3>3. i \in 1 .. n + 1
      BY <2>1
    <3> QED
      BY <3>2, <3>3
  <2>4. CASE e[n] < p
    <3>1. p <= e[n + 1]
      BY <2>2
    <3> QED
      BY <2>1, <2>4, <3>1
  <2> QED
    BY <2>2, <2>3, <2>4
<1>6. S = Nat
  <2>1. S \subseteq Nat
    OBVIOUS
  <2> HIDE DEF S
  <2> QED
    BY <1>4, <1>5, <2>1, Induction
<1>7. q \in 1 .. e[N]
  BY <1>1 DEF T
<1>8. PICK i \in 1 .. N : e[i - 1] < q /\ q <= e[i]
  <2>1. N \in S
    BY <1>1, <1>6
  <2> QED
    BY <1>1, <1>7, <2>1
<1> DEFINE a == q - e[i - 1]
<1>9. a \in 1 .. Size(rs, i) /\ q = e[i - 1] + a
  <2>1. /\ e[i - 1] \in Nat /\ Size(rs, i) \in Nat /\ e[i] = e[i - 1] + Size(rs, i)
        /\ q \in Nat /\ e[N] \in Nat
    BY <1>1, <1>2, <1>7, <1>8
  <2> QED
    BY <1>8, <2>1
<1> HIDE DEF a
<1>10. T[q] = UnitOf(k, i, a - 1)
  BY <1>3, <1>8, <1>9
<1> QED
  BY <1>8, <1>9, <1>10 DEF N, T

(* the places of heads and marks *)
LEMMA MarkAt ==
  ASSUME NEW k \in Nat, NEW rs \in Seq(Requests), NEW e, Laid(k, rs, e)
  PROVE  LET T == StreamOf(k, rs)
         IN  /\ \A q \in 1 .. Len(T) : T[q].part = 2 =>
                  \E i \in 1 .. Len(rs) : q = Mark(e, i) /\ T[q] = UnitOf(k, i, 2)
             /\ \A q \in 1 .. Len(T) : T[q].part = 0 =>
                  \E i \in 1 .. Len(rs) : q = e[i - 1] + 1
             /\ \A q \in 1 .. Len(T) : (q > 1 /\ T[q].part = 2) =>
                  T[q - 1].part = 1 /\ T[q - 1].req = T[q].req
             /\ \A q \in 1 .. Len(T) : T[q].part = 2 => q > 1
             /\ \A i \in 1 .. Len(rs) :
                  Mark(e, i) \in 1 .. Len(T) /\ T[Mark(e, i)] = UnitOf(k, i, 2)
<1> DEFINE T == StreamOf(k, rs)
           N == Len(rs)
<1>1. N \in Nat /\ Len(T) = e[N] /\ N \in 0 .. N
  BY DEF Laid
<1>2. /\ \A i \in 0 .. N : e[i] \in Nat
      /\ \A i \in 1 .. N : /\ i \in Nat /\ i - 1 \in 0 .. N /\ i \in 0 .. N
                           /\ Size(rs, i) \in Nat /\ Size(rs, i) >= 3
                           /\ e[i] = e[i - 1] + Size(rs, i)
      /\ \A i, j \in 0 .. N : i <= j => e[i] <= e[j]
  BY EndsGrow
<1>3. \A i \in 1 .. N : \A a \in 1 .. Size(rs, i) : T[e[i - 1] + a] = UnitOf(k, i, a - 1)
  BY DEF Laid
<1>4. \A q \in 1 .. Len(T) : \E i \in 1 .. N : \E a \in 1 .. Size(rs, i) :
        q = e[i - 1] + a /\ T[q] = UnitOf(k, i, a - 1)
  BY UnitAt
<1> HIDE DEF T, N
<1>5. ASSUME NEW q \in 1 .. Len(T)
      PROVE  /\ T[q].part = 2 =>
                  \E i \in 1 .. N : q = Mark(e, i) /\ T[q] = UnitOf(k, i, 2)
             /\ T[q].part = 0 => \E i \in 1 .. N : q = e[i - 1] + 1
             /\ T[q].part = 2 => T[q - 1].part = 1 /\ T[q - 1].req = T[q].req
             /\ T[q].part = 2 => q > 1
  <2>1. PICK i \in 1 .. N : \E a \in 1 .. Size(rs, i) :
          q = e[i - 1] + a /\ T[q] = UnitOf(k, i, a - 1)
    BY <1>4
  <2>a. PICK a \in 1 .. Size(rs, i) : q = e[i - 1] + a /\ T[q] = UnitOf(k, i, a - 1)
    BY <2>1
  <2>2. T[q].part = a - 1 /\ T[q].req = i
    BY <2>a DEF UnitOf
  <2>3. e[i - 1] \in Nat /\ a \in Nat /\ Size(rs, i) \in Nat /\ Size(rs, i) >= 3
    BY <1>2
  <2>4. ASSUME T[q].part = 2
        PROVE  /\ q = Mark(e, i) /\ T[q] = UnitOf(k, i, 2) /\ q > 1
               /\ T[q - 1].part = 1 /\ T[q - 1].req = T[q].req
    <3>1. a = 3 /\ a - 1 = 2
      BY <2>2, <2>3, <2>4
    <3>2. 2 \in 1 .. Size(rs, i) /\ q - 1 = e[i - 1] + 2 /\ q > 1 /\ 2 - 1 = 1
      <4> DEFINE g == e[i - 1]
                 z == Size(rs, i)
      <4>1. g \in Nat /\ z \in Nat /\ z >= 3 /\ q = g + 3
        BY <2>a, <2>3, <3>1
      <4> HIDE DEF g, z
      <4>2. 2 \in 1 .. z /\ q - 1 = g + 2 /\ q > 1 /\ 2 - 1 = 1
        BY <4>1
      <4> QED
        BY <4>2 DEF g, z
    <3>3. T[q - 1] = UnitOf(k, i, 1)
      BY <1>3, <3>2
    <3> QED
      BY <2>a, <2>2, <3>1, <3>2, <3>3 DEF UnitOf, Mark
  <2>5. ASSUME T[q].part = 0 PROVE q = e[i - 1] + 1
    <3>1. a = 1
      BY <2>2, <2>3, <2>5
    <3> QED
      BY <2>a, <3>1
  <2> QED
    BY <2>4, <2>5
<1>6. ASSUME NEW i \in 1 .. N PROVE Mark(e, i) \in 1 .. Len(T) /\ T[Mark(e, i)] = UnitOf(k, i, 2)
  <2>1. /\ e[i - 1] \in Nat /\ Size(rs, i) \in Nat /\ Size(rs, i) >= 3
        /\ e[i] = e[i - 1] + Size(rs, i) /\ e[N] \in Nat /\ i <= N /\ i \in 0 .. N
    BY <1>1, <1>2
  <2>2. e[i] <= e[N]
    BY <1>1, <1>2, <2>1
  <2>3. 3 \in 1 .. Size(rs, i) /\ 3 - 1 = 2
    BY <2>1
  <2>4. T[e[i - 1] + 3] = UnitOf(k, i, 2)
    BY <1>3, <2>3
  <2>5. e[i - 1] + 3 \in 1 .. Len(T)
    BY <1>1, <2>1, <2>2
  <2> QED
    BY <2>4, <2>5 DEF Mark
<1> QED
  BY <1>5, <1>6 DEF T, N

(* marks come in the order of their requests, one within each *)
LEMMA MarkOrder ==
  ASSUME NEW k \in Nat, NEW rs \in Seq(Requests), NEW e, Laid(k, rs, e)
  PROVE  /\ \A i \in 1 .. Len(rs) :
              /\ e[i - 1] \in Nat /\ e[i] \in Nat /\ Mark(e, i) \in Nat
              /\ e[i - 1] < Mark(e, i) /\ Mark(e, i) <= e[i]
              /\ rs[i].body \in Nat /\ Mark(e, i) + rs[i].body = e[i]
         /\ \A i, j \in 1 .. Len(rs) : i < j => e[i] <= e[j - 1] /\ e[i] < Mark(e, j)
         /\ \A i, j \in 1 .. Len(rs) : Mark(e, i) <= e[j] => i <= j
         /\ \A i, j \in 1 .. Len(rs) : Mark(e, i) < Mark(e, j) <=> i < j
<1> DEFINE N == Len(rs)
<1>0. N \in Nat
  OBVIOUS
<1>1. /\ \A i \in 0 .. N : e[i] \in Nat
      /\ \A i \in 1 .. N : /\ i \in Nat /\ i - 1 \in 0 .. N /\ i \in 0 .. N
                           /\ Size(rs, i) \in Nat /\ Size(rs, i) >= 3
                           /\ e[i] = e[i - 1] + Size(rs, i)
      /\ \A i, j \in 0 .. N : i <= j => e[i] <= e[j]
  BY EndsGrow
<1>2. ASSUME NEW i \in 1 .. N
      PROVE  /\ e[i - 1] \in Nat /\ e[i] \in Nat /\ Mark(e, i) \in Nat
             /\ e[i - 1] < Mark(e, i) /\ Mark(e, i) <= e[i]
             /\ rs[i].body \in Nat /\ Mark(e, i) + rs[i].body = e[i]
  <2> DEFINE g == e[i - 1]
             b == rs[i].body
  <2>1. g \in Nat /\ e[i] = g + (3 + b) /\ Mark(e, i) = g + 3
    BY <1>1 DEF Size, Mark
  <2>2. b \in Nat
    BY UnitsTyped
  <2> HIDE DEF g, b
  <2>3. g < g + 3 /\ g + 3 <= g + (3 + b) /\ g + 3 + b = g + (3 + b) /\ g + 3 \in Nat /\ g + (3 + b) \in Nat
    BY <2>1, <2>2
  <2> QED
    BY <2>1, <2>2, <2>3 DEF g, b
<1> HIDE DEF N
<1>3. ASSUME NEW i \in 1 .. N, NEW j \in 1 .. N, i < j
      PROVE  e[i] <= e[j - 1] /\ e[i] < Mark(e, j) /\ Mark(e, i) < Mark(e, j)
  <2>1. i <= j - 1 /\ i \in 0 .. N /\ j - 1 \in 0 .. N
    BY <1>0, <1>3
  <2>2. e[i] <= e[j - 1]
    BY <1>1, <2>1
  <2> QED
    BY <1>2, <2>2
<1>4. ASSUME NEW i \in 1 .. N, NEW j \in 1 .. N PROVE i < j \/ i = j \/ j < i
  BY <1>0
<1>5. ASSUME NEW i \in 1 .. N, NEW j \in 1 .. N, Mark(e, i) <= e[j] PROVE i <= j
  <2>1. ~(j < i)
    <3> SUFFICES ASSUME j < i PROVE FALSE
      OBVIOUS
    <3>1. e[j] < Mark(e, i)
      BY <1>3
    <3> QED
      BY <1>2, <1>5, <3>1
  <2> QED
    BY <1>0, <2>1
<1>6. ASSUME NEW i \in 1 .. N, NEW j \in 1 .. N PROVE Mark(e, i) < Mark(e, j) <=> i < j
  <2>1. CASE i < j
    BY <1>3, <2>1
  <2>2. CASE i = j
    BY <1>0, <1>2, <2>2
  <2>3. CASE j < i
    <3>1. Mark(e, j) < Mark(e, i)
      BY <1>3, <2>3
    <3> QED
      BY <1>0, <1>2, <2>3, <3>1
  <2> QED
    BY <1>4, <2>1, <2>2, <2>3
<1> QED
  BY <1>2, <1>3, <1>5, <1>6 DEF N

-----------------------------------------------------------------------------
(* A reader between two rounds *)

(* the packet begins behind the first c units of the stream; then comes the *)
(* buffer, then rest                                                        *)
Cursor(k, rs, c, r, rest) ==
  /\ c \in Nat
  /\ At(StreamOf(k, rs), c + Len(r.packet), r.buffer, rest)
  /\ \A j \in 1 .. Len(r.packet) : r.packet[j] = StreamOf(k, rs)[c + j]

(* a mark that q units of the stream cut is known: its request is in C *)
Known(k, rs, C, q) ==
  (q + 1 <= Len(StreamOf(k, rs)) /\ StreamOf(k, rs)[q + 1].part = 2) =>
     StreamOf(k, rs)[q + 1].req \in C

(* so where the buffer begins and ends *)
CutKnown(k, rs, C, c, r) ==
  /\ Known(k, rs, C, c + Len(r.packet))
  /\ Known(k, rs, C, c + Len(r.packet) + Len(r.buffer))

(* Regular, of the requests rs with cuts C *)
RegularIn(rs, C, j) ==
  /\ {j - 1, j} \cap C = {}
  /\ 3 + rs[j].body <= Capacity
  /\ rs[j].body <= MaxInt

(* requests that no handler may get *)
Lost(rs, C, j) == ~(rs[j].served /\ RegularIn(rs, C, j))

(* no head is being waited for: the marks in the packet were cut, and those *)
(* before it are of requests that were given to handlers or lost; b is the  *)
(* last one given                                                           *)
Waiting(rs, e, C, c, r, b) ==
  /\ r.content = 0 /\ ~r.dangling /\ r.residue = 0
  /\ \A j \in 1 .. Len(rs) : (c < Mark(e, j) /\ Mark(e, j) <= c + Len(r.packet)) => j \in C
  /\ \A j \in 1 .. Len(rs) : (b < j /\ Mark(e, j) <= c) => Lost(rs, C, j)
  /\ \A j \in 1 .. Len(rs) : c < Mark(e, j) => b < j

(* the head of request i is there, alone unless the mark before was cut,    *)
(* and residue units of what counts as its body are to come; the content    *)
(* dangles only when the packet outgrew the storage                         *)
UnderWay(k, rs, e, C, c, r, b, i) ==
  /\ i \in 1 .. Len(rs)
  /\ r.parser = UnitOf(k, i, 2)
  /\ r.content # 0 /\ c + r.content = Mark(e, i) /\ r.content <= Len(r.packet)
  /\ Len(r.packet) - r.content + r.residue = AsInt(rs[i].body)
  /\ c + Len(r.packet) <= e[i]
  /\ c = e[i - 1] \/ i - 1 \in C
  /\ r.dangling => Len(r.packet) > Capacity
  /\ b < i /\ \A j \in 1 .. Len(rs) : (b < j /\ j < i) => Lost(rs, C, j)

(* q is r with the first n units of the buffer put behind the packet *)
Took(q, r, n) ==
  /\ q.packet = r.packet \o SubSeq(r.buffer, 1, n)
  /\ q.buffer = SubSeq(r.buffer, n + 1, Len(r.buffer))

(* what AppendFront does to a reader, by parts *)
LEMMA FrontAppended ==
  ASSUME NEW r \in Reader, NEW n \in 0 .. Len(r.buffer), r.storage >= Capacity
  PROVE  /\ AppendFront(r, n) \in Reader /\ AppendFront(r, n).storage >= Capacity
         /\ Took(AppendFront(r, n), r, n)
         /\ AppendFront(r, n).parser = r.parser /\ AppendFront(r, n).residue = r.residue
         /\ AppendFront(r, n).content = r.content
         /\ \/ AppendFront(r, n).dangling = r.dangling
            \/ r.content # 0 /\ Len(r.packet) + n > Capacity
<1> DEFINE p == r.packet
           b == r.buffer
           x == p \o SubSeq(b, 1, n)
           y == SubSeq(b, n + 1, Len(b))
           size == Len(p) + n
           s == r.storage
           g == r.dangling \/ (size > s /\ r.content # 0)
<1>0. Capacity \in Nat
  BY HttpBoundsAssumption
<1>1. p \in Seq(Unit) /\ b \in Seq(Unit) /\ s \in Nat /\ n \in 0 .. Len(b)
  BY DEF Reader
<1>2. Len(p) \in Nat /\ Len(b) \in Nat
  BY <1>1
<1>3. x \in Seq(Unit) /\ y \in Seq(Unit)
  <2> HIDE DEF p, b
  <2> QED
    BY <1>1, PieceBehind, PieceLeft
<1>4. size \in Nat /\ s >= Capacity
  <2> HIDE DEF p, b
  <2> QED
    BY <1>1, <1>2
<1>5. AppendFront(r, n) =
        [r EXCEPT !.packet = x, !.buffer = y,
                  !.storage = IF size > s THEN size ELSE s,
                  !.dangling = g]
  BY DEF AppendFront
<1>6. g \in BOOLEAN /\ (g = r.dangling \/ (size > s /\ r.content # 0))
  BY DEF Reader
<1> HIDE DEF x, y, size, g
<1>7. AppendFront(r, n) \in Reader
  BY <1>1, <1>3, <1>4, <1>5, <1>6 DEF Reader
<1>8. /\ AppendFront(r, n).packet = x /\ AppendFront(r, n).buffer = y
      /\ AppendFront(r, n).parser = r.parser /\ AppendFront(r, n).residue = r.residue
      /\ AppendFront(r, n).storage = (IF size > s THEN size ELSE s)
      /\ AppendFront(r, n).content = r.content /\ AppendFront(r, n).dangling = g
  BY <1>5 DEF Reader
<1>9. size > s => size > Capacity
  <2> HIDE DEF s
  <2> QED
    BY <1>0, <1>1, <1>4
<1>10. (IF size > s THEN size ELSE s) >= Capacity
  <2> HIDE DEF s
  <2> QED
    BY <1>0, <1>1, <1>4
<1>11. AppendFront(r, n).dangling = r.dangling \/ (r.content # 0 /\ size > Capacity)
  BY <1>6, <1>8, <1>9
<1> QED
  BY <1>7, <1>8, <1>10, <1>11 DEF x, y, size, Took

(* what a reader holds, as numbers *)
LEMMA ReaderLengths ==
  ASSUME NEW r \in Reader
  PROVE  /\ r.packet \in Seq(Unit) /\ r.buffer \in Seq(Unit)
         /\ Len(r.packet) \in Nat /\ Len(r.buffer) \in Nat
         /\ r.content \in Nat /\ r.residue \in Int /\ r.storage \in Nat
         /\ (r.buffer # <<>> => Len(r.buffer) # 0)
<1> DEFINE p == r.packet
           b == r.buffer
<1>1. p \in Seq(Unit) /\ b \in Seq(Unit) /\ r.content \in Nat /\ r.storage \in Nat
  BY DEF Reader
<1>2. r.residue \in Int
  <2>1. - MaxInt - 1 .. MaxInt \subseteq Int
    OBVIOUS
  <2> QED
    BY <2>1 DEF Reader
<1> HIDE DEF p, b
<1>3. Len(p) \in Nat /\ Len(b) \in Nat /\ (b # <<>> => Len(b) # 0)
  BY <1>1
<1> QED
  BY <1>1, <1>2, <1>3 DEF p, b

(* the reader goes on *)
LEMMA CursorMoved ==
  ASSUME NEW k \in Nat, NEW rs \in Seq(Requests), NEW c, NEW r \in Reader,
         NEW rest \in Seq(Unit), Cursor(k, rs, c, r, rest),
         NEW n \in 0 .. Len(r.buffer), NEW q, Took(q, r, n)
  PROVE  /\ Cursor(k, rs, c, q, rest)
         /\ Len(q.packet) = Len(r.packet) + n /\ Len(q.buffer) = Len(r.buffer) - n
<1> DEFINE p == r.packet
           b == r.buffer
           x == p \o SubSeq(b, 1, n)
           y == SubSeq(b, n + 1, Len(b))
           T == StreamOf(k, rs)
           l == Len(p)
           m == Len(b)
<1>0. T \in Seq(Unit)
  BY StreamLaid
<1>1. p \in Seq(Unit) /\ b \in Seq(Unit) /\ l \in Nat /\ m \in Nat /\ n \in 0 .. m /\ n \in Nat
  BY ReaderLengths
<1>2. c \in Nat /\ At(T, c + l, b, rest) /\ \A j \in 1 .. l : p[j] = T[c + j]
  BY DEF Cursor
<1>3. q.packet = x /\ q.buffer = y
  BY DEF Took
<1>4. \A j \in 1 .. m : b[j] = T[c + l + j]
  BY <1>2 DEF At
<1> HIDE DEF p, b, T
<1>5. /\ Len(x) = l + n /\ \A j \in 1 .. l : x[j] = p[j]
      /\ \A j \in 1 .. n : x[l + j] = b[j]
  BY <1>1, PieceBehind
<1>6. Len(y) = m - n
  BY <1>1, PieceLeft
<1>7. At(T, (c + l) + n, y, rest)
  <2>1. c + l \in Nat
    BY <1>1, <1>2
  <2> QED
    BY <1>0, <1>1, <1>2, <2>1, AtMoved
<1> HIDE DEF x, y, l, m
<1>8. ASSUME NEW j \in 1 .. l + n PROVE x[j] = T[c + j]
  <2>1. CASE j <= l
    <3>1. j \in 1 .. l
      BY <1>1, <2>1
    <3> QED
      BY <1>2, <1>5, <3>1
  <2>2. CASE ~(j <= l)
    <3> DEFINE a == j - l
    <3>1. a \in 1 .. n /\ a \in 1 .. m /\ j = l + a /\ c + l + a = c + j
      BY <1>1, <1>2, <2>2
    <3> HIDE DEF a
    <3>2. x[l + a] = b[a] /\ b[a] = T[c + l + a]
      BY <1>4, <1>5, <3>1
    <3> QED
      BY <3>1, <3>2
  <2> QED
    BY <2>1, <2>2
<1>9. c + Len(x) = (c + l) + n
  BY <1>1, <1>2, <1>5
<1>10. Cursor(k, rs, c, q, rest)
  BY <1>2, <1>3, <1>5, <1>7, <1>8, <1>9 DEF Cursor, T
<1> QED
  BY <1>3, <1>5, <1>6, <1>10 DEF l, m, p, b

(* the units of the buffer, by their places in the stream *)
LEMMA BufferAt ==
  ASSUME NEW k \in Nat, NEW rs \in Seq(Requests), NEW c, NEW r \in Reader,
         NEW rest \in Seq(Unit), Cursor(k, rs, c, r, rest)
  PROVE  /\ c \in Nat /\ c + Len(r.packet) \in Nat
         /\ c + Len(r.packet) + Len(r.buffer) <= Len(StreamOf(k, rs))
         /\ \A j \in 1 .. Len(r.buffer) :
              /\ j \in Nat /\ c + Len(r.packet) + j \in 1 .. Len(StreamOf(k, rs))
              /\ r.buffer[j] = StreamOf(k, rs)[c + Len(r.packet) + j]
<1> DEFINE b == r.buffer
           T == StreamOf(k, rs)
           l == Len(r.packet)
           m == Len(b)
           z == Len(rest)
           t == Len(T)
<1>1. l \in Nat /\ m \in Nat
  BY ReaderLengths
<1>2. c \in Nat /\ At(T, c + l, b, rest)
  BY DEF Cursor
<1>3. z \in Nat /\ t \in Nat
  <2>1. T \in Seq(Unit)
    BY StreamLaid
  <2> HIDE DEF T
  <2> QED
    BY <2>1
<1>4. c + l + m + z = t /\ \A j \in 1 .. m : b[j] = T[c + l + j]
  BY <1>2 DEF At
<1> HIDE DEF b, T, l, m, z, t
<1>5. c + l \in Nat /\ c + l + m <= t
  BY <1>1, <1>2, <1>3, <1>4
<1>6. \A j \in 1 .. m : j \in Nat /\ c + l + j \in 1 .. t
  BY <1>1, <1>2, <1>3, <1>5
<1> QED
  BY <1>2, <1>4, <1>5, <1>6 DEF b, T, l, m, t

-----------------------------------------------------------------------------
(* The rounds *)

(* the mark that ends a head, and the marks it leaves behind *)
LEMMA HeadFound ==
  ASSUME NEW k \in Nat, NEW rs \in Seq(Requests), NEW e, Laid(k, rs, e), NEW C, NEW c,
         NEW r \in Reader, NEW rest \in Seq(Unit), Cursor(k, rs, c, r, rest),
         CutKnown(k, rs, C, c, r), NEW b \in Nat, Waiting(rs, e, C, c, r, b),
         NEW n \in Ends(r.buffer), \A m \in Ends(r.buffer) : n <= m
  PROVE  /\ n \in 1 .. Len(r.buffer)
         /\ \E i \in 1 .. Len(rs) :
              /\ Mark(e, i) = c + Len(r.packet) + n /\ r.buffer[n] = UnitOf(k, i, 2)
              /\ \A j \in 1 .. Len(rs) : (j < i /\ c < Mark(e, j)) => j \in C
<1> DEFINE T == StreamOf(k, rs)
           m == Len(r.buffer)
           l == Len(r.packet)
<1>1. c \in Nat /\ l \in Nat /\ m \in Nat
  BY BufferAt, ReaderLengths
<1>2. \A j \in 1 .. m : /\ j \in Nat /\ c + l + j \in 1 .. Len(T)
                        /\ r.buffer[j] = T[c + l + j]
  BY BufferAt
<1>3. Ends(r.buffer) = {j \in 2 .. m : r.buffer[j].part = 2}
  BY DEF Ends
<1>4. n \in 2 .. m /\ n \in 1 .. m /\ r.buffer[n].part = 2
  BY <1>1, <1>3
<1>5. T[c + l + n].part = 2 /\ c + l + n \in 1 .. Len(T)
  BY <1>2, <1>4
<1>6. PICK i \in 1 .. Len(rs) : c + l + n = Mark(e, i) /\ T[c + l + n] = UnitOf(k, i, 2)
  BY <1>5, MarkAt
<1>7. Known(k, rs, C, c + l)
  BY DEF CutKnown
<1>8. \A j \in 1 .. Len(rs) : (c < Mark(e, j) /\ Mark(e, j) <= c + l) => j \in C
  BY DEF Waiting
<1> HIDE DEF T, l, m
<1>9. ASSUME NEW j \in 1 .. Len(rs), j < i, c < Mark(e, j) PROVE j \in C
  <2>1. Mark(e, j) \in Nat /\ Mark(e, j) < c + l + n
    BY <1>6, <1>9, MarkOrder
  <2>2. T[Mark(e, j)] = UnitOf(k, j, 2) /\ Mark(e, j) \in 1 .. Len(T)
    BY MarkAt DEF T
  <2>3. CASE Mark(e, j) <= c + l
    BY <1>8, <1>9, <2>3
  <2>4. CASE c + l < Mark(e, j)
    <3> DEFINE a == Mark(e, j) - (c + l)
    <3>1. a \in 1 .. m /\ a < n /\ Mark(e, j) = c + l + a
      BY <1>1, <1>4, <2>1, <2>4
    <3> HIDE DEF a
    <3>2. r.buffer[a].part = 2
      BY <1>2, <2>2, <3>1 DEF UnitOf
    <3>3. a = 1
      <4>1. a \notin Ends(r.buffer)
        <5> SUFFICES ASSUME a \in Ends(r.buffer) PROVE FALSE
          OBVIOUS
        <5>1. n <= a
          OBVIOUS
        <5> QED
          BY <1>1, <1>4, <3>1, <5>1
      <4>2. a \notin 2 .. m
        BY <1>3, <3>2, <4>1
      <4> QED
        BY <1>1, <3>1, <4>2
    <3>4. T[c + l + 1] = UnitOf(k, j, 2) /\ c + l + 1 <= Len(T)
      <4>1. c + l + 1 \in 1 .. Len(T)
        BY <2>2, <3>1, <3>3
      <4> QED
        BY <2>2, <3>1, <3>3, <4>1
    <3> QED
      BY <1>7, <3>4 DEF Known, T, UnitOf
  <2> QED
    BY <1>1, <2>1, <2>3, <2>4
<1>10. r.buffer[n] = UnitOf(k, i, 2)
  BY <1>2, <1>4, <1>6
<1> QED
  BY <1>4, <1>6, <1>9, <1>10 DEF l, m

(* a packet that begins with a head begins with this one's, unless a mark   *)
(* before was cut *)
LEMMA HeadAlone ==
  ASSUME NEW k \in Nat, NEW rs \in Seq(Requests), NEW e, Laid(k, rs, e), NEW C,
         NEW c \in Nat, NEW i \in 1 .. Len(rs), c < Mark(e, i),
         \A j \in 1 .. Len(rs) : (j < i /\ c < Mark(e, j)) => j \in C,
         c + 1 \in 1 .. Len(StreamOf(k, rs)), StreamOf(k, rs)[c + 1].part = 0
  PROVE  c = e[i - 1] \/ i - 1 \in C
<1> DEFINE N == Len(rs)
<1>0. N \in Nat /\ i \in 1 .. N
  OBVIOUS
<1>1. PICK f \in 1 .. N : c + 1 = e[f - 1] + 1
  <2> DEFINE T == StreamOf(k, rs)
             p == c + 1
  <2>1. \A q \in 1 .. Len(T) : T[q].part = 0 => \E f \in 1 .. N : q = e[f - 1] + 1
    BY MarkAt
  <2>2. p \in 1 .. Len(T) /\ T[p].part = 0
    OBVIOUS
  <2> HIDE DEF T, p
  <2>3. \E f \in 1 .. N : p = e[f - 1] + 1
    BY <2>1, <2>2
  <2> QED
    BY <2>3 DEF p
<1>2. e[f - 1] \in Nat /\ c = e[f - 1]
  <2>1. e[f - 1] \in Nat
    BY MarkOrder
  <2> QED
    BY <1>1, <2>1
<1>3. ~(i < f)
  <2> SUFFICES ASSUME i < f PROVE FALSE
    OBVIOUS
  <2>1. e[i] <= e[f - 1] /\ Mark(e, i) <= e[i] /\ e[i] \in Nat /\ Mark(e, i) \in Nat
    BY MarkOrder
  <2> QED
    BY <1>2, <2>1
<1> HIDE DEF N
<1>4. CASE f = i
  BY <1>2, <1>4
<1>5. CASE f < i
  <2> DEFINE j == i - 1
  <2>1. j \in 1 .. N /\ j < i /\ f <= j /\ i \in Nat
    BY <1>0, <1>5
  <2> HIDE DEF j
  <2>2. e[f - 1] < Mark(e, f) /\ Mark(e, f) \in Nat /\ Mark(e, j) \in Nat
    BY <2>1, MarkOrder DEF N
  <2>3. Mark(e, f) <= Mark(e, j)
    <3>1. f = j \/ f < j
      BY <1>0, <2>1
    <3>2. f < j => Mark(e, f) < Mark(e, j)
      BY <2>1, MarkOrder DEF N
    <3> QED
      BY <2>2, <3>1, <3>2
  <2>4. c < Mark(e, j)
    BY <1>2, <2>2, <2>3
  <2>5. j \in C
    BY <2>1, <2>4 DEF N
  <2> QED
    BY <2>5 DEF j
<1> QED
  BY <1>0, <1>3, <1>4, <1>5

(* taken units leave the ends of the buffer known *)
LEMMA KnownAfter ==
  ASSUME NEW k \in Nat, NEW rs \in Seq(Requests), NEW e, Laid(k, rs, e), NEW C, NEW c,
         NEW r \in Reader, NEW rest \in Seq(Unit), Cursor(k, rs, c, r, rest),
         CutKnown(k, rs, C, c, r), NEW n \in 0 .. Len(r.buffer), NEW q, Took(q, r, n),
         Known(k, rs, C, c + Len(r.packet) + n)
  PROVE  CutKnown(k, rs, C, c, q)
<1> DEFINE l == Len(r.packet)
           m == Len(r.buffer)
<1>1. l \in Nat /\ m \in Nat /\ c \in Nat
  BY ReaderLengths DEF Cursor
<1>2. Len(q.packet) = l + n /\ Len(q.buffer) = m - n
  BY CursorMoved
<1>3. Known(k, rs, C, c + l + m)
  BY DEF CutKnown
<1> HIDE DEF l, m
<1>4. c + (l + n) = c + l + n /\ c + (l + n) + (m - n) = c + l + m
  BY <1>1
<1> QED
  BY <1>2, <1>3, <1>4 DEF CutKnown, l

(* behind a mark, or in a body, no mark is cut *)
LEMMA KnownBehind ==
  ASSUME NEW k \in Nat, NEW rs \in Seq(Requests), NEW e, Laid(k, rs, e), NEW C,
         NEW q \in 1 .. Len(StreamOf(k, rs)), StreamOf(k, rs)[q].part # 1
  PROVE  Known(k, rs, C, q)
<1> DEFINE T == StreamOf(k, rs)
           t == Len(T)
<1>0. t \in Nat
  <2>1. T \in Seq(Unit)
    BY StreamLaid
  <2> HIDE DEF T
  <2> QED
    BY <2>1
<1>1. \A p \in 1 .. t : (p > 1 /\ T[p].part = 2) => T[p - 1].part = 1
  BY MarkAt
<1> HIDE DEF T, t
<1>2. q \in 1 .. t /\ T[q].part # 1
  BY DEF T, t
<1>3. ~(q + 1 <= t /\ T[q + 1].part = 2)
  <2> SUFFICES ASSUME q + 1 <= t, T[q + 1].part = 2 PROVE FALSE
    OBVIOUS
  <2>1. q + 1 \in 1 .. t /\ q + 1 > 1 /\ (q + 1) - 1 = q
    BY <1>0, <1>2
  <2>2. T[(q + 1) - 1].part = 1
    BY <1>1, <2>1
  <2> QED
    BY <1>2, <2>1, <2>2
<1> QED
  BY <1>3 DEF Known, T, t

(* the rest of a head *)
LEMMA HeadTaken ==
  ASSUME NEW k \in Nat, NEW rs \in Seq(Requests), NEW e, Laid(k, rs, e), NEW C, NEW c,
         NEW r \in Reader, NEW rest \in Seq(Unit), Cursor(k, rs, c, r, rest),
         CutKnown(k, rs, C, c, r), NEW b \in Nat, Waiting(rs, e, C, c, r, b),
         r.storage >= Capacity, sent[k] = rs,
         NEW n \in Ends(r.buffer), \A m \in Ends(r.buffer) : n <= m
  PROVE  /\ TakeHead(r, n) \in Reader /\ TakeHead(r, n).storage >= Capacity
         /\ Cursor(k, rs, c, TakeHead(r, n), rest)
         /\ CutKnown(k, rs, C, c, TakeHead(r, n))
         /\ Parses(TakeHead(r, n)) => \E i : UnderWay(k, rs, e, C, c, TakeHead(r, n), b, i)
<1> DEFINE u == r.buffer[n]
           f == AppendFront(r, n)
           h == TakeHead(r, n)
           l == Len(r.packet)
           T == StreamOf(k, rs)
<1>1. n \in 1 .. Len(r.buffer)
  BY HeadFound
<1>2. PICK i \in 1 .. Len(rs) :
        /\ Mark(e, i) = c + l + n /\ u = UnitOf(k, i, 2)
        /\ \A j \in 1 .. Len(rs) : (j < i /\ c < Mark(e, j)) => j \in C
  BY HeadFound
<1>3. RequestOf(u) = rs[i] /\ i \in Nat
  BY <1>2 DEF RequestOf, UnitOf
<1>4. rs[i].body \in Nat /\ (rs[i].kind # "POST" => rs[i].body = 0)
  BY UnitsTyped
<1>5. n \in 0 .. Len(r.buffer) /\ n \in Nat
  BY <1>1
<1>6. /\ f \in Reader /\ f.storage >= Capacity /\ Took(f, r, n)
      /\ f.residue = r.residue /\ f.content = r.content
      /\ f.dangling = r.dangling \/ r.content # 0
  BY <1>5, FrontAppended
<1>7. r.residue = 0 /\ r.content = 0 /\ ~r.dangling
  BY DEF Waiting
<1>8. l \in Nat /\ c \in Nat /\ MaxInt \in Nat
  BY ReaderLengths, HttpBoundsAssumption DEF Cursor
<1>9. AsInt(rs[i].body) \in - MaxInt - 1 .. MaxInt /\ (rs[i].body = 0 => AsInt(rs[i].body) = 0)
  <2> DEFINE x == rs[i].body
  <2>1. x \in Nat
    BY <1>4
  <2> HIDE DEF x
  <2>2. AsInt(x) \in - MaxInt - 1 .. MaxInt /\ (x <= MaxInt => AsInt(x) = x)
    BY <2>1, IntOf
  <2>3. x = 0 => x <= MaxInt
    BY <1>8
  <2> QED
    BY <2>2, <2>3 DEF x
<1>10. h = [f EXCEPT !.content = l + n, !.parser = u,
                     !.residue = IF rs[i].kind = "POST" THEN AsInt(rs[i].body) ELSE f.residue]
  BY <1>3 DEF TakeHead
<1> HIDE DEF f, h
<1>11. u \in Unit
  <2>1. 2 \in Nat
    OBVIOUS
  <2> QED
    BY <1>2, <1>3, <2>1 DEF Unit, UnitOf
<1> HIDE DEF u
<1>12. (IF rs[i].kind = "POST" THEN AsInt(rs[i].body) ELSE f.residue) = AsInt(rs[i].body)
  BY <1>4, <1>6, <1>7, <1>9
<1>13. l + n \in Nat /\ l + n # 0
  BY <1>1, <1>5, <1>8
<1> HIDE DEF l
<1>14. h \in Reader
  BY <1>6, <1>9, <1>10, <1>11, <1>12, <1>13 DEF Reader
<1>15. /\ h.storage = f.storage /\ h.packet = f.packet /\ h.buffer = f.buffer
       /\ h.content = l + n /\ h.parser = u /\ h.residue = AsInt(rs[i].body)
       /\ h.dangling = f.dangling
  BY <1>6, <1>10, <1>12 DEF Reader
<1>16. Took(h, r, n)
  BY <1>6, <1>15 DEF Took
<1>17. Cursor(k, rs, c, h, rest) /\ Len(h.packet) = l + n
  BY <1>5, <1>16, CursorMoved DEF l
<1>18. CutKnown(k, rs, C, c, h)
  <2>1. c + l + n \in 1 .. Len(T) /\ T[c + l + n] = UnitOf(k, i, 2)
    BY <1>2, MarkAt
  <2>2. T[c + l + n].part # 1
    BY <2>1 DEF UnitOf
  <2>3. Known(k, rs, C, c + l + n)
    BY <2>1, <2>2, KnownBehind
  <2> QED
    BY <1>5, <1>16, <2>3, KnownAfter DEF l
<1>19. c < Mark(e, i) /\ c + (l + n) = Mark(e, i)
  BY <1>1, <1>2, <1>5, <1>8, <1>13
<1>20. b < i /\ \A j \in 1 .. Len(rs) : (b < j /\ j < i) => Lost(rs, C, j)
  <2>1. /\ \A j \in 1 .. Len(rs) : (b < j /\ Mark(e, j) <= c) => Lost(rs, C, j)
        /\ \A j \in 1 .. Len(rs) : c < Mark(e, j) => b < j
    BY DEF Waiting
  <2>2. ASSUME NEW j \in 1 .. Len(rs), b < j, j < i PROVE Lost(rs, C, j)
    <3>1. Mark(e, j) \in Nat
      BY MarkOrder
    <3>2. CASE Mark(e, j) <= c
      BY <2>1, <2>2, <3>2
    <3>3. CASE c < Mark(e, j)
      <4>1. j \in C
        BY <1>2, <2>2, <3>3
      <4> QED
        BY <4>1 DEF Lost, RegularIn
    <3> QED
      BY <1>8, <3>1, <3>2, <3>3
  <2> QED
    BY <1>19, <2>1, <2>2
<1>21. ASSUME Parses(h) PROVE UnderWay(k, rs, e, C, c, h, b, i)
  <2>1. h.packet[1].part = 0 /\ 1 \in 1 .. Len(h.packet)
    <3>1. 1 \in 1 .. l + n
      BY <1>13
    <3> QED
      BY <1>17, <1>21, <3>1 DEF Parses
  <2>2. h.packet[1] = T[c + 1]
    BY <1>17, <2>1 DEF Cursor
  <2>3. c + 1 \in 1 .. Len(T)
    <3>1. Mark(e, i) \in 1 .. Len(T) /\ Mark(e, i) \in Nat
      BY MarkAt, MarkOrder
    <3> DEFINE t == Len(T)
    <3>2. t \in Nat
      <4>1. T \in Seq(Unit)
        BY StreamLaid
      <4> HIDE DEF T
      <4> QED
        BY <4>1
    <3> HIDE DEF t
    <3>3. c + 1 \in 1 .. t
      BY <1>8, <1>19, <3>1, <3>2 DEF t
    <3> QED
      BY <3>3 DEF t
  <2>4. c = e[i - 1] \/ i - 1 \in C
    BY <1>2, <1>8, <1>19, <2>1, <2>2, <2>3, HeadAlone
  <2>5. AsInt(rs[i].body) \in Int
    BY <1>4, IntOf
  <2>6. Len(h.packet) - h.content + h.residue = AsInt(rs[i].body)
    <3> DEFINE x == AsInt(rs[i].body)
               y == l + n
    <3>1. x \in Int /\ y \in Int /\ Len(h.packet) = y /\ h.content = y /\ h.residue = x
      BY <1>13, <1>15, <1>17, <2>5
    <3> HIDE DEF x, y
    <3>2. y - y + x = x
      BY <3>1
    <3> QED
      BY <3>1, <3>2 DEF x
  <2>7. Mark(e, i) <= e[i]
    BY MarkOrder
  <2>8. h.content # 0 /\ c + h.content = Mark(e, i) /\ h.content <= Len(h.packet)
        /\ c + Len(h.packet) <= e[i]
    <3>1. l + n <= l + n
      BY <1>13
    <3> QED
      BY <1>13, <1>15, <1>17, <1>19, <2>7, <3>1
  <2>9. h.dangling = FALSE
    BY <1>6, <1>7, <1>15 DEF Reader
  <2> QED
    BY <1>2, <1>15, <1>20, <2>4, <2>6, <2>8, <2>9 DEF UnderWay
<1> QED
  BY <1>6, <1>14, <1>15, <1>17, <1>18, <1>21 DEF h

(* the body, or as much of it as is there *)
LEMMA BodyTaken ==
  ASSUME NEW k \in Nat, NEW rs \in Seq(Requests), NEW e, Laid(k, rs, e), NEW C, NEW c,
         NEW r \in Reader, NEW rest \in Seq(Unit), Cursor(k, rs, c, r, rest),
         CutKnown(k, rs, C, c, r), NEW b, NEW i, UnderWay(k, rs, e, C, c, r, b, i),
         r.storage >= Capacity
  PROVE  /\ TakeBody(r) \in Reader /\ TakeBody(r).storage >= Capacity
         /\ Cursor(k, rs, c, TakeBody(r), rest) /\ CutKnown(k, rs, C, c, TakeBody(r))
         /\ UnderWay(k, rs, e, C, c, TakeBody(r), b, i)
<1> DEFINE s == r.residue
           m == Len(r.buffer)
           l == Len(r.packet)
           g == r.content
           n == IF s > 0 THEN Least(s, m) ELSE 0
           f == AppendFront(r, n)
           h == TakeBody(r)
           a == AsInt(rs[i].body)
           y == rs[i].body
           M == Mark(e, i)
           T == StreamOf(k, rs)
<1>1. i \in 1 .. Len(rs)
  BY DEF UnderWay
<1>2. l \in Nat /\ m \in Nat /\ s \in Int /\ g \in Nat /\ c \in Nat /\ MaxInt \in Nat
      /\ s \in - MaxInt - 1 .. MaxInt
  BY ReaderLengths, HttpBoundsAssumption DEF Cursor, Reader
<1>3. y \in Nat /\ e[i] \in Nat /\ M \in Nat /\ e[i - 1] \in Nat /\ M + y = e[i]
  BY <1>1, MarkOrder
<1>4. a \in Int /\ a <= y
  BY <1>3, IntOf
<1>5. c + g = M /\ g <= l /\ l - g + s = a /\ c + l <= e[i] /\ g # 0
  BY DEF UnderWay
<1>6. n \in 0 .. m /\ n \in Nat /\ (n = 0 \/ (s > 0 /\ n <= s))
  <2> HIDE DEF s, m
  <2> QED
    BY <1>2 DEF Least
<1>7. /\ f \in Reader /\ f.storage >= Capacity /\ Took(f, r, n)
      /\ f.parser = r.parser /\ f.residue = s /\ f.content = g
      /\ f.dangling = r.dangling \/ l + n > Capacity
  BY <1>6, FrontAppended
<1>8. h = [f EXCEPT !.residue = s - n]
  BY <1>7 DEF TakeBody
<1> HIDE DEF f, h, n, s, m, l, g, a, y, M
<1>9. s - n \in - MaxInt - 1 .. MaxInt
  BY <1>2, <1>6
<1>10. h \in Reader
  BY <1>7, <1>8, <1>9 DEF Reader
<1>11. /\ h.storage = f.storage /\ h.packet = f.packet /\ h.buffer = f.buffer
       /\ h.content = g /\ h.parser = r.parser /\ h.residue = s - n /\ h.dangling = f.dangling
  BY <1>7, <1>8 DEF Reader
<1>12. Took(h, r, n) /\ n \in 0 .. Len(r.buffer)
  BY <1>6, <1>7, <1>11 DEF Took, m
<1>13. Cursor(k, rs, c, h, rest) /\ Len(h.packet) = l + n
  BY <1>12, CursorMoved DEF l
<1>14. c + (l + n) <= e[i] /\ (l + n) - g + (s - n) = a /\ g <= l + n
  BY <1>2, <1>3, <1>4, <1>5, <1>6
<1>15. CutKnown(k, rs, C, c, h)
  <2>1. CASE n = 0
    <3>1. Known(k, rs, C, c + l)
      BY DEF CutKnown, l
    <3>2. c + l + n = c + l
      BY <1>2, <2>1
    <3> QED
      BY <1>12, <3>1, <3>2, KnownAfter DEF l
  <2>2. CASE n # 0
    <3> DEFINE q == c + l + n
    <3>1. q \in Nat /\ M < q /\ q <= e[i]
      BY <1>2, <1>5, <1>6, <1>14, <2>2
    <3> HIDE DEF q
    <3>2. q \in 1 .. Len(T)
      <4>1. e[i] <= e[Len(rs)] /\ Len(T) = e[Len(rs)] /\ e[Len(rs)] \in Nat
        <5>1. Len(rs) \in Nat
          OBVIOUS
        <5>2. i \in 0 .. Len(rs) /\ Len(rs) \in 0 .. Len(rs) /\ i <= Len(rs)
          BY <1>1, <5>1
        <5>3. e[i] <= e[Len(rs)] /\ e[Len(rs)] \in Nat
          BY <5>2, EndsGrow
        <5> QED
          BY <5>3 DEF Laid
      <4> DEFINE t == Len(T)
                 v == e[Len(rs)]
      <4>2. e[i] <= v /\ t = v /\ v \in Nat
        BY <4>1
      <4> HIDE DEF t, v
      <4>3. q \in 1 .. t
        BY <1>3, <3>1, <4>2
      <4> QED
        BY <4>3 DEF t
    <3>3. T[q].part # 1
      <4> DEFINE x == q - e[i - 1]
      <4>1. M = e[i - 1] + 3 /\ Size(rs, i) = 3 + y
        BY DEF M, Mark, Size, y
      <4>2. x \in 1 .. Size(rs, i) /\ x - 1 # 1 /\ q = e[i - 1] + x
        <5> DEFINE v == e[i - 1]
                   w == e[i]
                   z == Size(rs, i)
        <5>1. v \in Nat /\ w \in Nat /\ M = v + 3 /\ z = 3 + y /\ M + y = w /\ q <= w /\ x = q - v
          BY <1>3, <3>1, <4>1
        <5> HIDE DEF v, w, z, x
        <5>2. x \in 1 .. z /\ x - 1 # 1 /\ q = v + x
          BY <1>3, <3>1, <5>1
        <5> QED
          BY <5>2 DEF v, z
      <4> HIDE DEF x
      <4>3. T[e[i - 1] + x] = UnitOf(k, i, x - 1)
        BY <1>1, <4>2 DEF Laid
      <4> QED
        BY <4>2, <4>3 DEF UnitOf
    <3>4. Known(k, rs, C, q)
      BY <3>2, <3>3, KnownBehind
    <3> QED
      BY <1>12, <3>4, KnownAfter DEF q, l
  <2> QED
    BY <2>1, <2>2
<1>16. h.dangling => Len(h.packet) > Capacity
  <2>1. Capacity \in Nat
    BY HttpBoundsAssumption
  <2>2. r.dangling => l > Capacity
    BY DEF UnderWay, l
  <2>3. l > Capacity => l + n > Capacity
    BY <1>2, <1>6, <2>1
  <2> QED
    BY <1>7, <1>11, <1>13, <2>2, <2>3
<1>17. UnderWay(k, rs, e, C, c, h, b, i)
  <2>1. /\ r.parser = UnitOf(k, i, 2) /\ (c = e[i - 1] \/ i - 1 \in C)
        /\ b < i /\ \A j \in 1 .. Len(rs) : (b < j /\ j < i) => Lost(rs, C, j)
    BY DEF UnderWay
  <2>2. h.content # 0 /\ c + h.content = Mark(e, i) /\ h.content <= Len(h.packet)
    BY <1>5, <1>11, <1>13, <1>14 DEF M
  <2>3. Len(h.packet) - h.content + h.residue = AsInt(rs[i].body) /\ c + Len(h.packet) <= e[i]
    BY <1>11, <1>13, <1>14 DEF a
  <2> QED
    BY <1>1, <1>11, <1>16, <2>1, <2>2, <2>3 DEF UnderWay
<1> QED
  BY <1>7, <1>10, <1>11, <1>13, <1>15, <1>17 DEF h

(* a head that goes on in the next read *)
LEMMA HeadPartTaken ==
  ASSUME NEW k \in Nat, NEW rs \in Seq(Requests), NEW e, Laid(k, rs, e), NEW C, NEW c,
         NEW r \in Reader, NEW rest \in Seq(Unit), Cursor(k, rs, c, r, rest),
         CutKnown(k, rs, C, c, r), NEW b \in Nat, Waiting(rs, e, C, c, r, b),
         r.storage >= Capacity, Ends(r.buffer) = {}
  PROVE  /\ AppendFront(r, Len(r.buffer)) \in Reader
         /\ AppendFront(r, Len(r.buffer)).storage >= Capacity
         /\ Cursor(k, rs, c, AppendFront(r, Len(r.buffer)), rest)
         /\ CutKnown(k, rs, C, c, AppendFront(r, Len(r.buffer)))
         /\ Waiting(rs, e, C, c, AppendFront(r, Len(r.buffer)), b)
<1> DEFINE m == Len(r.buffer)
           l == Len(r.packet)
           f == AppendFront(r, m)
           T == StreamOf(k, rs)
<1>1. c \in Nat /\ l \in Nat /\ m \in Nat /\ m \in 0 .. Len(r.buffer)
  BY ReaderLengths DEF Cursor
<1>2. \A j \in 1 .. m : /\ j \in Nat /\ c + l + j \in 1 .. Len(T)
                        /\ r.buffer[j] = T[c + l + j]
  BY BufferAt
<1>3. \A j \in 2 .. m : r.buffer[j].part # 2
  BY DEF Ends
<1>4. /\ f \in Reader /\ f.storage >= Capacity /\ Took(f, r, m)
      /\ f.residue = r.residue /\ f.content = r.content
      /\ f.dangling = r.dangling \/ r.content # 0
  BY <1>1, FrontAppended
<1>5. /\ r.content = 0 /\ ~r.dangling /\ r.residue = 0
      /\ \A j \in 1 .. Len(rs) : (c < Mark(e, j) /\ Mark(e, j) <= c + l) => j \in C
      /\ \A j \in 1 .. Len(rs) : (b < j /\ Mark(e, j) <= c) => Lost(rs, C, j)
      /\ \A j \in 1 .. Len(rs) : c < Mark(e, j) => b < j
  BY DEF Waiting
<1>6. Known(k, rs, C, c + l) /\ Known(k, rs, C, c + l + m)
  BY DEF CutKnown
<1> HIDE DEF f, m
<1>7. Cursor(k, rs, c, f, rest) /\ Len(f.packet) = l + m
  BY <1>1, <1>4, CursorMoved
<1>8. CutKnown(k, rs, C, c, f)
  BY <1>1, <1>4, <1>6, KnownAfter
<1> HIDE DEF l, T
<1>9. ASSUME NEW j \in 1 .. Len(rs), c < Mark(e, j), Mark(e, j) <= c + (l + m) PROVE j \in C
  <2>1. Mark(e, j) \in Nat
    BY MarkOrder
  <2>2. T[Mark(e, j)] = UnitOf(k, j, 2) /\ Mark(e, j) \in 1 .. Len(T)
    BY MarkAt DEF T
  <2>3. CASE Mark(e, j) <= c + l
    BY <1>5, <1>9, <2>3
  <2>4. CASE c + l < Mark(e, j)
    <3> DEFINE a == Mark(e, j) - (c + l)
    <3>1. a \in 1 .. m /\ Mark(e, j) = c + l + a
      BY <1>1, <1>9, <2>1, <2>4
    <3> HIDE DEF a
    <3>2. r.buffer[a].part = 2
      BY <1>2, <2>2, <3>1 DEF UnitOf
    <3>3. a = 1
      <4>1. a \notin 2 .. m
        BY <1>3, <3>2
      <4> QED
        BY <1>1, <3>1, <4>1
    <3>4. T[c + l + 1] = UnitOf(k, j, 2) /\ c + l + 1 <= Len(T)
      <4>1. c + l + 1 \in 1 .. Len(T)
        BY <2>2, <3>1, <3>3
      <4> QED
        BY <2>2, <3>1, <3>3, <4>1
    <3> QED
      BY <1>6, <3>4 DEF Known, T, UnitOf
  <2> QED
    BY <1>1, <2>1, <2>3, <2>4
<1>10. f.dangling = FALSE /\ f.content = 0 /\ f.residue = 0
  BY <1>4, <1>5 DEF Reader
<1>11. Waiting(rs, e, C, c, f, b)
  BY <1>5, <1>7, <1>9, <1>10 DEF Waiting
<1> QED
  BY <1>4, <1>7, <1>8, <1>11 DEF f, m

(* what a packet holds behind the head of a request that is complete *)
BodyOf(r, request) ==
  SubSeq(r.packet, r.content + 1, r.content + AsInt(request.body))

LEMMA BodyIs ==
  ASSUME NEW k \in Nat, NEW rs \in Seq(Requests), NEW e, Laid(k, rs, e), NEW C, NEW c,
         NEW r \in Reader, NEW rest \in Seq(Unit), Cursor(k, rs, c, r, rest),
         NEW b, NEW i, UnderWay(k, rs, e, C, c, r, b, i), r.residue = 0
  PROVE  /\ BodyOf(r, rs[i]) \in Seq(Unit)
         /\ BodyOf(r, rs[i]) = SubSeq(Units(k, i, rs[i]), 4, 3 + AsInt(rs[i].body))
<1> DEFINE a == AsInt(rs[i].body)
           y == rs[i].body
           g == r.content
           p == r.packet
           l == Len(p)
           q == Units(k, i, rs[i])
           M == Mark(e, i)
           T == StreamOf(k, rs)
<1>1. i \in 1 .. Len(rs)
  BY DEF UnderWay
<1>2. p \in Seq(Unit) /\ l \in Nat /\ g \in Nat /\ c \in Nat
  BY ReaderLengths DEF Cursor
<1>3. y \in Nat /\ M = e[i - 1] + 3 /\ e[i - 1] \in Nat
  BY <1>1, MarkOrder DEF Mark
<1>4. a \in Int /\ a <= y
  BY <1>3, IntOf
<1>5. c + g = M /\ g <= l /\ l - g + 0 = a
  BY DEF UnderWay
<1>6. \A j \in 1 .. l : p[j] = T[c + j]
  BY DEF Cursor
<1>7. \A x \in 1 .. Size(rs, i) : T[e[i - 1] + x] = UnitOf(k, i, x - 1)
  BY <1>1 DEF Laid
<1>8. /\ q \in Seq(Unit) /\ Len(q) = 3 + y
      /\ \A x \in 1 .. Size(rs, i) : q[x] = UnitOf(k, i, x - 1)
  BY <1>1, UnitsTyped DEF Size
<1>9. Size(rs, i) = 3 + y
  BY DEF Size
<1> HIDE DEF a, y, g, p, l, q, M, T
<1>10. a \in Nat /\ l = g + a
  BY <1>2, <1>4, <1>5
<1>11. \A j \in 1 .. a : p[g + j] = q[3 + j]
  <2> SUFFICES ASSUME NEW j \in 1 .. a PROVE p[g + j] = q[3 + j]
    OBVIOUS
  <2>1. g + j \in 1 .. l /\ 3 + j \in 1 .. 3 + y /\ c + (g + j) = e[i - 1] + (3 + j)
    <3> DEFINE u == e[i - 1]
    <3>1. u \in Nat /\ M = u + 3
      BY <1>3
    <3> HIDE DEF u
    <3>2. g + j \in 1 .. l /\ 3 + j \in 1 .. 3 + y
      BY <1>2, <1>3, <1>4, <1>10
    <3>3. c + (g + j) = u + (3 + j)
      BY <1>2, <1>5, <1>10, <3>1
    <3> QED
      BY <3>2, <3>3 DEF u
  <2>2. p[g + j] = T[c + (g + j)] /\ q[3 + j] = UnitOf(k, i, (3 + j) - 1)
    BY <1>6, <1>8, <1>9, <2>1
  <2>3. T[e[i - 1] + (3 + j)] = UnitOf(k, i, (3 + j) - 1)
    BY <1>7, <1>9, <2>1
  <2> QED
    BY <2>1, <2>2, <2>3
<1> DEFINE v == SubSeq(p, g + 1, g + a)
           w == SubSeq(q, 3 + 1, 3 + a)
<1>12. v \in Seq(Unit) /\ Len(v) = a /\ \A j \in 1 .. a : v[j] = p[g + j]
  <2>1. Len(p) = g + a /\ g \in 0 .. Len(p) /\ (g + a) - g = a
    BY <1>2, <1>10 DEF l
  <2>2. /\ SubSeq(p, g + 1, Len(p)) \in Seq(Unit) /\ Len(SubSeq(p, g + 1, Len(p))) = Len(p) - g
        /\ \A j \in 1 .. Len(p) - g : SubSeq(p, g + 1, Len(p))[j] = p[g + j]
    BY <1>2, <2>1, PieceLeft
  <2> QED
    BY <2>1, <2>2
<1>13. w \in Seq(Unit) /\ Len(w) = a /\ \A j \in 1 .. a : w[j] = q[3 + j]
  <2>1. 3 + a <= Len(q)
    BY <1>3, <1>4, <1>8, <1>10
  <2> QED
    BY <1>8, <1>10, <2>1
<1>14. w = SubSeq(q, 4, 3 + a)
  OBVIOUS
<1> HIDE DEF v, w
<1>15. v = w
  <2>1. \A j \in 1 .. Len(v) : v[j] = w[j]
    BY <1>11, <1>12, <1>13
  <2> QED
    BY <1>12, <1>13, <2>1, SeqEqual
<1> QED
  BY <1>12, <1>14, <1>15 DEF a, g, p, q, v, BodyOf

(* nothing regular dangles *)
LEMMA RegularIntact ==
  ASSUME NEW k \in Nat, NEW rs \in Seq(Requests), NEW e, Laid(k, rs, e), NEW C, NEW c,
         NEW r \in Reader, NEW rest, Cursor(k, rs, c, r, rest),
         NEW b, NEW i, UnderWay(k, rs, e, C, c, r, b, i), RegularIn(rs, C, i)
  PROVE  ~r.dangling /\ AsInt(rs[i].body) = rs[i].body
<1> DEFINE y == rs[i].body
           l == Len(r.packet)
           u == e[i - 1]
           v == e[i]
<1>1. /\ i \in 1 .. Len(rs) /\ c + l <= v /\ (c = u \/ i - 1 \in C)
      /\ r.dangling => l > Capacity
  BY DEF UnderWay
<1>2. i - 1 \notin C /\ 3 + y <= Capacity /\ y <= MaxInt
  BY DEF RegularIn
<1>3. y \in Nat /\ u \in Nat /\ v \in Nat /\ u + 3 + y = v
  <2>1. rs[i].body \in Nat /\ Mark(e, i) + rs[i].body = e[i]
    BY <1>1, MarkOrder
  <2>2. e[i - 1] \in Nat /\ e[i] \in Nat
    BY <1>1, MarkOrder
  <2> QED
    BY <2>1, <2>2 DEF Mark
<1>4. l \in Nat /\ Capacity \in Nat
  BY ReaderLengths, HttpBoundsAssumption
<1>5. AsInt(y) = y
  <2> HIDE DEF y
  <2> QED
    BY <1>2, <1>3, IntOf
<1>6. c = u
  BY <1>1, <1>2
<1> HIDE DEF y, l, u, v
<1>7. l <= 3 + y
  BY <1>1, <1>3, <1>4, <1>6
<1>8. ~(l > Capacity)
  BY <1>2, <1>3, <1>4, <1>7
<1> QED
  BY <1>1, <1>5, <1>8 DEF y

(* a request is complete, and was given to a handler or lost *)
LEMMA RequestDone ==
  ASSUME NEW k \in Nat, NEW rs \in Seq(Requests), NEW e, Laid(k, rs, e), NEW C, NEW c,
         NEW r \in Reader, NEW rest \in Seq(Unit), Cursor(k, rs, c, r, rest),
         CutKnown(k, rs, C, c, r), NEW b \in Nat, NEW i, UnderWay(k, rs, e, C, c, r, b, i),
         NEW b2 \in Nat, b2 = i \/ (b2 = b /\ Lost(rs, C, i))
  PROVE  /\ Zero(r) \in Reader /\ Zero(r).storage = r.storage
         /\ \E x : /\ Cursor(k, rs, x, Zero(r), rest) /\ CutKnown(k, rs, C, x, Zero(r))
                   /\ Waiting(rs, e, C, x, Zero(r), b2)
<1> DEFINE l == Len(r.packet)
           m == Len(r.buffer)
           x == c + l
           v == Zero(r)
           M == Mark(e, i)
           T == StreamOf(k, rs)
<1>1. c \in Nat /\ l \in Nat /\ m \in Nat /\ r.content \in Nat /\ At(T, c + l, r.buffer, rest)
  BY ReaderLengths DEF Cursor
<1>2. /\ i \in 1 .. Len(rs) /\ c + r.content = M /\ r.content <= l
      /\ c + l <= e[i] /\ b < i
      /\ \A j \in 1 .. Len(rs) : (b < j /\ j < i) => Lost(rs, C, j)
  BY DEF UnderWay
<1>3. i \in Nat /\ M \in Nat /\ e[i] \in Nat /\ M <= e[i]
  BY <1>2, MarkOrder
<1>4. M <= c + l
  BY <1>1, <1>2, <1>3
<1>5. v = [r EXCEPT !.packet = <<>>, !.content = 0, !.dangling = FALSE,
                    !.parser = NoUnit, !.residue = 0]
  BY DEF Zero
<1>6. <<>> \in Seq(Unit) /\ NoUnit \in Unit /\ Len(<<>>) = 0 /\ 0 \in Nat
  BY DEF NoUnit, Unit
<1>7. 0 \in - MaxInt - 1 .. MaxInt
  BY HttpBoundsAssumption
<1> HIDE DEF v
<1>8. v \in Reader
  BY <1>5, <1>6, <1>7 DEF Reader
<1>9. /\ v.storage = r.storage /\ v.buffer = r.buffer /\ v.packet = <<>>
      /\ v.content = 0 /\ v.residue = 0 /\ v.dangling = FALSE
  BY <1>5 DEF Reader
<1>10. Len(v.packet) = 0 /\ Len(v.buffer) = m
  BY <1>6, <1>9
<1>11. Known(k, rs, C, c + l) /\ Known(k, rs, C, c + l + m)
  BY DEF CutKnown
<1> HIDE DEF l, m, T, M
<1>12. x \in Nat /\ x + Len(v.packet) = c + l /\ x + Len(v.packet) + Len(v.buffer) = c + l + m
  BY <1>1, <1>10
<1>13. CutKnown(k, rs, C, x, v)
  BY <1>11, <1>12 DEF CutKnown
<1>14. Cursor(k, rs, x, v, rest)
  <2>1. At(T, x + Len(v.packet), v.buffer, rest)
    BY <1>1, <1>9, <1>12
  <2>2. \A j \in 1 .. Len(v.packet) : v.packet[j] = T[x + j]
    BY <1>10
  <2> QED
    BY <1>12, <2>1, <2>2 DEF Cursor, T
<1>15. ASSUME NEW j \in 1 .. Len(rs), x < Mark(e, j) PROVE i < j
  <2>1. Mark(e, j) \in Nat
    BY MarkOrder
  <2>2. M < Mark(e, j)
    BY <1>1, <1>3, <1>4, <1>15, <2>1
  <2> QED
    BY <1>2, <2>2, MarkOrder DEF M
<1>16. ASSUME NEW j \in 1 .. Len(rs), Mark(e, j) <= x PROVE j <= i
  <2>1. Mark(e, j) \in Nat
    BY MarkOrder
  <2>2. Mark(e, j) <= e[i]
    BY <1>1, <1>2, <1>3, <1>16, <2>1
  <2> QED
    BY <1>2, <2>2, MarkOrder
<1>17. \A j \in 1 .. Len(rs) : x < Mark(e, j) => b2 < j
  <2> SUFFICES ASSUME NEW j \in 1 .. Len(rs), x < Mark(e, j) PROVE b2 < j
    OBVIOUS
  <2>1. i < j /\ j \in Nat
    BY <1>15
  <2> QED
    BY <1>2, <1>3, <2>1
<1>18. \A j \in 1 .. Len(rs) : (b2 < j /\ Mark(e, j) <= x) => Lost(rs, C, j)
  <2> SUFFICES ASSUME NEW j \in 1 .. Len(rs), b2 < j, Mark(e, j) <= x PROVE Lost(rs, C, j)
    OBVIOUS
  <2>1. j <= i /\ j \in Nat
    BY <1>16
  <2>2. CASE b2 = i
    BY <1>3, <2>1, <2>2
  <2>3. CASE b2 = b /\ Lost(rs, C, i)
    <3>1. j = i \/ j < i
      BY <1>3, <2>1
    <3> QED
      BY <1>2, <2>3, <3>1
  <2> QED
    BY <2>2, <2>3
<1>19. \A j \in 1 .. Len(rs) : (x < Mark(e, j) /\ Mark(e, j) <= x + Len(v.packet)) => j \in C
  <2> SUFFICES ASSUME NEW j \in 1 .. Len(rs), x < Mark(e, j), Mark(e, j) <= x + Len(v.packet)
               PROVE  FALSE
    OBVIOUS
  <2>1. Mark(e, j) \in Nat /\ x + Len(v.packet) = x
    BY <1>10, <1>12, MarkOrder
  <2> HIDE DEF x
  <2> QED
    BY <1>12, <2>1
<1>20. Waiting(rs, e, C, x, v, b2)
  <2> HIDE DEF x
  <2> QED
    BY <1>9, <1>17, <1>18, <1>19 DEF Waiting
<1> QED
  BY <1>8, <1>9, <1>13, <1>14, <1>20 DEF v

-----------------------------------------------------------------------------
(* What handlers were given *)

(* the last request given, and the one given before the n-th *)
LastReq(d) == IF Len(d) = 0 THEN 0 ELSE d[Len(d)].asked.req

Before(d, n) == IF n = 1 THEN 0 ELSE d[n - 1].asked.req

(* x is request i of rs, as far as RequestsInOrder says so *)
Given(k, rs, C, i, x) ==
  /\ x.asked = UnitOf(k, i, 2)
  /\ RegularIn(rs, C, i) => x.intact /\ AsInt(rs[i].body) = rs[i].body
  /\ x.intact =>
       /\ rs[i].served
       /\ x.body = SubSeq(Units(k, i, rs[i]), 4, 3 + AsInt(rs[i].body))

(* and none was left out since the request before *)
Handed(k, rs, C, before, x) ==
  /\ Given(k, rs, C, x.asked.req, x)
  /\ before < x.asked.req
  /\ \A j \in before + 1 .. x.asked.req - 1 : Lost(rs, C, j)

(* all that was given, in the order it was given *)
HandedOver(k, rs, C, d) == \A n \in 1 .. Len(d) : Handed(k, rs, C, Before(d, n), d[n])

LEMMA LastIsNumber ==
  ASSUME NEW d \in Seq(Delivery)
  PROVE  LastReq(d) \in Nat /\ Len(d) \in Nat
<1>1. Len(d) \in Nat
  OBVIOUS
<1>2. CASE Len(d) # 0
  <2>1. Len(d) \in 1 .. Len(d)
    BY <1>1, <1>2
  <2>2. d[Len(d)] \in Delivery
    BY <2>1
  <2>3. d[Len(d)].asked.req \in Nat
    BY <2>2 DEF Delivery, Unit
  <2> QED
    BY <1>1, <1>2, <2>3 DEF LastReq
<1> QED
  BY <1>1, <1>2 DEF LastReq

(* one more is handed over *)
LEMMA HandedNext ==
  ASSUME NEW k, NEW rs, NEW C, NEW d \in Seq(Delivery), HandedOver(k, rs, C, d),
         NEW x \in Delivery, NEW i \in Nat, Given(k, rs, C, i, x), LastReq(d) < i,
         \A j \in LastReq(d) + 1 .. i - 1 : Lost(rs, C, j)
  PROVE  HandedOver(k, rs, C, Append(d, x)) /\ LastReq(Append(d, x)) = i
<1> DEFINE y == Append(d, x)
           l == Len(d)
           b == LastReq(d)
<1>1. l \in Nat /\ b \in Nat
  BY LastIsNumber
<1>2. Len(y) = l + 1 /\ y[l + 1] = x /\ \A n \in 1 .. l : y[n] = d[n]
  <2>1. /\ Append(d, x) \in Seq(Delivery \cup {x}) /\ Len(Append(d, x)) = Len(d) + 1 /\ Len(d) \in Nat
        /\ Append(d, x)[Len(d) + 1] = x /\ \A j \in 1 .. Len(d) : Append(d, x)[j] = d[j]
    BY AppendOf
  <2> QED
    BY <2>1
<1>3. x.asked.req = i
  BY DEF Given, UnitOf
<1> HIDE DEF y, b
<1>5. Before(y, l + 1) = b
  <2>1. CASE l = 0
    BY <1>1, <2>1 DEF Before, b, LastReq
  <2>2. CASE l # 0
    <3> HIDE DEF l
    <3>1. l + 1 # 1 /\ (l + 1) - 1 = l /\ l \in 1 .. l
      BY <1>1, <2>2
    <3>2. Before(y, l + 1) = d[l].asked.req
      BY <1>2, <3>1 DEF Before
    <3> QED
      BY <2>2, <3>2 DEF b, LastReq, l
  <2> QED
    BY <2>1, <2>2
<1>6. ASSUME NEW n \in 1 .. l PROVE Before(y, n) = Before(d, n)
  <2> HIDE DEF l
  <2>1. n # 1 => n - 1 \in 1 .. l
    BY <1>1
  <2> QED
    BY <1>2, <2>1 DEF Before
<1>7. Handed(k, rs, C, b, x)
  BY <1>3 DEF Handed, b
<1>8. \A n \in 1 .. l : Handed(k, rs, C, Before(y, n), y[n])
  BY <1>2, <1>6 DEF HandedOver
<1> HIDE DEF l
<1>9. ASSUME NEW n \in 1 .. l + 1 PROVE Handed(k, rs, C, Before(y, n), y[n])
  <2>1. n = l + 1 \/ n \in 1 .. l
    BY <1>1
  <2> QED
    BY <1>2, <1>5, <1>7, <1>8, <2>1
<1>10. HandedOver(k, rs, C, y)
  BY <1>2, <1>9 DEF HandedOver
<1>11. LastReq(y) = i
  <2>1. l + 1 # 0
    BY <1>1
  <2> QED
    BY <1>2, <1>3, <2>1 DEF LastReq
<1> QED
  BY <1>10, <1>11 DEF y

(* a mark more that was cut excuses more *)
LEMMA HandedStill ==
  ASSUME NEW k, NEW rs, NEW C, NEW d, HandedOver(k, rs, C, d), NEW E, C \subseteq E
  PROVE  HandedOver(k, rs, E, d) /\ \A j : Lost(rs, C, j) => Lost(rs, E, j)
<1>1. \A j : RegularIn(rs, E, j) => RegularIn(rs, C, j)
  BY DEF RegularIn
<1>2. \A j : Lost(rs, C, j) => Lost(rs, E, j)
  BY <1>1 DEF Lost
<1>3. ASSUME NEW n \in 1 .. Len(d) PROVE Handed(k, rs, E, Before(d, n), d[n])
  <2>1. Handed(k, rs, C, Before(d, n), d[n])
    BY DEF HandedOver
  <2>2. Given(k, rs, E, d[n].asked.req, d[n])
    BY <1>1, <2>1 DEF Handed, Given
  <2> QED
    BY <1>2, <2>1, <2>2 DEF Handed
<1> QED
  BY <1>2, <1>3 DEF HandedOver

LEMMA HandedInOrder ==
  ASSUME \A k \in Connections : HandedOver(k, sent[k], cut[k], delivered[k])
  PROVE  RequestsInOrder
<1>1. \A k \in Connections : \A j : Regular(k, j) <=> RegularIn(sent[k], cut[k], j)
  BY DEF Regular, RegularIn
<1> SUFFICES ASSUME NEW k \in Connections, NEW n \in 1 .. Len(delivered[k])
             PROVE  LET d == delivered[k]
                        i == d[n].asked.req
                        before == IF n = 1 THEN 0 ELSE d[n - 1].asked.req
                        body == AsInt(sent[k][i].body)
                    IN  /\ d[n].asked = [conn |-> k, req |-> i, part |-> 2]
                        /\ before < i
                        /\ \A j \in before + 1 .. i - 1 : ~(sent[k][j].served /\ Regular(k, j))
                        /\ Regular(k, i) => d[n].intact /\ body = sent[k][i].body
                        /\ d[n].intact =>
                             /\ sent[k][i].served
                             /\ d[n].body = SubSeq(Units(k, i, sent[k][i]), 4, 3 + body)
  BY DEF RequestsInOrder
<1>2. Handed(k, sent[k], cut[k], Before(delivered[k], n), delivered[k][n])
  BY DEF HandedOver
<1> QED
  BY <1>1, <1>2, Zenon DEF Handed, Given, Before, Lost, UnitOf

-----------------------------------------------------------------------------
(* The invariant *)

(* r reads the requests rs of connection k, of which C were cut, rest is    *)
(* unread and d was given to handlers                                       *)
Reading(k, rs, C, r, rest, d) ==
  \E e, c : /\ Laid(k, rs, e) /\ Cursor(k, rs, c, r, rest) /\ CutKnown(k, rs, C, c, r)
            /\ \/ Waiting(rs, e, C, c, r, LastReq(d))
               \/ \E i : UnderWay(k, rs, e, C, c, r, LastReq(d), i)

(* a connection being served is read in order; storages only grow *)
ReadOk(o) ==
  /\ in[o].storage >= Capacity
  /\ IF life[o] = "open"
       THEN Reading(owner[o], sent[owner[o]], cut[owner[o]], in[o], unread[owner[o]],
                    delivered[owner[o]])
       ELSE in[o].buffer = <<>>

Processes == {"runs", "asserted", "overrun", "hangs"}

ReaderTypes ==
  /\ in \in [Objects -> Reader]
  /\ sent \in [Connections -> Seq(Requests)]
  /\ unread \in [Connections -> Seq(Unit)]
  /\ cut \in [Connections -> SUBSET Nat]
  /\ process \in Processes

OrderInv ==
  /\ ReaderTypes
  /\ Typed(Unit, Delivery)
  /\ \A k \in Connections : HandedOver(k, sent[k], cut[k], delivered[k])
  /\ \A o \in Objects : ReadOk(o)

LEMMA ConnectionsAreNumbers == Connections \subseteq Nat
  BY HttpBoundsAssumption DEF Connections

(* an open object with all that belongs to it *)
LEMMA OpenReads ==
  ASSUME HttpInv, OrderInv, NEW o \in Objects, life[o] = "open", NEW k, k = owner[o]
  PROVE  /\ enabled[o] /\ k \in Connections /\ k \in Nat
         /\ in[o] \in Reader /\ in[o].storage >= Capacity
         /\ sent[k] \in Seq(Requests) /\ unread[k] \in Seq(Unit) /\ cut[k] \in SUBSET Nat
         /\ delivered[k] \in Seq(Delivery) /\ out[o] \in Out(Unit) /\ wire[k] \in Seq(Unit)
         /\ HandedOver(k, sent[k], cut[k], delivered[k])
         /\ Reading(k, sent[k], cut[k], in[o], unread[k], delivered[k])
<1>1. enabled[o] /\ k \in Connections
  BY ServedObject
<1>2. k \in Nat
  BY <1>1, ConnectionsAreNumbers
<1>3. /\ in[o] \in Reader /\ sent[k] \in Seq(Requests) /\ unread[k] \in Seq(Unit)
      /\ cut[k] \in SUBSET Nat
      /\ delivered[k] \in Seq(Delivery) /\ out[o] \in Out(Unit) /\ wire[k] \in Seq(Unit)
  BY <1>1 DEF OrderInv, ReaderTypes, Typed
<1>4. HandedOver(k, sent[k], cut[k], delivered[k])
  BY <1>1 DEF OrderInv
<1>5. ReadOk(o)
  BY DEF OrderInv
<1>6. in[o].storage >= Capacity /\ Reading(k, sent[k], cut[k], in[o], unread[k], delivered[k])
  BY <1>5 DEF ReadOk
<1> QED
  BY <1>1, <1>2, <1>3, <1>4, <1>6

(* a step of one open object, with its connection, leaves the others alone  *)
OneStep(o, k, r, rest, C, d) ==
  /\ life[o] = "open" /\ k = owner[o]
  /\ UNCHANGED <<owner, sent>>
  /\ process' \in Processes
  /\ life' = life \/ life' = [life EXCEPT ![o] = "closing"]
  /\ Typed(Unit, Delivery)'
  /\ r \in Reader /\ in' = [in EXCEPT ![o] = r] /\ r.storage >= Capacity
  /\ rest \in Seq(Unit) /\ unread' = [unread EXCEPT ![k] = rest]
  /\ C \in SUBSET Nat /\ cut' = [cut EXCEPT ![k] = C]
  /\ d \in Seq(Delivery) /\ delivered' = [delivered EXCEPT ![k] = d]
  /\ HandedOver(k, sent[k], C, d)
  /\ life' = life => Reading(k, sent[k], C, r, rest, d)
  /\ life' # life => r.buffer = <<>>

LEMMA OneReads ==
  ASSUME HttpInv, OrderInv, NEW o \in Objects, NEW k, NEW r, NEW rest, NEW C, NEW d,
         OneStep(o, k, r, rest, C, d)
  PROVE  OrderInv'
<1> USE DEF OneStep
<1>1. enabled[o] /\ k \in Connections
  BY OpenReads
<1>2. /\ in \in [Objects -> Reader] /\ unread \in [Connections -> Seq(Unit)]
      /\ delivered \in [Connections -> Seq(Delivery)]
      /\ life \in [Objects -> {"none", "open", "closing", "pooled"}]
      /\ sent \in [Connections -> Seq(Requests)] /\ cut \in [Connections -> SUBSET Nat]
  BY DEF OrderInv, ReaderTypes, Typed, HttpInv, ObjectTypes
<1>3. ReaderTypes'
  BY <1>2 DEF ReaderTypes
<1>4. /\ in'[o] = r /\ unread'[k] = rest /\ delivered'[k] = d /\ cut'[k] = C
      /\ \A p \in Objects : p # o => in'[p] = in[p] /\ life'[p] = life[p]
      /\ \A j \in Connections : j # k =>
           unread'[j] = unread[j] /\ delivered'[j] = delivered[j] /\ cut'[j] = cut[j]
  BY <1>1, <1>2
<1>5. ASSUME NEW j \in Connections PROVE HandedOver(j, sent[j], cut'[j], delivered'[j])
  <2>1. CASE j = k
    BY <1>4, <2>1
  <2>2. CASE j # k
    BY <1>4, <2>2 DEF OrderInv
  <2> QED
    BY <2>1, <2>2
<1>6. ReadOk(o)'
  <2>1. CASE life' = life
    <3>1. life'[o] = "open" /\ owner'[o] = k /\ sent'[k] = sent[k]
      BY <2>1
    <3> QED
      BY <1>4, <2>1, <3>1 DEF ReadOk
  <2>2. CASE life' = [life EXCEPT ![o] = "closing"] /\ life' # life
    <3>1. life'[o] = "closing"
      BY <1>2, <2>2
    <3> QED
      BY <1>4, <2>2, <3>1 DEF ReadOk
  <2> QED
    BY <2>1, <2>2
<1>7. ASSUME NEW p \in Objects, p # o PROVE ReadOk(p)'
  <2>1. ReadOk(p)
    BY DEF OrderInv
  <2>2. in'[p] = in[p] /\ life'[p] = life[p] /\ owner'[p] = owner[p]
    BY <1>4, <1>7
  <2>3. CASE life[p] = "open"
    <3>1. enabled[p] /\ owner[p] \in Connections
      BY <2>3, ServedObject
    <3>2. owner[p] # k
      BY <1>1, <1>7, <3>1 DEF HttpInv, PoolSound
    <3>3. /\ unread'[owner[p]] = unread[owner[p]] /\ delivered'[owner[p]] = delivered[owner[p]]
          /\ cut'[owner[p]] = cut[owner[p]]
      BY <1>4, <3>1, <3>2
    <3> QED
      BY <2>1, <2>2, <2>3, <3>3 DEF ReadOk
  <2>4. CASE life[p] # "open"
    BY <2>1, <2>2, <2>4 DEF ReadOk
  <2> QED
    BY <2>3, <2>4
<1> QED
  BY <1>3, <1>5, <1>6, <1>7 DEF OrderInv

(* a step that neither reads nor hands over *)
LEMMA StillReads ==
  ASSUME HttpInv, OrderInv, NEW o \in Objects, life[o] = "open",
         UNCHANGED <<owner, sent, in, unread, cut, delivered>>,
         process' \in Processes,
         life' = life \/ (life' = [life EXCEPT ![o] = "closing"] /\ in[o].buffer = <<>>),
         Typed(Unit, Delivery)'
  PROVE  OrderInv'
<1> DEFINE k == owner[o]
<1>1. /\ k \in Connections /\ in[o] \in Reader /\ in[o].storage >= Capacity
      /\ unread[k] \in Seq(Unit) /\ delivered[k] \in Seq(Delivery) /\ cut[k] \in SUBSET Nat
      /\ HandedOver(k, sent[k], cut[k], delivered[k])
      /\ Reading(k, sent[k], cut[k], in[o], unread[k], delivered[k])
  BY OpenReads
<1>2. /\ in \in [Objects -> Reader] /\ unread \in [Connections -> Seq(Unit)]
      /\ delivered \in [Connections -> Seq(Delivery)] /\ cut \in [Connections -> SUBSET Nat]
  BY DEF OrderInv, ReaderTypes, Typed
<1>3. /\ in' = [in EXCEPT ![o] = in[o]] /\ unread' = [unread EXCEPT ![k] = unread[k]]
      /\ delivered' = [delivered EXCEPT ![k] = delivered[k]] /\ cut' = [cut EXCEPT ![k] = cut[k]]
  BY <1>2
<1>4. life' # life => in[o].buffer = <<>>
  OBVIOUS
<1>5. life' = life \/ life' = [life EXCEPT ![o] = "closing"]
  OBVIOUS
<1>6. Reading(k, sent[k], cut[k], in[o], unread[k], delivered[k])
  BY <1>1
<1>7. UNCHANGED <<owner, sent>> /\ process' \in Processes /\ Typed(Unit, Delivery)'
  OBVIOUS
<1>8. k = owner[o]
  OBVIOUS
<1> HIDE DEF k
<1>9. OneStep(o, k, in[o], unread[k], cut[k], delivered[k])
  BY <1>1, <1>3, <1>4, <1>5, <1>6, <1>7, <1>8 DEF OneStep
<1> QED
  BY <1>9, OneReads

(* a request that is complete is handed over, or lost *)
LEMMA CompleteReads ==
  ASSUME HttpInv, OrderInv, NEW o \in Objects, life[o] = "open", NEW k, k = owner[o],
         NEW r \in Reader, r.storage >= Capacity, NEW e, NEW c, NEW i, Laid(k, sent[k], e),
         Cursor(k, sent[k], c, r, unread[k]), CutKnown(k, sent[k], cut[k], c, r),
         UnderWay(k, sent[k], e, cut[k], c, r, LastReq(delivered[k]), i),
         r.residue = 0, Complete(o, r)
  PROVE  OrderInv'
<1> DEFINE x == DeliveryOf(r)
           d == delivered[k]
           rs == sent[k]
           C == cut[k]
           b == LastReq(d)
<1>1. /\ k \in Connections /\ k \in Nat /\ rs \in Seq(Requests) /\ unread[k] \in Seq(Unit)
      /\ d \in Seq(Delivery) /\ C \in SUBSET Nat /\ HandedOver(k, rs, C, d)
  BY OpenReads
<1>2. b \in Nat
  BY <1>1, LastIsNumber
<1>3. /\ i \in 1 .. Len(rs) /\ i \in Nat /\ r.parser = UnitOf(k, i, 2) /\ b < i
      /\ \A j \in 1 .. Len(rs) : (b < j /\ j < i) => Lost(rs, C, j)
  BY DEF UnderWay
<1>4. RequestOf(r.parser) = rs[i]
  BY <1>3 DEF RequestOf, UnitOf
<1>5. RegularIn(rs, C, i) => ~r.dangling /\ AsInt(rs[i].body) = rs[i].body
  BY <1>1, RegularIntact
<1>6. /\ BodyOf(r, rs[i]) \in Seq(Unit)
      /\ BodyOf(r, rs[i]) = SubSeq(Units(k, i, rs[i]), 4, 3 + AsInt(rs[i].body))
  <2>1. UnderWay(k, rs, e, C, c, r, b, i) /\ Laid(k, rs, e) /\ Cursor(k, rs, c, r, unread[k])
    OBVIOUS
  <2>2. /\ k \in Nat /\ rs \in Seq(Requests) /\ unread[k] \in Seq(Unit)
        /\ r \in Reader /\ r.residue = 0
    BY <1>1
  <2> HIDE DEF b, rs, C, d
  <2>3. BodyOf(r, rs[i]) \in Seq(Unit)
    BY ONLY <2>1, <2>2, BodyIs
  <2> QED
    BY ONLY <2>1, <2>2, <2>3, BodyIs
<1>7. /\ UNCHANGED <<life, owner, sent, process, unread, cut>> /\ in' = [in EXCEPT ![o] = Zero(r)]
      /\ \/ /\ rs[i].served \/ r.dangling
            /\ delivered' = [delivered EXCEPT ![k] = Append(d, x)]
         \/ /\ ~rs[i].served \/ r.dangling
            /\ delivered' = delivered
  BY <1>4 DEF Complete, objectVars, DeliveryOf
<1>8. x \in Delivery /\ x.asked = UnitOf(k, i, 2) /\ x.intact = ~r.dangling
      /\ (~r.dangling => x.body = SubSeq(Units(k, i, rs[i]), 4, 3 + AsInt(rs[i].body)))
  <2>1. r.parser \in Unit /\ r.dangling \in BOOLEAN
    BY DEF Reader
  <2>2. <<>> \in Seq(Unit)
    OBVIOUS
  <2> QED
    BY <1>3, <1>4, <1>6, <2>1, <2>2 DEF DeliveryOf, Delivery, BodyOf
<1>9. Typed(Unit, Delivery)'
  <2>1. Typed(Unit, Delivery) /\ r.parser \in Unit
    BY DEF OrderInv, Reader
  <2> QED
    BY <1>8, <2>1, CompleteAnswers
<1> HIDE DEF x
<1>10. /\ unread \in [Connections -> Seq(Unit)] /\ delivered \in [Connections -> Seq(Delivery)]
       /\ cut \in [Connections -> SUBSET Nat] /\ process \in Processes
  BY DEF OrderInv, ReaderTypes, Typed
<1>11. unread' = [unread EXCEPT ![k] = unread[k]] /\ cut' = [cut EXCEPT ![k] = cut[k]]
  BY <1>7, <1>10
<1>12. ASSUME NEW y \in Seq(Delivery), delivered' = [delivered EXCEPT ![k] = y],
              HandedOver(k, rs, C, y), LastReq(y) = i \/ (LastReq(y) = b /\ Lost(rs, C, i))
       PROVE  OrderInv'
  <2>1. LastReq(y) \in Nat
    BY LastIsNumber
  <2> DEFINE b2 == LastReq(y)
  <2>2. b2 \in Nat /\ (b2 = i \/ (b2 = b /\ Lost(rs, C, i)))
    BY <1>12, <2>1
  <2> HIDE DEF b2, b
  <2>3. UnderWay(k, rs, e, C, c, r, b, i)
    BY DEF b
  <2>4. /\ Zero(r) \in Reader /\ Zero(r).storage = r.storage
        /\ \E z : /\ Cursor(k, rs, z, Zero(r), unread[k]) /\ CutKnown(k, rs, C, z, Zero(r))
                  /\ Waiting(rs, e, C, z, Zero(r), b2)
    BY <1>1, <1>2, <2>2, <2>3, RequestDone DEF b
  <2>5. Reading(k, rs, C, Zero(r), unread[k], y)
    BY <2>4 DEF Reading, b2
  <2>6. Zero(r).storage >= Capacity
    BY <2>4
  <2>7. OneStep(o, k, Zero(r), unread[k], C, y)
    <3> HIDE DEF rs, C
    <3> QED
      BY <1>1, <1>7, <1>9, <1>10, <1>11, <1>12, <2>4, <2>5, <2>6 DEF OneStep, rs, C
  <2> QED
    BY <2>7, OneReads
<1>13. CASE /\ rs[i].served \/ r.dangling
            /\ delivered' = [delivered EXCEPT ![k] = Append(d, x)]
  <2>1. Given(k, rs, C, i, x)
    <3>1. x.intact => rs[i].served
      BY <1>8, <1>13
    <3> QED
      BY <1>5, <1>8, <3>1 DEF Given
  <2>2. \A j \in b + 1 .. i - 1 : Lost(rs, C, j)
    <3> SUFFICES ASSUME NEW j \in b + 1 .. i - 1 PROVE Lost(rs, C, j)
      OBVIOUS
    <3> HIDE DEF b, rs, C
    <3>1. j \in 1 .. Len(rs) /\ b < j /\ j < i
      <4>1. Len(rs) \in Nat
        BY <1>1
      <4> QED
        BY <1>2, <1>3, <4>1
    <3> QED
      BY <1>3, <3>1
  <2>3. HandedOver(k, rs, C, Append(d, x)) /\ LastReq(Append(d, x)) = i
    <3> HIDE DEF d, rs, C
    <3> QED
      BY <1>1, <1>3, <1>8, <2>1, <2>2, HandedNext
  <2>4. Append(d, x) \in Seq(Delivery)
    BY <1>1, <1>8
  <2> QED
    BY <1>12, <1>13, <2>3, <2>4
<1>14. CASE /\ ~rs[i].served \/ r.dangling
            /\ delivered' = delivered
  <2>1. Lost(rs, C, i)
    BY <1>5, <1>14 DEF Lost
  <2>2. delivered' = [delivered EXCEPT ![k] = d]
    BY <1>10, <1>14
  <2> QED
    BY <1>1, <1>12, <2>1, <2>2
<1> QED
  BY <1>7, <1>13, <1>14

LEMMA ReadBodyReads ==
  ASSUME HttpInv, OrderInv, NEW o \in Objects, life[o] = "open", NEW k, k = owner[o],
         NEW r \in Reader, r.storage >= Capacity, NEW e, NEW c, NEW i, Laid(k, sent[k], e),
         Cursor(k, sent[k], c, r, unread[k]), CutKnown(k, sent[k], cut[k], c, r),
         UnderWay(k, sent[k], e, cut[k], c, r, LastReq(delivered[k]), i), ReadBody(o, r)
  PROVE  OrderInv'
<1> DEFINE rs == sent[k]
           C == cut[k]
           b == LastReq(delivered[k])
<1>1. /\ k \in Connections /\ k \in Nat /\ rs \in Seq(Requests) /\ unread[k] \in Seq(Unit)
      /\ delivered[k] \in Seq(Delivery) /\ C \in SUBSET Nat /\ HandedOver(k, rs, C, delivered[k])
  BY OpenReads
<1>2. PICK h \in {TakeBody(r)} :
        IF h.residue = 0 THEN Complete(o, h)
        ELSE /\ in' = [in EXCEPT ![o] = h]
             /\ UNCHANGED <<objectVars, out, unread, cut, delivered, wire>>
  BY DEF ReadBody
<1>3. /\ h \in Reader /\ h.storage >= Capacity
      /\ Cursor(k, rs, c, h, unread[k]) /\ CutKnown(k, rs, C, c, h)
      /\ UnderWay(k, rs, e, C, c, h, b, i)
  <2>1. h = TakeBody(r)
    BY <1>2
  <2>2. /\ TakeBody(r) \in Reader /\ TakeBody(r).storage >= Capacity
        /\ Cursor(k, rs, c, TakeBody(r), unread[k]) /\ CutKnown(k, rs, C, c, TakeBody(r))
        /\ UnderWay(k, rs, e, C, c, TakeBody(r), b, i)
    BY <1>1, BodyTaken
  <2> QED
    BY <2>1, <2>2
<1>4. CASE h.residue = 0
  BY <1>2, <1>3, <1>4, CompleteReads
<1>5. CASE h.residue # 0
  <2>1. /\ in' = [in EXCEPT ![o] = h]
        /\ UNCHANGED <<life, owner, sent, process, out, unread, cut, delivered, wire>>
    BY <1>2, <1>5 DEF objectVars
  <2>2. /\ unread \in [Connections -> Seq(Unit)] /\ delivered \in [Connections -> Seq(Delivery)]
        /\ cut \in [Connections -> SUBSET Nat]
        /\ process \in Processes /\ Typed(Unit, Delivery)
    BY DEF OrderInv, ReaderTypes, Typed
  <2>3. Typed(Unit, Delivery)'
    BY <2>1, <2>2 DEF Typed
  <2>4. /\ unread' = [unread EXCEPT ![k] = unread[k]] /\ cut' = [cut EXCEPT ![k] = cut[k]]
        /\ delivered' = [delivered EXCEPT ![k] = delivered[k]]
    BY <2>1, <2>2
  <2>5. Reading(k, rs, C, h, unread[k], delivered[k])
    BY <1>3 DEF Reading
  <2>6. process' \in Processes
    BY <2>1, <2>2
  <2>7. OneStep(o, k, h, unread[k], C, delivered[k])
    <3> HIDE DEF rs, C
    <3> QED
      BY <1>1, <1>3, <2>1, <2>3, <2>4, <2>5, <2>6 DEF OneStep, rs, C
  <2> QED
    BY <2>7, OneReads
<1> QED
  BY <1>4, <1>5

(* close() and break, in whatever state the round is *)
LEMMA CloseReads ==
  ASSUME HttpInv, OrderInv, NEW o \in Objects, life[o] = "open",
         NEW r \in Reader, r.storage >= Capacity, CloseAndBreak(o, r)
  PROVE  OrderInv'
<1> DEFINE k == owner[o]
           q == [r EXCEPT !.buffer = <<>>]
<1>1. /\ k \in Connections /\ unread[k] \in Seq(Unit)
      /\ delivered[k] \in Seq(Delivery) /\ cut[k] \in SUBSET Nat /\ HandedOver(k, sent[k], cut[k], delivered[k])
  BY OpenReads
<1>2. <<>> \in Seq(Unit)
  OBVIOUS
<1>3. q \in Reader /\ q.storage >= Capacity /\ q.buffer = <<>>
  BY <1>2 DEF Reader
<1>4. /\ in' = [in EXCEPT ![o] = q] /\ life' = [life EXCEPT ![o] = "closing"]
      /\ UNCHANGED <<owner, sent, process, out, unread, cut, delivered, wire>>
  BY DEF CloseAndBreak
<1>5. /\ unread \in [Connections -> Seq(Unit)] /\ delivered \in [Connections -> Seq(Delivery)]
      /\ cut \in [Connections -> SUBSET Nat] /\ process \in Processes /\ Typed(Unit, Delivery)
      /\ life \in [Objects -> {"none", "open", "closing", "pooled"}]
  BY DEF OrderInv, ReaderTypes, Typed, HttpInv, ObjectTypes
<1>6. Typed(Unit, Delivery)'
  BY <1>4, <1>5 DEF Typed
<1>7. /\ unread' = [unread EXCEPT ![k] = unread[k]] /\ cut' = [cut EXCEPT ![k] = cut[k]]
      /\ delivered' = [delivered EXCEPT ![k] = delivered[k]]
  BY <1>4, <1>5
<1>8. life' # life
  <2>1. life'[o] = "closing"
    BY <1>4, <1>5
  <2> QED
    BY <2>1
<1>9. process' \in Processes
  BY <1>4, <1>5
<1>10. k = owner[o]
  OBVIOUS
<1> HIDE DEF q, k
<1>11. OneStep(o, k, q, unread[k], cut[k], delivered[k])
  BY <1>1, <1>3, <1>4, <1>6, <1>7, <1>8, <1>9, <1>10 DEF OneStep
<1> QED
  BY <1>11, OneReads

LEMMA ReadRequestReads ==
  ASSUME HttpInv, OrderInv, NEW o \in Objects, ReadRequest(o)
  PROVE  OrderInv'
<1> DEFINE k == owner[o]
           r == in[o]
           rs == sent[k]
           C == cut[k]
           b == LastReq(delivered[k])
<1>0. life[o] = "open" /\ r.buffer # <<>>
  BY DEF ReadRequest
<1>1. /\ k \in Connections /\ k \in Nat /\ r \in Reader /\ r.storage >= Capacity
      /\ rs \in Seq(Requests) /\ unread[k] \in Seq(Unit) /\ delivered[k] \in Seq(Delivery)
      /\ Reading(k, rs, C, r, unread[k], delivered[k])
  BY <1>0, OpenReads
<1>2. PICK e, c : /\ Laid(k, rs, e) /\ Cursor(k, rs, c, r, unread[k]) /\ CutKnown(k, rs, C, c, r)
                  /\ Waiting(rs, e, C, c, r, b) \/ \E i : UnderWay(k, rs, e, C, c, r, b, i)
  BY <1>1 DEF Reading
<1>3. CASE r.content # 0 /\ ReadBody(o, r)
  <2>1. PICK i : UnderWay(k, rs, e, C, c, r, b, i)
    BY <1>2, <1>3 DEF Waiting
  <2> QED
    BY <1>0, <1>1, <1>2, <1>3, <2>1, ReadBodyReads
<1>4. ASSUME r.content = 0, NEW n \in Ends(r.buffer), \A m \in Ends(r.buffer) : n <= m,
             NEW h, h = TakeHead(r, n),
             IF Parses(h) THEN ReadBody(o, h) ELSE CloseAndBreak(o, h)
      PROVE  OrderInv'
  <2>1. Waiting(rs, e, C, c, r, b)
    BY <1>2, <1>4 DEF UnderWay
  <2>2. b \in Nat
    BY <1>1, LastIsNumber
  <2>3. /\ h \in Reader /\ h.storage >= Capacity
        /\ Cursor(k, rs, c, h, unread[k]) /\ CutKnown(k, rs, C, c, h)
        /\ Parses(h) => \E i : UnderWay(k, rs, e, C, c, h, b, i)
    <3> HIDE DEF b, C, k, r
    <3> QED
      BY <1>0, <1>1, <1>2, <1>4, <2>1, <2>2, HeadTaken
  <2>4. CASE Parses(h)
    <3>1. PICK i : UnderWay(k, rs, e, C, c, h, b, i)
      BY <2>3, <2>4
    <3>2. ReadBody(o, h)
      BY <1>4, <2>4
    <3> QED
      BY <1>0, <1>2, <2>3, <3>1, <3>2, ReadBodyReads
  <2>5. CASE CloseAndBreak(o, h)
    BY <1>0, <2>3, <2>5, CloseReads
  <2> QED
    BY <1>4, <2>4, <2>5
<1>5. CASE process' = "hangs" /\ UNCHANGED <<life, enabled, pool, owner, in, out, accepted, sent,
                                             unread, cut, delivered, wire>>
  <2>1. Typed(Unit, Delivery)'
    BY <1>5 DEF Typed, OrderInv
  <2>2. process' \in Processes
    BY <1>5 DEF Processes
  <2> QED
    BY <1>0, <1>5, <2>1, <2>2, StillReads
<1> QED
  BY <1>3, <1>4, <1>5 DEF ReadRequest

LEMMA ReadHeadPartReads ==
  ASSUME HttpInv, OrderInv, NEW o \in Objects, ReadHeadPart(o)
  PROVE  OrderInv'
<1> DEFINE k == owner[o]
           r == in[o]
           rs == sent[k]
           C == cut[k]
           b == LastReq(delivered[k])
           f == AppendFront(r, Len(r.buffer))
<1>0. life[o] = "open" /\ r.buffer # <<>> /\ r.content = 0 /\ Ends(r.buffer) = {}
  BY DEF ReadHeadPart
<1>1. /\ k \in Connections /\ k \in Nat /\ r \in Reader /\ r.storage >= Capacity
      /\ rs \in Seq(Requests) /\ unread[k] \in Seq(Unit) /\ delivered[k] \in Seq(Delivery)
      /\ C \in SUBSET Nat
      /\ Reading(k, rs, C, r, unread[k], delivered[k]) /\ HandedOver(k, rs, C, delivered[k])
  BY <1>0, OpenReads
<1>2. PICK e, c : /\ Laid(k, rs, e) /\ Cursor(k, rs, c, r, unread[k]) /\ CutKnown(k, rs, C, c, r)
                  /\ Waiting(rs, e, C, c, r, b) \/ \E i : UnderWay(k, rs, e, C, c, r, b, i)
  BY <1>1 DEF Reading
<1>3. Waiting(rs, e, C, c, r, b)
  BY <1>0, <1>2 DEF UnderWay
<1>4. /\ f \in Reader /\ f.storage >= Capacity
      /\ Cursor(k, rs, c, f, unread[k]) /\ CutKnown(k, rs, C, c, f)
      /\ Waiting(rs, e, C, c, f, b)
  <2>1. b \in Nat
    BY <1>1, LastIsNumber
  <2> HIDE DEF b, C, k, r
  <2> QED
    BY <1>0, <1>1, <1>2, <1>3, <2>1, HeadPartTaken
<1>5. /\ unread \in [Connections -> Seq(Unit)] /\ delivered \in [Connections -> Seq(Delivery)]
      /\ cut \in [Connections -> SUBSET Nat]
      /\ process \in Processes /\ Typed(Unit, Delivery)
  BY DEF OrderInv, ReaderTypes, Typed
<1>6. CASE process' = "overrun" /\ UNCHANGED <<life, enabled, pool, owner, in, out, accepted, sent,
                                               unread, cut, delivered, wire>>
  <2>1. Typed(Unit, Delivery)'
    BY <1>5, <1>6 DEF Typed
  <2>2. process' \in Processes
    BY <1>6 DEF Processes
  <2> QED
    BY <1>0, <1>6, <2>1, <2>2, StillReads
<1>7. CASE CloseAndBreak(o, f)
  <2> HIDE DEF f
  <2> QED
    BY <1>0, <1>4, <1>7, CloseReads
<1>8. CASE in' = [in EXCEPT ![o] = f] /\ UNCHANGED <<objectVars, out, unread, cut, delivered, wire>>
  <2>1. UNCHANGED <<life, owner, sent, process, out, unread, cut, delivered, wire>>
    BY <1>8 DEF objectVars
  <2>2. Typed(Unit, Delivery)'
    BY <1>5, <2>1 DEF Typed
  <2>3. /\ unread' = [unread EXCEPT ![k] = unread[k]] /\ cut' = [cut EXCEPT ![k] = cut[k]]
        /\ delivered' = [delivered EXCEPT ![k] = delivered[k]]
    BY <1>5, <2>1
  <2>4. Reading(k, rs, C, f, unread[k], delivered[k])
    BY <1>2, <1>4 DEF Reading
  <2>5. process' \in Processes
    BY <1>5, <2>1
  <2>6. k = owner[o]
    OBVIOUS
  <2> HIDE DEF f, k
  <2>7. OneStep(o, k, f, unread[k], C, delivered[k])
    BY <1>0, <1>1, <1>4, <1>8, <2>1, <2>2, <2>3, <2>4, <2>5, <2>6 DEF OneStep
  <2> QED
    BY <2>7, OneReads
<1> QED
  BY <1>6, <1>7, <1>8 DEF ReadHeadPart

(* what a read adds to a reader between rounds: where it ends in a mark,    *)
(* its request is recorded *)
LEMMA ReadMore ==
  ASSUME NEW k \in Nat, NEW rs \in Seq(Requests), NEW C \in SUBSET Nat, NEW r \in Reader,
         NEW u \in Seq(Unit), NEW d, Reading(k, rs, C, r, u, d), r.buffer = <<>>,
         HandedOver(k, rs, C, d), NEW n \in 1 .. Len(u), NEW E \in SUBSET Nat,
         C \subseteq E, u[n].part = 1 => u[n].req \in E,
         NEW q \in Reader, q = [r EXCEPT !.buffer = SubSeq(u, 1, n)]
  PROVE  Reading(k, rs, E, q, SubSeq(u, n + 1, Len(u)), d)
<1> DEFINE b == LastReq(d)
           T == StreamOf(k, rs)
           l == Len(r.packet)
           t == Len(T)
           v == SubSeq(u, n + 1, Len(u))
<1>1. PICK e, c : /\ Laid(k, rs, e) /\ Cursor(k, rs, c, r, u) /\ CutKnown(k, rs, C, c, r)
                  /\ Waiting(rs, e, C, c, r, b) \/ \E i : UnderWay(k, rs, e, C, c, r, b, i)
  BY DEF Reading
<1>2. /\ q.buffer = SubSeq(u, 1, n) /\ q.packet = r.packet /\ q.content = r.content
      /\ q.parser = r.parser /\ q.residue = r.residue /\ q.dangling = r.dangling
  BY DEF Reader
<1>3. c \in Nat /\ l \in Nat /\ At(T, c + l, <<>>, u) /\ \A j \in 1 .. l : r.packet[j] = T[c + j]
  BY <1>1, ReaderLengths DEF Cursor
<1>4. n \in Nat /\ n >= 1 /\ Len(SubSeq(u, 1, n)) = n /\ Len(<<>>) = 0 /\ n \in 0 .. Len(u)
  OBVIOUS
<1>5. T \in Seq(Unit) /\ c + l \in Nat
  BY <1>3, StreamLaid
<1>6. t \in Nat
  <2> HIDE DEF T
  <2> QED
    BY <1>5
<1>7. c + l + 0 + Len(u) = t /\ u[n] = T[c + l + 0 + n]
  BY <1>3, <1>4 DEF At
<1> HIDE DEF T, l, t, b, v
<1>8. At(T, c + l, SubSeq(u, 1, n), SubSeq(u, n + 1, Len(u)))
  BY <1>3, <1>4, <1>5, AtRead
<1>9. Cursor(k, rs, c, q, v)
  BY <1>2, <1>3, <1>8 DEF Cursor, T, l, v
<1>10. c + l + n \in 1 .. t /\ u[n] = T[c + l + n]
  <2>1. Len(u) \in Nat /\ n <= Len(u)
    OBVIOUS
  <2> QED
    BY <1>3, <1>4, <1>6, <1>7, <2>1
<1>11. Known(k, rs, E, c + l + n)
  <2> DEFINE p == c + l + n
  <2> SUFFICES ASSUME p + 1 <= t, T[p + 1].part = 2 PROVE T[p + 1].req \in E
    BY DEF Known, T, t
  <2>1. p \in 1 .. t /\ u[n] = T[p]
    BY <1>10
  <2> HIDE DEF p
  <2>2. p + 1 \in 1 .. t /\ p + 1 > 1 /\ (p + 1) - 1 = p
    BY <1>6, <2>1
  <2>3. \A x \in 1 .. t : (x > 1 /\ T[x].part = 2) => T[x - 1].part = 1 /\ T[x - 1].req = T[x].req
    BY <1>1, MarkAt DEF T, t
  <2>4. T[(p + 1) - 1].part = 1 /\ T[(p + 1) - 1].req = T[p + 1].req
    BY <2>2, <2>3
  <2>5. T[p].part = 1 /\ T[p].req = T[p + 1].req
    BY <2>2, <2>4
  <2> QED
    BY <2>1, <2>5
<1>12. CutKnown(k, rs, E, c, q)
  <2>1. Known(k, rs, C, c + l)
    BY <1>1 DEF CutKnown, l
  <2>2. Known(k, rs, E, c + l)
    BY <2>1 DEF Known
  <2> QED
    BY <1>2, <1>4, <1>11, <2>2 DEF CutKnown, l
<1>13. \A j : Lost(rs, C, j) => Lost(rs, E, j)
  BY HandedStill
<1>14. CASE Waiting(rs, e, C, c, r, b)
  <2>1. Waiting(rs, e, E, c, q, b)
    BY <1>2, <1>13, <1>14 DEF Waiting
  <2> QED
    BY <1>1, <1>9, <1>12, <2>1 DEF Reading, b, v
<1>15. ASSUME NEW i, UnderWay(k, rs, e, C, c, r, b, i)
       PROVE  Reading(k, rs, E, q, v, d)
  <2>1. UnderWay(k, rs, e, E, c, q, b, i)
    BY <1>2, <1>13, <1>15 DEF UnderWay
  <2> QED
    BY <1>1, <1>9, <1>12, <2>1 DEF Reading, b
<1> QED
  BY <1>1, <1>14, <1>15 DEF v

LEMMA EchoReadReads ==
  ASSUME HttpInv, OrderInv, NEW o \in Objects, NEW n, EchoRead(o, n)
  PROVE  OrderInv'
<1> DEFINE k == owner[o]
           r == in[o]
           rs == sent[k]
           u == unread[k]
           C == cut[k]
           x == SubSeq(u, 1, n)
           v == SubSeq(u, n + 1, Len(u))
           E == IF u[n].part = 1 THEN C \cup {u[n].req} ELSE C
           q == [r EXCEPT !.buffer = x]
<1>0. /\ life[o] = "open" /\ r.buffer = <<>> /\ n \in 1 .. Len(u)
      /\ in' = [in EXCEPT ![o].buffer = x] /\ unread' = [unread EXCEPT ![k] = v]
      /\ cut' = [cut EXCEPT ![k] = E]
      /\ UNCHANGED <<life, owner, sent, process, out, delivered, wire>>
  <2>1. cut' = [cut EXCEPT ![k] = IF u[n].part = 1 THEN @ \cup {u[n].req} ELSE @]
    BY DEF EchoRead
  <2>2. k \in Connections
    BY OpenReads DEF EchoRead
  <2>3. cut \in [Connections -> SUBSET Nat]
    BY DEF OrderInv, ReaderTypes
  <2> QED
    BY <2>1, <2>2, <2>3 DEF EchoRead, objectVars
<1>1. /\ k \in Connections /\ k \in Nat /\ r \in Reader /\ r.storage >= Capacity
      /\ rs \in Seq(Requests) /\ u \in Seq(Unit) /\ delivered[k] \in Seq(Delivery)
      /\ C \in SUBSET Nat
      /\ Reading(k, rs, C, r, u, delivered[k]) /\ HandedOver(k, rs, C, delivered[k])
  BY <1>0, OpenReads
<1>3. /\ delivered \in [Connections -> Seq(Delivery)] /\ in \in [Objects -> Reader]
      /\ process \in Processes /\ Typed(Unit, Delivery)
  BY DEF OrderInv, ReaderTypes, Typed
<1>4. in' = [in EXCEPT ![o] = q]
  BY <1>0, <1>3
<1>5. x \in Seq(Unit) /\ v \in Seq(Unit) /\ u[n] \in Unit
  <2> HIDE DEF u
  <2>1. Len(u) \in Nat
    BY <1>1
  <2> QED
    BY <1>0, <1>1, <2>1
<1>6. q \in Reader /\ q.storage = r.storage
  BY <1>1, <1>5 DEF Reader
<1>7. E \in SUBSET Nat /\ C \subseteq E /\ (u[n].part = 1 => u[n].req \in E)
  BY <1>1, <1>5 DEF Unit
<1> HIDE DEF E
<1>8. Reading(k, rs, E, q, v, delivered[k])
  <2> HIDE DEF k, r, rs, u, C
  <2> QED
    BY <1>0, <1>1, <1>6, <1>7, ReadMore
<1>9. HandedOver(k, rs, E, delivered[k])
  BY <1>1, <1>7, HandedStill
<1>10. Typed(Unit, Delivery)'
  BY <1>0, <1>3 DEF Typed
<1>11. delivered' = [delivered EXCEPT ![k] = delivered[k]]
  BY <1>0, <1>3
<1>12. process' \in Processes /\ q.storage >= Capacity
  BY <1>0, <1>1, <1>3, <1>6
<1>13. rs = sent[k] /\ k = owner[o]
  OBVIOUS
<1> HIDE DEF v, k, q, rs, C, u, r, x
<1>14. OneStep(o, k, q, v, E, delivered[k])
  BY <1>0, <1>1, <1>4, <1>5, <1>6, <1>7, <1>8, <1>9, <1>10, <1>11, <1>12, <1>13 DEF OneStep
<1> QED
  BY <1>14, OneReads

LEMMA NewConnectionReads ==
  ASSUME HttpInv, OrderInv, NEW o \in Objects, OnNewConnection(o)
  PROVE  OrderInv'
<1> DEFINE k == accepted + 1
           r == in[o]
           v == Zero(r)
<1>1. NewEffect(o) /\ ~enabled[o]
  BY NewObject
<1>2. /\ k \in Connections /\ k \in Nat
      /\ \A p \in Objects : life[p] = "open" => owner[p] \in Connections /\ owner[p] # k
  <2>1. accepted \in {0} \cup Connections /\ k \in Connections
    BY <1>1 DEF HttpInv, ObjectTypes, NewEffect
  <2>2. accepted \in Nat /\ k \in Nat
    BY <2>1, ConnectionsAreNumbers
  <2>3. ASSUME NEW p \in Objects, life[p] = "open" PROVE owner[p] \in Connections /\ owner[p] # k
    <3>1. owner[p] \in Connections /\ owner[p] <= accepted
      BY <2>3, ServedObject
    <3>2. owner[p] \in Nat
      BY <3>1, ConnectionsAreNumbers
    <3>3. \A m, n \in Nat : m <= n => m # n + 1
      OBVIOUS
    <3> QED
      BY <2>2, <3>1, <3>2, <3>3
  <2> QED
    BY <2>1, <2>2, <2>3
<1>3. PICK rs \in Streams[k] : /\ sent' = [sent EXCEPT ![k] = rs]
                               /\ unread' = [unread EXCEPT ![k] = StreamOf(k, rs)]
  BY DEF OnNewConnection
<1>4. /\ in' = [in EXCEPT ![o] = v] /\ life' = [life EXCEPT ![o] = "open"]
      /\ owner' = [owner EXCEPT ![o] = k] /\ UNCHANGED <<cut, delivered, process>>
  BY DEF OnNewConnection
<1>5. rs \in Seq(Requests)
  BY <1>2, <1>3, StreamsAssumption
<1>6. PICK e : Laid(k, rs, e)
  BY <1>2, <1>5, StreamLaid
<1>7. StreamOf(k, rs) \in Seq(Unit)
  BY <1>2, <1>5, StreamLaid
<1>8. /\ in \in [Objects -> Reader] /\ sent \in [Connections -> Seq(Requests)]
      /\ unread \in [Connections -> Seq(Unit)] /\ process \in Processes
      /\ Typed(Unit, Delivery) /\ cut \in [Connections -> SUBSET Nat]
      /\ life \in [Objects -> {"none", "open", "closing", "pooled"}]
      /\ owner \in [Objects -> {0} \cup Connections]
  BY DEF OrderInv, ReaderTypes, HttpInv, ObjectTypes
<1>9. Typed(Unit, Delivery)'
  BY <1>8, NewConnectionAnswers
<1>10. r \in Reader /\ r.storage >= Capacity /\ r.buffer = <<>>
  <2>1. ReadOk(o)
    BY DEF OrderInv
  <2>2. life[o] # "open"
    BY <1>1 DEF NewEffect
  <2> QED
    BY <1>8, <2>1, <2>2 DEF ReadOk
<1>11. /\ v \in Reader /\ v.storage >= Capacity /\ v.buffer = <<>> /\ v.packet = <<>>
       /\ v.content = 0 /\ v.residue = 0 /\ v.dangling = FALSE
  <2>1. <<>> \in Seq(Unit) /\ NoUnit \in Unit /\ 0 \in Nat /\ 0 \in - MaxInt - 1 .. MaxInt
    BY HttpBoundsAssumption DEF NoUnit, Unit
  <2> HIDE DEF r
  <2> QED
    BY <1>10, <2>1 DEF Zero, Reader
<1> HIDE DEF v, k, r
<1>12. ReaderTypes'
  BY <1>3, <1>4, <1>5, <1>7, <1>8, <1>11 DEF ReaderTypes
<1>13. delivered[k] = <<>>
  <2>1. accepted < k
    <3>1. accepted \in Nat
      BY ConnectionsAreNumbers DEF HttpInv, ObjectTypes
    <3> QED
      BY <3>1 DEF k
  <2> QED
    BY <1>2, <2>1 DEF HttpInv, FreshInv
<1>14. ASSUME NEW j \in Connections PROVE HandedOver(j, sent'[j], cut'[j], delivered'[j])
  <2>1. CASE j = k
    <3>1. Len(<<>>) = 0 /\ 1 .. 0 = {}
      OBVIOUS
    <3> QED
      BY <1>4, <1>13, <2>1, <3>1 DEF HandedOver
  <2>2. CASE j # k
    <3>1. sent'[j] = sent[j] /\ delivered'[j] = delivered[j] /\ cut'[j] = cut[j]
      BY <1>3, <1>4, <1>8, <2>2
    <3> QED
      BY <3>1 DEF OrderInv
  <2> QED
    BY <2>1, <2>2
<1>15. Reading(k, rs, cut[k], v, StreamOf(k, rs), <<>>)
  <2> DEFINE T == StreamOf(k, rs)
             C == cut[k]
             t == Len(T)
  <2>1. Len(<<>>) = 0 /\ 1 .. 0 = {} /\ 0 \in Nat /\ 0 + 0 = 0
    OBVIOUS
  <2>2. t \in Nat
    <3> HIDE DEF T
    <3> QED
      BY <1>7 DEF T
  <2>3. At(T, 0, <<>>, T)
    <3> HIDE DEF t
    <3>1. 0 + 0 + t = t /\ \A j \in 1 .. t : 0 + 0 + j = j
      BY <2>2
    <3> QED
      BY <2>1, <3>1 DEF At, t
  <2>4. Cursor(k, rs, 0, v, T)
    BY <1>11, <2>1, <2>3 DEF Cursor
  <2>5. Known(k, rs, C, 0)
    <3>1. ~(0 + 1 <= t /\ T[0 + 1].part = 2)
      <4> SUFFICES ASSUME 0 + 1 <= t, T[0 + 1].part = 2 PROVE FALSE
        OBVIOUS
      <4>1. 0 + 1 = 1 /\ ~(1 > 1)
        OBVIOUS
      <4>2. 1 \in 1 .. Len(T) /\ T[1].part = 2
        <5> HIDE DEF t
        <5>1. 1 \in 1 .. t
          BY <2>2, <4>1
        <5> QED
          BY <4>1, <5>1 DEF t
      <4>3. \A q \in 1 .. Len(T) : T[q].part = 2 => q > 1
        BY <1>2, <1>5, <1>6, MarkAt
      <4> QED
        BY <4>1, <4>2, <4>3
    <3> QED
      BY <3>1 DEF Known
  <2>6. CutKnown(k, rs, C, 0, v)
    BY <1>11, <2>1, <2>5 DEF CutKnown
  <2>7. LastReq(<<>>) = 0
    BY <2>1 DEF LastReq
  <2>8. ASSUME NEW j \in 1 .. Len(rs) PROVE 0 < Mark(e, j) /\ 0 < j /\ ~(Mark(e, j) <= 0)
    <3>1. Mark(e, j) \in Nat /\ e[j - 1] \in Nat /\ e[j - 1] < Mark(e, j)
      BY <1>2, <1>5, <1>6, MarkOrder
    <3> QED
      BY <3>1
  <2>9. Waiting(rs, e, C, 0, v, 0)
    BY <1>11, <2>1, <2>8 DEF Waiting
  <2> QED
    BY <1>6, <2>4, <2>6, <2>7, <2>9 DEF Reading
<1>16. ReadOk(o)'
  <2>1. in'[o] = v /\ life'[o] = "open" /\ owner'[o] = k
    BY <1>4, <1>8
  <2>2. sent'[k] = rs /\ unread'[k] = StreamOf(k, rs) /\ delivered'[k] = <<>> /\ cut'[k] = cut[k]
    BY <1>2, <1>3, <1>4, <1>8, <1>13
  <2> QED
    BY <1>11, <1>15, <2>1, <2>2 DEF ReadOk
<1>17. ASSUME NEW p \in Objects, p # o PROVE ReadOk(p)'
  <2>1. ReadOk(p)
    BY DEF OrderInv
  <2>2. in'[p] = in[p] /\ life'[p] = life[p] /\ owner'[p] = owner[p]
    BY <1>4, <1>8, <1>17
  <2>3. CASE life[p] = "open"
    <3>1. owner[p] \in Connections /\ owner[p] # k
      BY <1>2, <2>3
    <3>2. /\ unread'[owner[p]] = unread[owner[p]] /\ delivered'[owner[p]] = delivered[owner[p]]
          /\ sent'[owner[p]] = sent[owner[p]] /\ cut'[owner[p]] = cut[owner[p]]
      BY <1>3, <1>4, <1>8, <3>1
    <3> QED
      BY <2>1, <2>2, <2>3, <3>2 DEF ReadOk
  <2>4. CASE life[p] # "open"
    BY <2>1, <2>2, <2>4 DEF ReadOk
  <2> QED
    BY <2>3, <2>4
<1> QED
  BY <1>9, <1>12, <1>14, <1>16, <1>17 DEF OrderInv

LEMMA UvCloseReads ==
  ASSUME HttpInv, OrderInv, NEW o \in Objects, OnUvClose(o)
  PROVE  OrderInv'
<1>1. UNCHANGED <<owner, accepted, sent, unread, cut, delivered, wire>> /\ life[o] = "closing"
  BY DEF OnUvClose
<1>2. /\ in \in [Objects -> Reader] /\ sent \in [Connections -> Seq(Requests)]
      /\ unread \in [Connections -> Seq(Unit)] /\ process \in Processes
      /\ Typed(Unit, Delivery) /\ cut \in [Connections -> SUBSET Nat]
      /\ life \in [Objects -> {"none", "open", "closing", "pooled"}]
  BY DEF OrderInv, ReaderTypes, HttpInv, ObjectTypes
<1>3. Typed(Unit, Delivery)'
  BY <1>2, UvCloseAnswers
<1>4. NewIn \in Reader /\ NewIn.storage >= Capacity /\ NewIn.buffer = <<>>
  <2>1. <<>> \in Seq(Unit) /\ NoUnit \in Unit /\ Capacity \in Nat /\ 0 \in Nat
        /\ 0 \in - MaxInt - 1 .. MaxInt
    BY HttpBoundsAssumption DEF NoUnit, Unit
  <2>2. Capacity >= Capacity
    BY <2>1
  <2> QED
    BY <2>1, <2>2 DEF NewIn, Reader
<1>5. process' \in Processes
  BY <1>2 DEF OnUvClose, Processes
<1>6. /\ in' = in \/ in' = [in EXCEPT ![o] = NewIn]
      /\ life' = life \/ \E l \in {"none", "pooled"} : life' = [life EXCEPT ![o] = l]
  BY DEF OnUvClose, Reclaim
<1>7. ReaderTypes'
  BY <1>1, <1>2, <1>4, <1>5, <1>6 DEF ReaderTypes
<1>8. ReadOk(o)'
  <2>1. in[o].storage >= Capacity /\ in[o].buffer = <<>>
    <3>1. ReadOk(o)
      BY DEF OrderInv
    <3> QED
      BY <1>1, <3>1 DEF ReadOk
  <2>2. in'[o] = in[o] \/ in'[o] = NewIn
    BY <1>2, <1>6
  <2>3. life'[o] # "open"
    BY <1>1, <1>2, <1>6
  <2> QED
    BY <1>4, <2>1, <2>2, <2>3 DEF ReadOk
<1>9. ASSUME NEW p \in Objects, p # o PROVE ReadOk(p)'
  <2>1. ReadOk(p)
    BY DEF OrderInv
  <2>2. in'[p] = in[p] /\ life'[p] = life[p]
    BY <1>2, <1>6, <1>9
  <2> QED
    BY <1>1, <2>1, <2>2 DEF ReadOk
<1>10. \A j \in Connections : HandedOver(j, sent'[j], cut'[j], delivered'[j])
  BY <1>1 DEF OrderInv
<1> QED
  BY <1>3, <1>7, <1>8, <1>9, <1>10 DEF OrderInv

LEMMA OrderStep ==
  ASSUME HttpInv, OrderInv, [Next]_vars
  PROVE  OrderInv'
<1>0. process \in Processes /\ Typed(Unit, Delivery)
  BY DEF OrderInv, ReaderTypes
<1>1. ASSUME NEW o \in Objects, KernelWrite(o) PROVE OrderInv'
  <2>1. life[o] = "open" /\ UNCHANGED <<life, owner, sent, in, unread, cut, delivered, process>>
    BY <1>1 DEF KernelWrite, objectVars
  <2>2. Typed(Unit, Delivery)'
    BY <1>0, <1>1, KernelWriteAnswers
  <2>3. process' \in Processes
    BY <1>0, <2>1
  <2> QED
    BY <2>1, <2>2, <2>3, StillReads
<1>2. ASSUME NEW o \in Objects, EchoWrite(o) PROVE OrderInv'
  <2>1. /\ life[o] = "open" /\ UNCHANGED <<owner, sent, in, unread, cut, delivered, process>>
        /\ in[o].buffer = <<>>
    BY <1>2 DEF EchoWrite
  <2>2. Serves(o)
    BY <1>2, EchoWriteServes
  <2>3. Typed(Unit, Delivery)'
    BY <1>0, <1>2, <2>2, EchoWriteAnswers
  <2>4. life' = life \/ life' = [life EXCEPT ![o] = "closing"]
    BY <2>2 DEF Serves
  <2>5. process' \in Processes
    BY <1>0, <2>1
  <2> QED
    BY <2>1, <2>3, <2>4, <2>5, StillReads
<1>3. ASSUME NEW o \in Objects, EchoReadEnd(o) PROVE OrderInv'
  <2>1. /\ life[o] = "open" /\ life' = [life EXCEPT ![o] = "closing"] /\ in[o].buffer = <<>>
        /\ UNCHANGED <<owner, sent, in, out, wire, unread, cut, delivered, process>>
    BY <1>3 DEF EchoReadEnd
  <2>2. Typed(Unit, Delivery)'
    BY <1>0, <2>1 DEF Typed
  <2>3. process' \in Processes
    BY <1>0, <2>1
  <2> QED
    BY <2>1, <2>2, <2>3, StillReads
<1>4. ASSUME UNCHANGED vars PROVE OrderInv'
  <2>1. UNCHANGED <<life, owner, in, out, sent, unread, cut, delivered, wire, process>>
    BY <1>4 DEF vars
  <2>2. Typed(Unit, Delivery)' /\ ReaderTypes'
    BY <1>0, <2>1 DEF Typed, OrderInv, ReaderTypes
  <2>3. \A o \in Objects : ReadOk(o)'
    BY <2>1 DEF OrderInv, ReadOk
  <2>4. \A k \in Connections : HandedOver(k, sent'[k], cut'[k], delivered'[k])
    BY <2>1 DEF OrderInv
  <2> QED
    BY <2>2, <2>3, <2>4 DEF OrderInv
<1> QED
  BY <1>1, <1>2, <1>3, <1>4, NewConnectionReads, EchoReadReads, ReadRequestReads,
     ReadHeadPartReads, UvCloseReads DEF Next, LoopStep

LEMMA OrderInit == Init => OrderInv
<1> SUFFICES ASSUME Init PROVE OrderInv
  OBVIOUS
<1>1. NewIn \in Reader /\ NewIn.storage >= Capacity /\ NewIn.buffer = <<>>
  <2>1. <<>> \in Seq(Unit) /\ NoUnit \in Unit /\ Capacity \in Nat /\ 0 \in Nat
        /\ 0 \in - MaxInt - 1 .. MaxInt
    BY HttpBoundsAssumption DEF NoUnit, Unit
  <2>2. Capacity >= Capacity
    BY <2>1
  <2> QED
    BY <2>1, <2>2 DEF NewIn, Reader
<1>2. /\ <<>> \in Seq(Requests) /\ <<>> \in Seq(Unit) /\ <<>> \in Seq(Delivery)
      /\ Len(<<>>) = 0 /\ 1 .. 0 = {}
  OBVIOUS
<1>3. ReaderTypes
  BY <1>1, <1>2 DEF Init, ReaderTypes, Processes
<1>4. Typed(Unit, Delivery)
  BY <1>2 DEF Init, Typed, Out, NewOut
<1>5. \A o \in Objects : ReadOk(o)
  BY <1>1 DEF Init, ReadOk
<1>6. \A k \in Connections : HandedOver(k, sent[k], cut[k], delivered[k])
  BY <1>2 DEF Init, HandedOver
<1> QED
  BY <1>3, <1>4, <1>5, <1>6 DEF OrderInv

LEMMA OrderAlways == Spec => []OrderInv
<1>1. HttpInv /\ OrderInv /\ [Next]_vars => OrderInv'
  BY OrderStep
<1> QED
  BY <1>1, OrderInit, HttpInvariance, PTL DEF Spec

(* The variables keep their types, whatever the requests and however long:  *)
(* in particular m_residue stays in the range of an int (static_cast<int>   *)
(* of HttpConnect.cpp:112), through every read of a body.                   *)
THEOREM HttpTypeCorrect == Spec => []HttpTypeOK
<1>1. HttpInv /\ OrderInv => HttpTypeOK
  BY DEF HttpInv, OrderInv, ObjectTypes, ReaderTypes, Typed, HttpTypeOK, Reader, Out, Delivery,
         Processes
<1> QED
  BY <1>1, HttpInvariance, OrderAlways, PTL

(* Handlers get a connection's requests in order, each once, with the body  *)
(* the client sent, for any cut of the stream into reads.  Requests beside  *)
(* a cut mark, those that outgrow the storage and those with a body beyond  *)
(* an int may miss theirs or come with less.                                *)
THEOREM RequestsInOrderAlways == Spec => []RequestsInOrder
<1>1. OrderInv => RequestsInOrder
  BY HandedInOrder DEF OrderInv
<1> QED
  BY <1>1, OrderAlways, PTL
=============================================================================
