--------------------------- MODULE TcpSocketProofs ---------------------------
(***************************************************************************)
(* Theorems about TcpSocket, for any number of connections, any limits on  *)
(* a batch and any packet sizes, the empty packet included.                *)
(***************************************************************************)
EXTENDS TcpSocket, FiniteSetTheorems, SequenceTheorems, TLAPS

(* the packets of q follow one another in the stream *)
Ordered(q) ==
  /\ \A i \in 1 .. Len(q) : q[i].from <= q[i].to
  /\ \A i, j \in 1 .. Len(q) : i < j => q[i].to <= q[j].from
  /\ \A i \in 1 .. Len(q) : i + 1 <= Len(q) => q[i + 1].from = q[i].to

(* where the queue begins in the stream *)
Front(c) == IF sendPackets[c] = <<>> THEN StreamEnd(c) ELSE sendPackets[c][1].from

(* offered is recycled followed by sendPackets *)
QueueInv(c) ==
  /\ Ordered(offered[c])
  /\ Len(offered[c]) > 0 => offered[c][1].from = 0
  /\ Len(recycled[c]) + Len(sendPackets[c]) = Len(offered[c])
  /\ \A i \in 1 .. Len(recycled[c]) : recycled[c][i] = offered[c][i]
  /\ \A i \in 1 .. Len(sendPackets[c]) :
       sendPackets[c][i] = offered[c][Len(recycled[c]) + i]
  /\ sending[c] <= Len(sendPackets[c])
  /\ handle[c] = "destroyed" => sendPackets[c] = <<>>

(* at most one request, made for the batch at the front of the queue *)
RequestInv(c) ==
  /\ requests[c] \in {0, 1}
  /\ requests[c] = 0 => pending[c] = <<>>
  /\ requests[c] = 1 => sending[c] > 0 /\ handle[c] \in {"open", "closing"}
  /\ \A j \in 1 .. Len(pending[c]) :
       /\ sendPackets[c][1].from <= pending[c][j]
       /\ pending[c][j] < sendPackets[c][sending[c]].to
  /\ (handle[c] = "open" /\ requests[c] = 0 /\ sending[c] > 0)
       => BatchSize(sendPackets[c], sending[c]) = 0

(* the kernel has the stream up to the pending bytes, and those follow *)
StreamInv(c) ==
  /\ \A i \in 1 .. Len(accepted[c]) : accepted[c][i] = i - 1
  /\ (handle[c] = "open" /\ ~broken[c]) =>
       IF requests[c] = 0
         THEN Len(accepted[c]) = Front(c)
         ELSE /\ \A j \in 1 .. Len(pending[c]) : pending[c][j] = Len(accepted[c]) + j - 1
              /\ Len(accepted[c]) + Len(pending[c]) = sendPackets[c][sending[c]].to

IInv == TypeOK /\ \A c \in Conns : QueueInv(c) /\ RequestInv(c) /\ StreamInv(c)

-----------------------------------------------------------------------------
(* The number of packets send_top_msg takes is at most the queue's length. *)
LEMMA BatchLenBound ==
  ASSUME NEW q \in Seq(Packet)
  PROVE  BatchLen(q) \in Nat /\ BatchLen(q) <= Len(q)
<1>1. IsFiniteSet(1 .. Len(q)) /\ Cardinality(1 .. Len(q)) = Len(q)
  BY FS_Interval, Len(q) \in Nat, SMTT(30)
<1>2. Taken(q) \in SUBSET (1 .. Len(q))
  BY DEF Taken
<1>3. IsFiniteSet(Taken(q)) /\ Cardinality(Taken(q)) <= Cardinality(1 .. Len(q))
  BY <1>1, <1>2, FS_Subset
<1>4. Cardinality(Taken(q)) \in Nat
  BY <1>3, FS_CardinalityType
<1> QED
  BY <1>1, <1>3, <1>4 DEF BatchLen

(* Where the elements of a concatenation come from. *)
LEMMA ConcatParts ==
  ASSUME NEW S, NEW s \in Seq(S), NEW t \in Seq(S)
  PROVE  /\ s \o t \in Seq(S)
         /\ Len(s \o t) = Len(s) + Len(t)
         /\ \A i \in 1 .. Len(s) : (s \o t)[i] = s[i]
         /\ \A i \in 1 .. Len(t) : (s \o t)[Len(s) + i] = t[i]
<1> DEFINE m == Len(s)
           n == Len(t)
<1>1. m \in Nat /\ n \in Nat
  OBVIOUS
<1>2. /\ s \o t \in Seq(S) /\ Len(s \o t) = m + n
      /\ \A i \in 1 .. m + n : (s \o t)[i] = IF i <= m THEN s[i] ELSE t[i - m]
  BY ConcatProperties
<1> HIDE DEF m, n
<1>3. \A i \in 1 .. m : i \in 1 .. m + n /\ i <= m
  BY <1>1
<1>4. \A i \in 1 .. n : m + i \in 1 .. m + n /\ ~(m + i <= m) /\ (m + i) - m = i
  BY <1>1
<1>5. /\ \A i \in 1 .. m : (s \o t)[i] = s[i]
      /\ \A i \in 1 .. n : (s \o t)[m + i] = t[i]
  <2>1. \A i \in 1 .. m : (s \o t)[i] = s[i]
    BY <1>2, <1>3
  <2>2. \A i \in 1 .. n : (s \o t)[m + i] = t[(m + i) - m]
    BY <1>2, <1>4
  <2> QED
    BY <1>4, <2>1, <2>2
<1> QED
  BY <1>2, <1>5 DEF m, n

(* the same for the two kinds of sequence the module concatenates *)
LEMMA ConcatSeqs ==
  /\ \A s, t \in Seq(Packet) :
       /\ s \o t \in Seq(Packet)
       /\ Len(s \o t) = Len(s) + Len(t)
       /\ \A i \in 1 .. Len(s) : (s \o t)[i] = s[i]
       /\ \A i \in 1 .. Len(t) : (s \o t)[Len(s) + i] = t[i]
  /\ \A s, t \in Seq(Nat) :
       /\ s \o t \in Seq(Nat)
       /\ Len(s \o t) = Len(s) + Len(t)
       /\ \A i \in 1 .. Len(s) : (s \o t)[i] = s[i]
       /\ \A i \in 1 .. Len(t) : (s \o t)[Len(s) + i] = t[i]
BY ConcatParts

(* Packets stay in order when one is written behind the last ... *)
LEMMA OrderedAppend ==
  ASSUME NEW s \in Seq(Packet), Ordered(s), NEW p \in Packet, p.from <= p.to,
         Len(s) > 0 => s[Len(s)].to = p.from
  PROVE  Ordered(Append(s, p))
<1> DEFINE t == Append(s, p)
<1>1. /\ Len(s) \in Nat
      /\ Len(t) = Len(s) + 1
      /\ t[Len(s) + 1] = p
      /\ \A i \in 1 .. Len(s) : t[i] = s[i]
  OBVIOUS
<1>p. /\ p.from \in Nat /\ p.to \in Nat
      /\ \A i \in 1 .. Len(s) : s[i].to \in Nat /\ s[i].from \in Nat
  <2>1. \A i \in 1 .. Len(s) : s[i] \in Packet
    OBVIOUS
  <2> QED
    BY <2>1 DEF Packet
<1>2. \A i \in 1 .. Len(s) : s[i].to <= p.from
  <2> SUFFICES ASSUME NEW i \in 1 .. Len(s) PROVE s[i].to <= p.from
    OBVIOUS
  <2>1. CASE i = Len(s)
    BY <2>1, <1>1, <1>p
  <2>2. CASE i < Len(s)
    <3>1. s[i].to <= s[Len(s)].from /\ s[Len(s)].from <= s[Len(s)].to
      BY <2>2, <1>1 DEF Ordered
    <3> QED
      BY <3>1, <1>1, <1>p
  <2> QED
    BY <2>1, <2>2, <1>1
<1> HIDE DEF t
<1>3. \A i \in 1 .. Len(t) : t[i].from <= t[i].to
  BY <1>1 DEF Ordered
<1>4. ASSUME NEW i \in 1 .. Len(t), NEW j \in 1 .. Len(t), i < j
      PROVE  t[i].to <= t[j].from
  <2>1. i \in 1 .. Len(s) /\ t[i] = s[i]
    BY <1>4, <1>1
  <2>2. CASE j = Len(t)
    BY <2>1, <2>2, <1>1, <1>2
  <2>3. CASE j # Len(t)
    <3>1. j \in 1 .. Len(s) /\ t[j] = s[j]
      BY <2>3, <1>1
    <3>2. s[i].to <= s[j].from
      BY <2>1, <3>1, <1>4 DEF Ordered
    <3> QED
      BY <2>1, <3>1, <3>2
  <2> QED
    BY <2>2, <2>3
<1>5. ASSUME NEW i \in 1 .. Len(t), i + 1 <= Len(t)
      PROVE  t[i + 1].from = t[i].to
  <2>1. i \in 1 .. Len(s)
    BY <1>5, <1>1
  <2>2. CASE i = Len(s)
    BY <2>1, <2>2, <1>1
  <2>3. CASE i # Len(s)
    <3>1. i + 1 \in 1 .. Len(s)
      BY <2>1, <2>3, <1>1
    <3> QED
      BY <2>1, <3>1, <1>1 DEF Ordered
  <2> QED
    BY <2>2, <2>3
<1>6. Ordered(t)
  BY <1>3, <1>4, <1>5 DEF Ordered
<1> QED
  BY <1>6 DEF t

(* ... and when packets are taken away at the front. *)
LEMMA OrderedSuffix ==
  ASSUME NEW s \in Seq(Packet), Ordered(s), NEW q \in Seq(Packet), NEW k \in Nat,
         Len(q) + k = Len(s), \A i \in 1 .. Len(q) : q[i] = s[k + i]
  PROVE  Ordered(q)
<1>1. Len(q) \in Nat /\ Len(s) \in Nat
  OBVIOUS
<1>2. \A i \in 1 .. Len(q) : k + i \in 1 .. Len(s)
  BY <1>1
<1>3. \A i \in 1 .. Len(q) : q[i].from <= q[i].to
  BY <1>2 DEF Ordered
<1>4. ASSUME NEW i \in 1 .. Len(q), NEW j \in 1 .. Len(q), i < j
      PROVE  q[i].to <= q[j].from
  <2>1. k + i < k + j
    BY <1>4
  <2> QED
    BY <2>1, <1>2 DEF Ordered
<1>5. ASSUME NEW i \in 1 .. Len(q), i + 1 <= Len(q)
      PROVE  q[i + 1].from = q[i].to
  <2>1. i + 1 \in 1 .. Len(q) /\ (k + i) + 1 <= Len(s) /\ k + (i + 1) = (k + i) + 1
    BY <1>5, <1>1
  <2>2. s[(k + i) + 1].from = s[k + i].to
    BY <2>1, <1>2 DEF Ordered
  <2> QED
    BY <2>1, <2>2
<1> QED
  BY <1>3, <1>4, <1>5 DEF Ordered

(* The bytes of a batch are those from its first packet to its last. *)
LEMMA BatchBytesRange ==
  ASSUME NEW q \in Seq(Packet), Ordered(q), NEW n \in Nat, n <= Len(q)
  PROVE  /\ BatchSize(q, n) \in Nat
         /\ BatchBytes(q, n) \in Seq(Nat)
         /\ Len(BatchBytes(q, n)) = BatchSize(q, n)
         /\ \A j \in 1 .. Len(BatchBytes(q, n)) : BatchBytes(q, n)[j] = q[1].from + j - 1
<1>1. BatchSize(q, n) \in Nat
  <2>1. CASE n = 0
    BY <2>1 DEF BatchSize
  <2>2. CASE n > 0
    <3>1. q[1] \in Packet /\ q[n] \in Packet
      BY <2>2
    <3>2. q[1].from <= q[1].to /\ q[n].from <= q[n].to
      BY <2>2 DEF Ordered
    <3>3. 1 < n => q[1].to <= q[n].from
      BY <2>2 DEF Ordered
    <3> QED
      BY <2>2, <3>1, <3>2, <3>3 DEF BatchSize, Packet
  <2> QED
    BY <2>1, <2>2
<1>2. \A j \in 1 .. BatchSize(q, n) : q[1].from + j - 1 \in Nat
  <2>1. CASE n = 0
    BY <2>1 DEF BatchSize
  <2>2. CASE n > 0
    <3>1. q[1] \in Packet
      BY <2>2
    <3>2. q[1].from \in Nat
      BY <3>1 DEF Packet
    <3> QED
      BY <3>2, <1>1
  <2> QED
    BY <2>1, <2>2
<1> QED
  BY <1>1, <1>2, SMTT(30) DEF BatchBytes

(* What send_top_msg leaves behind when no request is outstanding: the      *)
(* queue, a batch at its front, and at most one request, for that batch.    *)
LEMMA SendTopMsgEffect ==
  ASSUME TypeOK, NEW c \in Conns, NEW q \in Seq(Packet), Ordered(q),
         SendTopMsg(c, q, 0, <<>>)
  PROVE  /\ sendPackets' \in [Conns -> Seq(Packet)]
         /\ sending' \in [Conns -> Nat]
         /\ requests' \in [Conns -> Nat]
         /\ pending' \in [Conns -> Seq(Nat)]
         /\ sendPackets'[c] = q
         /\ sending'[c] <= Len(q)
         /\ \/ /\ requests'[c] = 0
               /\ pending'[c] = <<>>
               /\ CanWrite(c) => BatchSize(q, sending'[c]) = 0
            \/ /\ requests'[c] = 1
               /\ CanWrite(c)
               /\ sending'[c] > 0
               /\ Len(pending'[c]) = BatchSize(q, sending'[c])
               /\ \A j \in 1 .. Len(pending'[c]) : pending'[c][j] = q[1].from + j - 1
         /\ \A d \in Conns \ {c} : /\ sendPackets'[d] = sendPackets[d]
                                   /\ sending'[d] = sending[d]
                                   /\ requests'[d] = requests[d]
                                   /\ pending'[d] = pending[d]
<1> DEFINE n == BatchLen(q)
           bytes == BatchBytes(q, n)
           issued == BatchSize(q, n) > 0 /\ CanWrite(c)
<1>1. n \in Nat /\ n <= Len(q)
  BY BatchLenBound
<1>2. /\ BatchSize(q, n) \in Nat
      /\ bytes \in Seq(Nat)
      /\ Len(bytes) = BatchSize(q, n)
      /\ \A j \in 1 .. Len(bytes) : bytes[j] = q[1].from + j - 1
  BY <1>1, BatchBytesRange
<1>3. BatchSize(q, n) > 0 => n > 0
  BY <1>1 DEF BatchSize
<1>4. <<>> \o bytes = bytes
  BY <1>2
<1>5. /\ sendPackets' = [sendPackets EXCEPT ![c] = q]
      /\ sending' = [sending EXCEPT ![c] = n]
      /\ requests' = [requests EXCEPT ![c] = IF issued THEN 1 ELSE 0]
      /\ pending' = [pending EXCEPT ![c] = IF issued THEN bytes ELSE <<>>]
  BY <1>4 DEF SendTopMsg
<1> HIDE DEF n, bytes
<1>6. /\ sendPackets' \in [Conns -> Seq(Packet)]
      /\ sending' \in [Conns -> Nat]
      /\ requests' \in [Conns -> Nat]
      /\ pending' \in [Conns -> Seq(Nat)]
  BY <1>1, <1>2, <1>5 DEF TypeOK
<1>7. sendPackets'[c] = q /\ sending'[c] = n
  BY <1>5 DEF TypeOK
<1>8. CASE issued
  <2>1. requests'[c] = 1 /\ pending'[c] = bytes
    BY <1>8, <1>5 DEF TypeOK
  <2> QED
    BY <1>1, <1>2, <1>3, <1>5, <1>6, <1>7, <1>8, <2>1 DEF TypeOK
<1>9. CASE ~issued
  <2>1. requests'[c] = 0 /\ pending'[c] = <<>>
    BY <1>9, <1>5 DEF TypeOK
  <2>2. CanWrite(c) => BatchSize(q, n) = 0
    BY <1>2, <1>9
  <2> QED
    BY <1>1, <1>2, <1>5, <1>6, <1>7, <2>1, <2>2 DEF TypeOK
<1> QED
  BY <1>8, <1>9

-----------------------------------------------------------------------------
(* The invariant of one connection depends on nothing but its variables. *)
connVars(c) == <<handle[c], sendPackets[c], sending[c], requests[c], pending[c],
                 accepted[c], broken[c], offered[c], recycled[c]>>

CInv(c) == QueueInv(c) /\ RequestInv(c) /\ StreamInv(c)

LEMMA CInvFrame ==
  ASSUME NEW d \in Conns, CInv(d), connVars(d)' = connVars(d)
  PROVE  CInv(d)'
BY DEF CInv, QueueInv, RequestInv, StreamInv, connVars, Front, StreamEnd

(* A step that changes connection c alone need only preserve its invariant. *)
LEMMA OneConnection ==
  ASSUME IInv, NEW c \in Conns, TypeOK', CInv(c)',
         \A d \in Conns \ {c} : connVars(d)' = connVars(d)
  PROVE  IInv'
<1> SUFFICES ASSUME NEW d \in Conns PROVE CInv(d)'
  BY DEF IInv, CInv
<1>1. CASE d = c
  BY <1>1
<1>2. CASE d # c
  BY <1>2, CInvFrame DEF IInv, CInv
<1> QED
  BY <1>1, <1>2

(* Sending the batch at the front of queue q, when the kernel has taken the *)
(* stream up to q, makes the invariants of the request and of the stream.   *)
LEMMA BatchStarted ==
  ASSUME TypeOK, NEW c \in Conns, NEW q \in Seq(Packet), Ordered(q),
         SendTopMsg(c, q, 0, <<>>),
         UNCHANGED <<accepted, broken>>,
         handle'[c] = "open" => handle[c] = "open",
         handle[c] = "open" => handle'[c] = "open",
         \A i \in 1 .. Len(accepted[c]) : accepted[c][i] = i - 1,
         (handle[c] = "open" /\ ~broken[c]) =>
           Len(accepted[c]) = IF q = <<>> THEN StreamEnd(c)' ELSE q[1].from
  PROVE  RequestInv(c)' /\ StreamInv(c)'
<1> DEFINE n == sending'[c]
<1>1. /\ sendPackets'[c] = q
      /\ n \in Nat /\ n <= Len(q)
      /\ \/ /\ requests'[c] = 0
            /\ pending'[c] = <<>>
            /\ CanWrite(c) => BatchSize(q, n) = 0
         \/ /\ requests'[c] = 1
            /\ CanWrite(c)
            /\ n > 0
            /\ Len(pending'[c]) = BatchSize(q, n)
            /\ \A j \in 1 .. Len(pending'[c]) : pending'[c][j] = q[1].from + j - 1
  BY SendTopMsgEffect
<1> HIDE DEF n
<1>2. CASE requests'[c] = 0
  <2>1. pending'[c] = <<>> /\ (CanWrite(c) => BatchSize(q, n) = 0)
    BY <1>1, <1>2
  <2>2. RequestInv(c)'
    BY <1>1, <1>2, <2>1 DEF RequestInv, CanWrite, n, BatchSize
  <2>3. StreamInv(c)'
    BY <1>1, <1>2 DEF StreamInv, Front
  <2> QED
    BY <2>2, <2>3
<1>3. CASE requests'[c] = 1
  <2>1. /\ handle'[c] = "open"
        /\ n > 0
        /\ Len(pending'[c]) = BatchSize(q, n)
        /\ \A j \in 1 .. Len(pending'[c]) : pending'[c][j] = q[1].from + j - 1
    BY <1>1, <1>3 DEF CanWrite
  <2>2. q[1] \in Packet /\ q[n] \in Packet /\ q # <<>>
    BY <1>1, <2>1
  <2>3. q[1].from \in Nat /\ q[n].to \in Nat
    BY <2>2 DEF Packet
  <2>4. BatchSize(q, n) = q[n].to - q[1].from
    BY <2>1 DEF BatchSize
  <2>5. \A j \in 1 .. Len(pending'[c]) :
          q[1].from <= pending'[c][j] /\ pending'[c][j] < q[n].to
    BY <2>1, <2>3, <2>4, SMTT(30)
  <2>6. RequestInv(c)'
    BY <1>1, <1>3, <2>1, <2>5 DEF RequestInv, n
  <2>7. StreamInv(c)'
    <3>1. ~broken[c] => Len(accepted[c]) = q[1].from
      BY <2>1, <2>2
    <3> QED
      BY <1>1, <1>3, <2>1, <2>3, <2>4, <3>1 DEF StreamInv, n
  <2> QED
    BY <2>6, <2>7
<1> QED
  BY <1>1, <1>2, <1>3

LEMMA InitInv == Init => IInv
<1> SUFFICES ASSUME Init PROVE IInv
  OBVIOUS
<1>1. TypeOK
  <2>1. <<>> \in Seq(Packet) /\ <<>> \in Seq(Nat)
    OBVIOUS
  <2> QED
    BY <2>1 DEF Init, TypeOK
<1>2. ASSUME NEW c \in Conns PROVE CInv(c)
  BY <1>2 DEF Init, CInv, QueueInv, RequestInv, StreamInv, Front, StreamEnd, Ordered
<1> QED
  BY <1>1, <1>2 DEF IInv, CInv

(* the application's steps *)

LEMMA WriteInv ==
  ASSUME IInv, NEW c \in Conns, NEW size \in Sizes, Write(c, size)
  PROVE  IInv'
<1> DEFINE p == [from |-> StreamEnd(c), to |-> StreamEnd(c) + size]
           q == Append(sendPackets[c], p)
<1>1. TypeOK /\ CInv(c)
  BY DEF IInv, CInv
<1>2. size \in Nat /\ StreamEnd(c) \in Nat
  <2>1. size \in Nat
    BY SizesAssumption
  <2>2. CASE offered[c] = <<>>
    BY <2>1, <2>2 DEF StreamEnd
  <2>3. CASE offered[c] # <<>>
    <3>1. offered[c][Len(offered[c])] \in Packet
      BY <1>1, <2>3 DEF TypeOK
    <3> QED
      BY <2>1, <2>3, <3>1 DEF StreamEnd, Packet
  <2> QED
    BY <2>1, <2>2, <2>3
<1>3. p \in Packet /\ p.from = StreamEnd(c) /\ p.to = StreamEnd(c) + size
  BY <1>2 DEF Packet
<1>4. q \in Seq(Packet) /\ Len(q) = Len(sendPackets[c]) + 1
      /\ q[Len(sendPackets[c]) + 1] = p
      /\ \A i \in 1 .. Len(sendPackets[c]) : q[i] = sendPackets[c][i]
  BY <1>1, <1>3 DEF TypeOK
<1>5. offered' = [offered EXCEPT ![c] = Append(offered[c], p)]
      /\ handle[c] # "destroyed"
      /\ UNCHANGED <<handle, accepted, broken, recycled, aborted>>
  BY DEF Write
<1> HIDE DEF p, q
<1>6. /\ offered'[c] \in Seq(Packet)
      /\ Len(offered'[c]) = Len(offered[c]) + 1
      /\ offered'[c][Len(offered[c]) + 1] = p
      /\ \A i \in 1 .. Len(offered[c]) : offered'[c][i] = offered[c][i]
      /\ offered' \in [Conns -> Seq(Packet)]
      /\ \A d \in Conns \ {c} : offered'[d] = offered[d]
  BY <1>1, <1>3, <1>5 DEF TypeOK
<1>7. Ordered(offered'[c])
  <2>1. Len(offered[c]) > 0 => offered[c][Len(offered[c])].to = p.from
    BY <1>1, <1>3 DEF StreamEnd, TypeOK
  <2>2. p.from <= p.to
    BY <1>2, <1>3
  <2>3. offered[c] \in Seq(Packet) /\ Ordered(offered[c])
    BY <1>1 DEF TypeOK, CInv, QueueInv
  <2>4. Ordered(Append(offered[c], p))
    BY <1>3, <2>1, <2>2, <2>3, OrderedAppend
  <2> QED
    BY <1>1, <1>5, <2>4 DEF TypeOK
<1> DEFINE r == Len(recycled[c])
           m == Len(sendPackets[c])
           k == Len(offered[c])
<1>8. /\ r \in Nat /\ m \in Nat /\ k \in Nat /\ r + m = k
      /\ \A i \in 1 .. m : sendPackets[c][i] = offered[c][r + i]
      /\ Len(q) = m + 1 /\ Len(offered'[c]) = k + 1
      /\ q[m + 1] = p /\ offered'[c][k + 1] = p
      /\ \A i \in 1 .. m : q[i] = sendPackets[c][i]
      /\ \A i \in 1 .. k : offered'[c][i] = offered[c][i]
  <2>1. QueueInv(c)
    BY <1>1 DEF CInv
  <2>2. r \in Nat /\ m \in Nat /\ k \in Nat
    BY <1>1 DEF TypeOK
  <2>3. r + m = k
    BY <2>1 DEF QueueInv
  <2>4. \A i \in 1 .. m : sendPackets[c][i] = offered[c][r + i]
    BY <2>1 DEF QueueInv
  <2>5. Len(q) = m + 1 /\ q[m + 1] = p /\ \A i \in 1 .. m : q[i] = sendPackets[c][i]
    BY <1>4
  <2>6. /\ Len(offered'[c]) = k + 1 /\ offered'[c][k + 1] = p
        /\ \A i \in 1 .. k : offered'[c][i] = offered[c][i]
    BY <1>6
  <2> QED
    BY <2>2, <2>3, <2>4, <2>5, <2>6
<1> HIDE DEF r, m, k
<1>9. \A i \in 1 .. Len(q) : q[i] = offered'[c][r + i]
  <2> SUFFICES ASSUME NEW i \in 1 .. m + 1 PROVE q[i] = offered'[c][r + i]
    BY <1>8
  <2>1. CASE i = m + 1
    <3>1. r + i = k + 1
      BY <2>1, <1>8
    <3> QED
      BY <2>1, <3>1, <1>8
  <2>2. CASE i # m + 1
    <3>1. i \in 1 .. m /\ r + i \in 1 .. k
      BY <2>2, <1>8
    <3> QED
      BY <3>1, <1>8
  <2> QED
    BY <2>1, <2>2
<1>10. Ordered(q)
  <2>1. Len(q) + r = Len(offered'[c])
    BY <1>8
  <2> QED
    BY <2>1, <1>4, <1>6, <1>7, <1>8, <1>9, OrderedSuffix
<1>11. handle'[c] = handle[c] /\ recycled'[c] = recycled[c]
       /\ accepted'[c] = accepted[c] /\ broken'[c] = broken[c]
  BY <1>5
<1>12. /\ \A d \in Conns \ {c} : /\ sendPackets'[d] = sendPackets[d]
                                 /\ sending'[d] = sending[d]
                                 /\ requests'[d] = requests[d]
                                 /\ pending'[d] = pending[d]
       /\ TypeOK'
       /\ sendPackets'[c] = q /\ sending'[c] <= m + 1
       /\ RequestInv(c)' /\ StreamInv(c)'
  <2>1. CASE IsSending(c)
    <3>1. sendPackets' = [sendPackets EXCEPT ![c] = q] /\ UNCHANGED <<sending, requests, pending>>
      BY <2>1 DEF Write, p, q
    <3>2. TypeOK'
      BY <1>1, <1>4, <1>5, <1>6, <3>1 DEF TypeOK
    <3>3. sending[c] \in 1 .. m
      BY <1>1, <1>8, <2>1 DEF IsSending, TypeOK, CInv, QueueInv, m
    <3>4. q[1] = sendPackets[c][1] /\ q[sending[c]] = sendPackets[c][sending[c]]
      BY <3>3, <1>8
    <3>5. BatchSize(q, sending[c]) = BatchSize(sendPackets[c], sending[c])
      BY <3>4 DEF BatchSize
    <3>6. sendPackets'[c] = q
      BY <1>1, <3>1 DEF TypeOK
    <3>7. sendPackets[c] # <<>> /\ q # <<>>
      BY <1>8, <3>3 DEF m
    <3>8. RequestInv(c)'
      BY <1>1, <1>11, <3>1, <3>3, <3>4, <3>5, <3>6 DEF CInv, RequestInv
    <3>9. StreamInv(c)'
      BY <1>1, <1>11, <3>1, <3>4, <3>6, <3>7 DEF CInv, StreamInv, Front
    <3> QED
      <4>1. sending'[c] <= m + 1
        BY <1>8, <3>1, <3>3
      <4>2. \A d \in Conns \ {c} : sendPackets'[d] = sendPackets[d]
        BY <1>1, <3>1 DEF TypeOK
      <4> QED
        BY <3>1, <3>2, <3>6, <3>8, <3>9, <4>1, <4>2
  <2>2. CASE ~IsSending(c)
    <3>1. sending[c] = 0 /\ requests[c] = 0 /\ pending[c] = <<>>
      BY <1>1, <2>2 DEF IsSending, TypeOK, CInv, RequestInv
    <3>2. SendTopMsg(c, q, 0, <<>>)
      BY <2>2, <3>1 DEF Write, p, q
    <3>3. (handle[c] = "open" /\ ~broken[c]) =>
            Len(accepted[c]) = IF q = <<>> THEN StreamEnd(c)' ELSE q[1].from
      <4>1. (handle[c] = "open" /\ ~broken[c]) => Len(accepted[c]) = Front(c)
        BY <1>1, <3>1 DEF CInv, StreamInv
      <4>2. q # <<>>
        BY <1>4, <1>8
      <4>3. CASE m = 0
        <5>1. sendPackets[c] = <<>>
          BY <1>1, <4>3 DEF TypeOK, m
        <5>2. q[1] = p
          BY <4>3, <1>8
        <5> QED
          BY <1>3, <4>1, <4>2, <5>1, <5>2 DEF Front
      <4>4. CASE m > 0
        <5>1. sendPackets[c] # <<>>
          BY <4>4 DEF m
        <5>2. q[1] = sendPackets[c][1]
          BY <4>4, <1>8
        <5> QED
          BY <4>1, <4>2, <5>1, <5>2 DEF Front
      <4> QED
        BY <1>8, <4>3, <4>4
    <3>4. RequestInv(c)' /\ StreamInv(c)'
      <4>1. \A i \in 1 .. Len(accepted[c]) : accepted[c][i] = i - 1
        BY <1>1 DEF CInv, StreamInv
      <4> QED
        BY <1>1, <1>4, <1>5, <1>10, <3>2, <3>3, <4>1, BatchStarted
    <3>5. /\ sendPackets' \in [Conns -> Seq(Packet)]
          /\ sending' \in [Conns -> Nat]
          /\ requests' \in [Conns -> Nat]
          /\ pending' \in [Conns -> Seq(Nat)]
          /\ sendPackets'[c] = q
          /\ sending'[c] <= Len(q)
          /\ \A d \in Conns \ {c} : /\ sendPackets'[d] = sendPackets[d]
                                    /\ sending'[d] = sending[d]
                                    /\ requests'[d] = requests[d]
                                    /\ pending'[d] = pending[d]
      BY <1>1, <1>4, <1>10, <3>2, SendTopMsgEffect
    <3>6. TypeOK'
      BY <1>1, <1>5, <1>6, <3>5 DEF TypeOK
    <3> QED
      BY <1>8, <3>4, <3>5, <3>6
  <2> QED
    BY <2>1, <2>2
<1>13. QueueInv(c)'
  <2>1. Len(offered'[c]) > 0 => offered'[c][1].from = 0
    <3>1. CASE k = 0
      <4>1. StreamEnd(c) = 0
        BY <1>1, <3>1 DEF StreamEnd, TypeOK, k
      <4> QED
        BY <3>1, <4>1, <1>3, <1>8
    <3>2. CASE k > 0
      <4>1. offered[c][1].from = 0
        BY <1>1, <3>2 DEF CInv, QueueInv, k
      <4> QED
        BY <3>2, <4>1, <1>8
    <3> QED
      BY <3>1, <3>2, <1>8
  <2>2. \A i \in 1 .. r : recycled[c][i] = offered'[c][i]
    <3>1. \A i \in 1 .. r : recycled[c][i] = offered[c][i]
      BY <1>1 DEF CInv, QueueInv, r
    <3>2. \A i \in 1 .. r : i \in 1 .. k
      BY <1>8
    <3> QED
      BY <3>1, <3>2, <1>8
  <2>3. Len(recycled'[c]) = r
    BY <1>11 DEF r
  <2>4. Len(recycled'[c]) + Len(sendPackets'[c]) = Len(offered'[c])
        /\ sending'[c] <= Len(sendPackets'[c])
    BY <1>8, <1>12, <2>3
  <2>5. \A i \in 1 .. Len(sendPackets'[c]) :
          sendPackets'[c][i] = offered'[c][Len(recycled'[c]) + i]
    BY <1>9, <1>12, <2>3
  <2>6. \A i \in 1 .. Len(recycled'[c]) : recycled'[c][i] = offered'[c][i]
    BY <1>11, <2>2, <2>3
  <2>7. handle'[c] # "destroyed"
    BY <1>5
  <2> QED
    BY <1>7, <2>1, <2>4, <2>5, <2>6, <2>7 DEF QueueInv
<1>14. CInv(c)'
  BY <1>12, <1>13 DEF CInv
<1>15. \A d \in Conns \ {c} : connVars(d)' = connVars(d)
  BY <1>5, <1>6, <1>12 DEF connVars
<1> QED
  BY <1>12, <1>14, <1>15, OneConnection

(* Popping a batch that has been written (or cancelled by the close) and    *)
(* sending the next one.                                                    *)
LEMMA CompleteInv ==
  ASSUME IInv, NEW c \in Conns, requests[c] > 0, OnWriteComplete(c),
         \/ handle[c] = "open" /\ pending[c] = <<>> /\ handle' = handle
         \/ handle[c] = "closing" /\ handle' = [handle EXCEPT ![c] = "onclose"],
         UNCHANGED <<accepted, broken, offered, aborted>>
  PROVE  IInv'
<1> DEFINE r == Len(recycled[c])
           m == Len(sendPackets[c])
           k == Len(offered[c])
           n == sending[c]
           q == SubSeq(sendPackets[c], n + 1, m)
           done == SubSeq(sendPackets[c], 1, n)
<1>1. TypeOK /\ CInv(c)
  BY DEF IInv, CInv
<1>2. requests[c] = 1
  BY <1>1 DEF CInv, RequestInv
<1>3. /\ r \in Nat /\ m \in Nat /\ k \in Nat /\ n \in 1 .. m /\ r + m = k
      /\ \A i \in 1 .. m : sendPackets[c][i] = offered[c][r + i]
      /\ \A i \in 1 .. r : recycled[c][i] = offered[c][i]
  BY <1>1, <1>2 DEF CInv, QueueInv, RequestInv, TypeOK
<1>4. /\ q \in Seq(Packet) /\ Len(q) = m - n
      /\ \A i \in 1 .. m - n : q[i] = sendPackets[c][n + i]
  BY <1>1, <1>3, SMTT(30) DEF TypeOK
<1>5. /\ done \in Seq(Packet) /\ Len(done) = n
      /\ \A i \in 1 .. n : done[i] = sendPackets[c][i]
  BY <1>1, <1>3, SMTT(30) DEF TypeOK
<1>6. /\ recycled' = [recycled EXCEPT ![c] = recycled[c] \o done]
      /\ SendTopMsg(c, q, 0, <<>>)
  BY <1>2 DEF OnWriteComplete
<1>7. recycled[c] \in Seq(Packet) /\ offered[c] \in Seq(Packet) /\ Ordered(offered[c])
  BY <1>1 DEF TypeOK, CInv, QueueInv
<1>8. /\ recycled'[c] = recycled[c] \o done
      /\ recycled' \in [Conns -> Seq(Packet)]
      /\ \A d \in Conns \ {c} : recycled'[d] = recycled[d]
  BY <1>1, <1>5, <1>6, <1>7, SMTT(30) DEF TypeOK
<1> HIDE DEF q, done
<1>9. /\ Len(recycled'[c]) = r + n
      /\ \A i \in 1 .. r : recycled'[c][i] = recycled[c][i]
      /\ \A i \in 1 .. n : recycled'[c][r + i] = done[i]
  <2>1. /\ Len(recycled[c] \o done) = Len(recycled[c]) + Len(done)
        /\ \A i \in 1 .. Len(recycled[c]) : (recycled[c] \o done)[i] = recycled[c][i]
        /\ \A i \in 1 .. Len(done) : (recycled[c] \o done)[Len(recycled[c]) + i] = done[i]
    BY <1>5, <1>7, ConcatSeqs
  <2> QED
    BY <2>1, <1>5, <1>8
<1> HIDE DEF r, m, k, n
<1>10. \A i \in 1 .. m - n : q[i] = offered[c][(r + n) + i]
  <2> SUFFICES ASSUME NEW i \in 1 .. m - n PROVE q[i] = offered[c][(r + n) + i]
    OBVIOUS
  <2>1. n + i \in 1 .. m /\ r + (n + i) = (r + n) + i
    BY <1>3
  <2> QED
    BY <2>1, <1>3, <1>4
<1>11. \A i \in 1 .. r + n : recycled'[c][i] = offered[c][i]
  <2> SUFFICES ASSUME NEW i \in 1 .. r + n PROVE recycled'[c][i] = offered[c][i]
    OBVIOUS
  <2>1. CASE i <= r
    BY <2>1, <1>3, <1>9
  <2>2. CASE i > r
    <3> DEFINE j == i - r
    <3>1. j \in 1 .. n /\ j \in 1 .. m /\ i = r + j
      BY <2>2, <1>3
    <3> HIDE DEF j
    <3> QED
      BY <3>1, <1>3, <1>5, <1>9
  <2> QED
    BY <2>1, <2>2, <1>3
<1>12. Ordered(q)
  <2>1. r + n \in Nat /\ Len(q) + (r + n) = k /\ Len(q) = m - n
    BY <1>3, <1>4
  <2>2. k = Len(offered[c])
    BY DEF k
  <2>3. Len(q) + (r + n) = Len(offered[c])
    BY <2>1, <2>2
  <2>4. \A i \in 1 .. Len(q) : q[i] = offered[c][(r + n) + i]
    BY <2>1, <1>10
  <2>5. q \in Seq(Packet)
    BY <1>4
  <2> QED
    BY <2>1, <2>3, <2>4, <2>5, <1>7, OrderedSuffix
<1>13. (handle[c] = "open" /\ ~broken[c]) =>
          Len(accepted[c]) = IF q = <<>> THEN StreamEnd(c)' ELSE q[1].from
  <2> SUFFICES ASSUME handle[c] = "open", ~broken[c]
               PROVE  Len(accepted[c]) = IF q = <<>> THEN StreamEnd(c)' ELSE q[1].from
    OBVIOUS
  <2>1. pending[c] = <<>>
    OBVIOUS
  <2>2. Len(accepted[c]) \in Nat /\ Len(accepted[c]) = sendPackets[c][n].to
    BY <1>1, <1>2, <2>1 DEF CInv, StreamInv, TypeOK, n
  <2>3. sendPackets[c][n] = offered[c][r + n] /\ r + n \in 1 .. k
    BY <1>3
  <2>4. CASE q = <<>>
    <3>1. n = m
      BY <2>4, <1>3, <1>4
    <3>2. offered[c] # <<>> /\ r + n = k
      BY <1>3, <3>1 DEF k
    <3> QED
      BY <2>2, <2>3, <2>4, <3>2 DEF StreamEnd, k
  <2>5. CASE q # <<>>
    <3>1. 1 \in 1 .. m - n
      BY <2>5, <1>3, <1>4
    <3>2. q[1] = offered[c][(r + n) + 1] /\ (r + n) + 1 <= k
      BY <3>1, <1>3, <1>10
    <3>3. offered[c][(r + n) + 1].from = offered[c][r + n].to
      BY <1>7, <2>3, <3>2 DEF Ordered, k
    <3> QED
      BY <2>2, <2>3, <2>5, <3>2, <3>3
  <2> QED
    BY <2>4, <2>5
<1>14. RequestInv(c)' /\ StreamInv(c)'
  <2>1. \A i \in 1 .. Len(accepted[c]) : accepted[c][i] = i - 1
    BY <1>1 DEF CInv, StreamInv
  <2>2. (handle'[c] = "open" => handle[c] = "open")
        /\ (handle[c] = "open" => handle'[c] = "open")
    BY <1>1 DEF TypeOK
  <2> QED
    BY <1>1, <1>4, <1>6, <1>12, <1>13, <2>1, <2>2, BatchStarted
<1>15. /\ sendPackets' \in [Conns -> Seq(Packet)]
       /\ sending' \in [Conns -> Nat]
       /\ requests' \in [Conns -> Nat]
       /\ pending' \in [Conns -> Seq(Nat)]
       /\ sendPackets'[c] = q
       /\ sending'[c] <= Len(q)
       /\ \A d \in Conns \ {c} : /\ sendPackets'[d] = sendPackets[d]
                                 /\ sending'[d] = sending[d]
                                 /\ requests'[d] = requests[d]
                                 /\ pending'[d] = pending[d]
  BY <1>1, <1>4, <1>6, <1>12, SendTopMsgEffect
<1>16. TypeOK'
  BY <1>1, <1>8, <1>15 DEF TypeOK
<1>17. QueueInv(c)'
  <2>1. handle'[c] # "destroyed"
    BY <1>1 DEF TypeOK
  <2>2. Len(offered[c]) > 0 => offered[c][1].from = 0
    BY <1>1 DEF CInv, QueueInv
  <2>3. Len(sendPackets'[c]) = m - n /\ Len(recycled'[c]) = r + n
    BY <1>4, <1>9, <1>15
  <2>4. (r + n) + (m - n) = k
    BY <1>3
  <2> QED
    BY <1>7, <1>10, <1>11, <1>15, <2>1, <2>2, <2>3, <2>4 DEF QueueInv, k
<1>18. CInv(c)'
  BY <1>14, <1>17 DEF CInv
<1>19. \A d \in Conns \ {c} : connVars(d)' = connVars(d)
  BY <1>1, <1>8, <1>15 DEF connVars, TypeOK
<1> QED
  BY <1>16, <1>18, <1>19, OneConnection

LEMMA CloseInv ==
  ASSUME IInv, NEW c \in Conns, Close(c) \/ EchoReadEnd(c)
  PROVE  IInv'
<1>1. TypeOK /\ CInv(c)
  BY DEF IInv, CInv
<1>2. /\ \/ handle' = handle
         \/ handle[c] = "open" /\ handle' = [handle EXCEPT ![c] = "closing"]
      /\ aborted' \in BOOLEAN
      /\ UNCHANGED <<sendPackets, sending, requests, pending, accepted, broken,
                     offered, recycled>>
  BY <1>1 DEF Close, EchoReadEnd, TypeOK
<1>3. TypeOK'
  BY <1>1, <1>2 DEF TypeOK
<1>4. CInv(c)'
  BY <1>1, <1>2 DEF TypeOK, CInv, QueueInv, RequestInv, StreamInv, Front, StreamEnd
<1>5. \A d \in Conns \ {c} : connVars(d)' = connVars(d)
  BY <1>1, <1>2 DEF TypeOK, connVars
<1> QED
  BY <1>3, <1>4, <1>5, OneConnection

LEMMA KernelWriteInv ==
  ASSUME IInv, NEW c \in Conns, NEW k \in 1 .. Len(pending[c]), KernelWrite(c, k)
  PROVE  IInv'
<1> DEFINE a == Len(accepted[c])
           b == Len(pending[c])
           now == SubSeq(pending[c], 1, k)
           rest == SubSeq(pending[c], k + 1, b)
<1>1. TypeOK /\ CInv(c)
  BY DEF IInv, CInv
<1>2. /\ handle[c] = "open" /\ ~broken[c]
      /\ accepted' = [accepted EXCEPT ![c] = accepted[c] \o now]
      /\ pending' = [pending EXCEPT ![c] = rest]
      /\ UNCHANGED <<handle, sendPackets, sending, requests, broken, offered,
                     recycled, aborted>>
  BY DEF KernelWrite
<1>3. a \in Nat /\ b \in Nat /\ k \in 1 .. b /\ pending[c] \in Seq(Nat)
      /\ accepted[c] \in Seq(Nat)
  BY <1>1 DEF TypeOK
<1>4. /\ now \in Seq(Nat) /\ Len(now) = k
      /\ \A i \in 1 .. k : now[i] = pending[c][i]
  BY <1>3
<1>5. /\ rest \in Seq(Nat) /\ Len(rest) = b - k
      /\ \A i \in 1 .. b - k : rest[i] = pending[c][k + i]
  BY <1>3
<1> HIDE DEF now, rest
<1>6. /\ accepted[c] \o now \in Seq(Nat) /\ Len(accepted[c] \o now) = a + k
      /\ \A i \in 1 .. a : (accepted[c] \o now)[i] = accepted[c][i]
      /\ \A i \in 1 .. k : (accepted[c] \o now)[a + i] = now[i]
  <2>1. /\ accepted[c] \o now \in Seq(Nat)
        /\ Len(accepted[c] \o now) = Len(accepted[c]) + Len(now)
        /\ \A i \in 1 .. Len(accepted[c]) : (accepted[c] \o now)[i] = accepted[c][i]
        /\ \A i \in 1 .. Len(now) : (accepted[c] \o now)[Len(accepted[c]) + i] = now[i]
    BY <1>3, <1>4, ConcatSeqs
  <2> QED
    BY <2>1, <1>4
<1>7. accepted'[c] = accepted[c] \o now /\ pending'[c] = rest
  BY <1>1, <1>2 DEF TypeOK
<1>8. TypeOK'
  BY <1>1, <1>2, <1>5, <1>6 DEF TypeOK
<1>9. requests[c] = 1
  BY <1>1, <1>3 DEF CInv, RequestInv
<1>10. /\ \A j \in 1 .. b : pending[c][j] = a + j - 1
       /\ a + b = sendPackets[c][sending[c]].to
       /\ \A i \in 1 .. a : accepted[c][i] = i - 1
       /\ \A j \in 1 .. b : /\ sendPackets[c][1].from <= pending[c][j]
                           /\ pending[c][j] < sendPackets[c][sending[c]].to
  <2>1. RequestInv(c) /\ StreamInv(c)
    BY <1>1 DEF CInv
  <2>2. \A j \in 1 .. b : /\ sendPackets[c][1].from <= pending[c][j]
                          /\ pending[c][j] < sendPackets[c][sending[c]].to
    BY <2>1 DEF RequestInv
  <2>3. ~(requests[c] = 0)
    BY <1>9
  <2> QED
    BY <1>2, <2>1, <2>2, <2>3 DEF StreamInv
<1> HIDE DEF a, b
<1>11. \A i \in 1 .. a + k : accepted'[c][i] = i - 1
  <2> SUFFICES ASSUME NEW i \in 1 .. a + k PROVE accepted'[c][i] = i - 1
    OBVIOUS
  <2>1. CASE i <= a
    BY <2>1, <1>3, <1>6, <1>7, <1>10
  <2>2. CASE i > a
    <3> DEFINE j == i - a
    <3>1. j \in 1 .. k /\ j \in 1 .. b /\ i = a + j
      BY <2>2, <1>3
    <3> HIDE DEF j
    <3>2. accepted'[c][i] = a + j - 1
      BY <3>1, <1>4, <1>6, <1>7, <1>10
    <3> QED
      BY <3>1, <3>2, <1>3
  <2> QED
    BY <2>1, <2>2, <1>3
<1>12. \A i \in 1 .. b - k : rest[i] = (a + k) + i - 1 /\ k + i \in 1 .. b
                          /\ rest[i] = pending[c][k + i]
  <2> SUFFICES ASSUME NEW i \in 1 .. b - k
               PROVE  rest[i] = (a + k) + i - 1 /\ k + i \in 1 .. b
                      /\ rest[i] = pending[c][k + i]
    OBVIOUS
  <2>1. k + i \in 1 .. b
    BY <1>3
  <2>2. rest[i] = pending[c][k + i] /\ pending[c][k + i] = a + (k + i) - 1
    BY <2>1, <1>5, <1>10
  <2> QED
    BY <2>1, <2>2, <1>3
<1>13. StreamInv(c)'
  <2>1. Len(accepted'[c]) = a + k /\ Len(pending'[c]) = b - k
    BY <1>5, <1>6, <1>7
  <2>2. (a + k) + (b - k) = sendPackets[c][sending[c]].to
    BY <1>3, <1>10
  <2>3. requests'[c] = 1 /\ sendPackets' = sendPackets /\ sending' = sending
    BY <1>2, <1>9
  <2>4. \A j \in 1 .. Len(pending'[c]) : pending'[c][j] = Len(accepted'[c]) + j - 1
    BY <1>7, <1>12, <2>1
  <2>5. \A i \in 1 .. Len(accepted'[c]) : accepted'[c][i] = i - 1
    BY <1>11, <2>1
  <2> QED
    BY <2>1, <2>2, <2>3, <2>4, <2>5 DEF StreamInv
<1>14. RequestInv(c)'
  <2>1. \A j \in 1 .. Len(pending'[c]) :
          /\ sendPackets[c][1].from <= pending'[c][j]
          /\ pending'[c][j] < sendPackets[c][sending[c]].to
    BY <1>5, <1>7, <1>10, <1>12
  <2> QED
    BY <1>1, <1>2, <1>9, <2>1 DEF RequestInv, CInv
<1>15. CInv(c)'
  BY <1>1, <1>2, <1>13, <1>14 DEF CInv, QueueInv
<1>16. \A d \in Conns \ {c} : connVars(d)' = connVars(d)
  BY <1>1, <1>2 DEF TypeOK, connVars
<1> QED
  BY <1>8, <1>15, <1>16, OneConnection

LEMMA KernelFailInv ==
  ASSUME IInv, NEW c \in Conns, KernelFail(c)
  PROVE  IInv'
<1>1. TypeOK /\ CInv(c)
  BY DEF IInv, CInv
<1>2. TypeOK'
  BY <1>1 DEF KernelFail, TypeOK
<1>3. CInv(c)'
  BY <1>1 DEF KernelFail, TypeOK, CInv, QueueInv, RequestInv, StreamInv
<1>4. \A d \in Conns \ {c} : connVars(d)' = connVars(d)
  BY <1>1 DEF KernelFail, TypeOK, connVars
<1> QED
  BY <1>2, <1>3, <1>4, OneConnection

LEMMA OnUvCloseInv ==
  ASSUME IInv, NEW c \in Conns, OnUvClose(c)
  PROVE  IInv'
<1>1. TypeOK /\ CInv(c)
  BY DEF IInv, CInv
<1>2. CASE requests[c] > 0
  BY <1>2, CompleteInv DEF OnUvClose
<1>3. CASE ~(requests[c] > 0)
  <2>1. requests[c] = 0
    BY <1>1, <1>3 DEF TypeOK
  <2>2. TypeOK'
    BY <1>1, <1>3 DEF OnUvClose, TypeOK
  <2>3. CInv(c)'
    BY <1>1, <1>3, <2>1 DEF OnUvClose, TypeOK, CInv, QueueInv, RequestInv, StreamInv
  <2>4. \A d \in Conns \ {c} : connVars(d)' = connVars(d)
    BY <1>1, <1>3 DEF OnUvClose, TypeOK, connVars
  <2> QED
    BY <2>2, <2>3, <2>4, OneConnection
<1> QED
  BY <1>2, <1>3

LEMMA DestroyInv ==
  ASSUME IInv, NEW c \in Conns, Destroy(c)
  PROVE  IInv'
<1> DEFINE r == Len(recycled[c])
           m == Len(sendPackets[c])
           k == Len(offered[c])
<1>1. TypeOK /\ CInv(c)
  BY DEF IInv, CInv
<1>2. /\ recycled[c] \in Seq(Packet) /\ sendPackets[c] \in Seq(Packet)
      /\ r \in Nat /\ m \in Nat /\ k \in Nat /\ r + m = k
      /\ \A i \in 1 .. m : sendPackets[c][i] = offered[c][r + i]
      /\ \A i \in 1 .. r : recycled[c][i] = offered[c][i]
  BY <1>1 DEF TypeOK, CInv, QueueInv
<1>3. recycled'[c] = recycled[c] \o sendPackets[c] /\ sendPackets'[c] = <<>>
      /\ sending'[c] = 0 /\ handle'[c] = "destroyed"
  BY <1>1 DEF Destroy, Release, TypeOK
<1>4. /\ Len(recycled'[c]) = r + m
      /\ \A i \in 1 .. r : recycled'[c][i] = recycled[c][i]
      /\ \A i \in 1 .. m : recycled'[c][r + i] = sendPackets[c][i]
  <2>1. /\ Len(recycled[c] \o sendPackets[c]) = r + m
        /\ \A i \in 1 .. r : (recycled[c] \o sendPackets[c])[i] = recycled[c][i]
        /\ \A i \in 1 .. m : (recycled[c] \o sendPackets[c])[r + i] = sendPackets[c][i]
    BY <1>2, ConcatSeqs
  <2> QED
    BY <2>1, <1>3
<1> HIDE DEF r, m, k
<1>5. \A i \in 1 .. r + m : recycled'[c][i] = offered[c][i]
  <2> SUFFICES ASSUME NEW i \in 1 .. r + m PROVE recycled'[c][i] = offered[c][i]
    OBVIOUS
  <2>1. CASE i <= r
    BY <2>1, <1>2, <1>4
  <2>2. CASE i > r
    <3> DEFINE j == i - r
    <3>1. j \in 1 .. m /\ i = r + j
      BY <2>2, <1>2
    <3> HIDE DEF j
    <3> QED
      BY <3>1, <1>2, <1>4
  <2> QED
    BY <2>1, <2>2, <1>2
<1>6. TypeOK'
  <2>1. recycled[c] \o sendPackets[c] \in Seq(Packet)
    BY <1>2
  <2> QED
    BY <1>1, <2>1, SMTT(30) DEF Destroy, Release, TypeOK
<1>7. QueueInv(c)'
  <2>1. offered' = offered
    BY DEF Destroy
  <2>2. Len(recycled'[c]) + Len(sendPackets'[c]) = Len(offered[c])
    BY <1>2, <1>3, <1>4 DEF k
  <2>3. \A i \in 1 .. Len(recycled'[c]) : recycled'[c][i] = offered[c][i]
    BY <1>4, <1>5
  <2>4. Ordered(offered[c]) /\ (Len(offered[c]) > 0 => offered[c][1].from = 0)
    BY <1>1 DEF CInv, QueueInv
  <2> QED
    <3>1. Len(sendPackets'[c]) = 0 /\ sending'[c] <= Len(sendPackets'[c])
      BY <1>3
    <3>2. \A i \in 1 .. Len(sendPackets'[c]) :
            sendPackets'[c][i] = offered'[c][Len(recycled'[c]) + i]
      BY <3>1
    <3> QED
      BY <1>3, <2>1, <2>2, <2>3, <2>4, <3>1, <3>2 DEF QueueInv
<1>8. RequestInv(c)' /\ StreamInv(c)'
  <2>1. requests[c] = 0 /\ pending[c] = <<>>
    BY <1>1 DEF Destroy, CInv, RequestInv
  <2>2. UNCHANGED <<requests, pending, accepted, broken>>
    BY DEF Destroy
  <2>3. RequestInv(c)'
    BY <1>3, <2>1, <2>2 DEF RequestInv
  <2>4. StreamInv(c)'
    BY <1>1, <1>3, <2>2 DEF CInv, StreamInv
  <2> QED
    BY <2>3, <2>4
<1>9. CInv(c)'
  BY <1>7, <1>8 DEF CInv
<1>10. \A d \in Conns \ {c} : connVars(d)' = connVars(d)
  BY <1>1 DEF Destroy, Release, TypeOK, connVars
<1> QED
  BY <1>6, <1>9, <1>10, OneConnection

-----------------------------------------------------------------------------
LEMMA NextInv == IInv /\ [Next]_vars => IInv'
<1> SUFFICES ASSUME IInv, [Next]_vars PROVE IInv'
  OBVIOUS
<1>1. ASSUME NEW c \in Conns, NEW size \in Sizes, Write(c, size) PROVE IInv'
  BY <1>1, WriteInv
<1>2. ASSUME NEW c \in Conns, Close(c) \/ EchoReadEnd(c) PROVE IInv'
  BY <1>2, CloseInv
<1>3. ASSUME NEW c \in Conns, NEW k \in 1 .. Len(pending[c]), KernelWrite(c, k) PROVE IInv'
  BY <1>3, KernelWriteInv
<1>4. ASSUME NEW c \in Conns, KernelFail(c) PROVE IInv'
  BY <1>4, KernelFailInv
<1>5. ASSUME NEW c \in Conns, EchoWrite(c) PROVE IInv'
  BY <1>5, CompleteInv DEF EchoWrite
<1>6. ASSUME NEW c \in Conns, OnUvClose(c) PROVE IInv'
  BY <1>6, OnUvCloseInv
<1>7. ASSUME NEW c \in Conns, Destroy(c) PROVE IInv'
  BY <1>7, DestroyInv
<1>8. CASE UNCHANGED vars
  <2>1. TypeOK'
    BY <1>8 DEF vars, IInv, TypeOK
  <2>2. ASSUME NEW c \in Conns PROVE CInv(c)'
    BY <1>8, CInvFrame DEF vars, connVars, IInv, CInv
  <2> QED
    BY <2>1, <2>2 DEF IInv, CInv
<1> QED
  BY <1>1, <1>2, <1>3, <1>4, <1>5, <1>6, <1>7, <1>8 DEF Next, AppStep, LoopStep

LEMMA Invariance == Spec => []IInv
BY InitInv, NextInv, PTL DEF Spec

(* Every state of the program has the types of the model. *)
THEOREM TypeCorrect == Spec => []TypeOK
<1>1. IInv => TypeOK
  BY DEF IInv
<1> QED
  BY <1>1, Invariance, PTL

(* m_write_t carries at most one uv_write at a time. *)
THEOREM OneRequestAlways == Spec => []OneRequest
<1>1. IInv => OneRequest
  BY DEF IInv, RequestInv, OneRequest
<1> QED
  BY <1>1, Invariance, PTL

(* No packet is recycled while libuv still has bytes of it to write. *)
THEOREM BatchPinnedAlways == Spec => []BatchPinned
<1>1. ASSUME IInv, NEW c \in Conns, pending[c] # <<>>
      PROVE  sending[c] \in 1 .. Len(sendPackets[c])
  <2>1. TypeOK /\ CInv(c)
    BY <1>1 DEF IInv, CInv
  <2>2. requests[c] = 1
    BY <1>1, <2>1 DEF CInv, RequestInv
  <2> QED
    BY <2>1, <2>2 DEF TypeOK, CInv, RequestInv, QueueInv
<1>2. IInv => BatchPinned
  BY <1>1 DEF IInv, RequestInv, BatchPinned
<1> QED
  BY <1>2, Invariance, PTL

(* The kernel is given the stream of packets in order and without a gap. *)
THEOREM StreamInOrderAlways == Spec => []StreamInOrder
<1>1. IInv => StreamInOrder
  BY DEF IInv, StreamInv, StreamInOrder
<1> QED
  BY <1>1, Invariance, PTL

(* Each packet written is queued or recycled, once; deletion leaves none. *)
THEOREM RecycledOnceAlways == Spec => []RecycledOnce
<1>1. ASSUME IInv, NEW c \in Conns
      PROVE  recycled[c] \o sendPackets[c] = offered[c]
  <2> DEFINE r == Len(recycled[c])
             m == Len(sendPackets[c])
             k == Len(offered[c])
             s == recycled[c] \o sendPackets[c]
  <2>1. TypeOK /\ QueueInv(c)
    BY <1>1 DEF IInv
  <2>2. /\ r \in Nat /\ m \in Nat /\ k \in Nat /\ r + m = k
        /\ \A i \in 1 .. m : sendPackets[c][i] = offered[c][r + i]
        /\ \A i \in 1 .. r : recycled[c][i] = offered[c][i]
        /\ offered[c] \in Seq(Packet)
    BY <2>1 DEF TypeOK, QueueInv
  <2>3. /\ s \in Seq(Packet) /\ Len(s) = r + m
        /\ \A i \in 1 .. r : s[i] = recycled[c][i]
        /\ \A i \in 1 .. m : s[r + i] = sendPackets[c][i]
    BY <2>1, ConcatSeqs DEF TypeOK
  <2>4. Len(offered[c]) = k
    OBVIOUS
  <2> HIDE DEF r, m, k, s
  <2>5. ASSUME NEW i \in 1 .. k PROVE s[i] = offered[c][i]
    <3>1. CASE i <= r
      BY <3>1, <2>2, <2>3
    <3>2. CASE i > r
      <4> DEFINE j == i - r
      <4>1. j \in 1 .. m /\ i = r + j
        BY <3>2, <2>2
      <4> HIDE DEF j
      <4> QED
        BY <4>1, <2>2, <2>3
    <3> QED
      BY <3>1, <3>2, <2>2
  <2>6. s = offered[c]
    BY <2>2, <2>3, <2>4, <2>5, SeqEqual
  <2> QED
    BY <2>6 DEF s
<1>2. IInv => RecycledOnce
  BY <1>1 DEF IInv, QueueInv, RecycledOnce
<1> QED
  BY <1>2, Invariance, PTL

(* A deleted connection has no request in libuv. *)
THEOREM NoRequestOutlivesAlways == Spec => []NoRequestOutlives
<1>1. IInv => NoRequestOutlives
  BY DEF IInv, RequestInv, NoRequestOutlives
<1> QED
  BY <1>1, Invariance, PTL

-----------------------------------------------------------------------------
(* What a batch contains.  Taken(q) is an initial segment of the queue, so  *)
(* the last packet of the batch was taken: before it, neither limit was     *)
(* reached.                                                                 *)
LEMMA BatchLimits ==
  ASSUME NEW q \in Seq(Packet), Ordered(q), q # <<>>
  PROVE  /\ BatchLen(q) \in 1 .. Len(q)
         /\ BatchLen(q) <= MaxSendPacket
         /\ BatchSize(q, BatchLen(q) - 1) < MaxSendByte
<1> DEFINE n == BatchLen(q)
<1>1. n \in Nat /\ n <= Len(q) /\ Len(q) \in Nat /\ Len(q) > 0
  BY BatchLenBound
<1>2. MaxSendPacket \in Nat /\ MaxSendPacket > 0 /\ MaxSendByte \in Nat /\ MaxSendByte > 0
  BY MaxSendPacketAssumption, MaxSendByteAssumption
<1>3. \A i \in 1 .. Len(q) : q[i].from \in Nat /\ q[i].to \in Nat
  <2>1. \A i \in 1 .. Len(q) : q[i] \in Packet
    OBVIOUS
  <2> QED
    BY <2>1 DEF Packet
<1>4. IsFiniteSet(Taken(q))
  <2>1. IsFiniteSet(1 .. Len(q))
    BY <1>1, FS_Interval
  <2> QED
    BY <2>1, FS_Subset DEF Taken
<1>5. n > 0
  <2>1. 1 \in Taken(q)
    BY <1>1, <1>2, <1>3 DEF Taken
  <2>2. Cardinality(Taken(q)) # 0
    BY <1>4, <2>1, FS_EmptySet
  <2> QED
    BY <1>1, <2>2 DEF BatchLen
<1>6. n <= MaxSendPacket
  <2>1. Taken(q) \in SUBSET (1 .. MaxSendPacket)
    BY <1>2 DEF Taken
  <2>2. IsFiniteSet(1 .. MaxSendPacket) /\ Cardinality(1 .. MaxSendPacket) = MaxSendPacket
    BY <1>2, FS_Interval
  <2>3. Cardinality(Taken(q)) <= Cardinality(1 .. MaxSendPacket)
    BY <2>1, <2>2, FS_Subset
  <2> QED
    BY <2>2, <2>3 DEF BatchLen
<1>7. n \in Taken(q)
  <2> SUFFICES ASSUME n \notin Taken(q) PROVE FALSE
    OBVIOUS
  <2>1. ASSUME NEW i \in Taken(q) PROVE i \in 1 .. n - 1
    <3>1. i \in 1 .. Len(q) /\ i - 1 < MaxSendPacket /\ q[i].from - q[1].from < MaxSendByte
      BY <2>1 DEF Taken
    <3>2. i # n
      BY <2>1
    <3>3. ~(n < i)
      <4> SUFFICES ASSUME n < i PROVE FALSE
        OBVIOUS
      <4>1. q[n].from <= q[n].to /\ q[n].to <= q[i].from /\ n \in 1 .. Len(q)
        BY <1>1, <1>5, <3>1 DEF Ordered
      <4>2. q[n].from - q[1].from < MaxSendByte /\ n - 1 < MaxSendPacket
        BY <1>1, <1>2, <1>3, <3>1, <4>1, SMTT(30)
      <4>3. n \in Taken(q)
        BY <4>1, <4>2 DEF Taken
      <4> QED
        BY <4>3
    <3> QED
      BY <1>1, <3>1, <3>2, <3>3
  <2>2. Taken(q) \in SUBSET (1 .. n - 1)
    BY <2>1
  <2>3. IsFiniteSet(1 .. n - 1) /\ Cardinality(1 .. n - 1) = n - 1
    <3>1. n - 1 \in Nat /\ (n - 1) - 1 + 1 = n - 1
      BY <1>1, <1>5
    <3> DEFINE k == n - 1
    <3>2. k \in Nat /\ k - 1 + 1 = k
      BY <3>1
    <3> HIDE DEF k
    <3>3. IsFiniteSet(1 .. k) /\ Cardinality(1 .. k) = k
      BY <3>2, FS_Interval
    <3> QED
      BY <3>3 DEF k
  <2>4. Cardinality(Taken(q)) <= Cardinality(1 .. n - 1)
    BY <2>2, <2>3, FS_Subset
  <2> QED
    BY <1>1, <2>3, <2>4 DEF BatchLen
<1>8. q[n].from - q[1].from < MaxSendByte
  BY <1>7 DEF Taken
<1> HIDE DEF n
<1>9. BatchSize(q, n - 1) < MaxSendByte
  <2>1. CASE n = 1
    BY <1>2, <2>1 DEF BatchSize
  <2>2. CASE n > 1
    <3>1. n - 1 \in 1 .. Len(q) /\ (n - 1) + 1 = n /\ n - 1 # 0
      BY <1>1, <2>2
    <3>2. q[n].from = q[n - 1].to
      BY <1>1, <3>1 DEF Ordered
    <3> QED
      BY <1>8, <3>1, <3>2 DEF BatchSize
  <2> QED
    BY <1>1, <1>5, <2>1, <2>2
<1> QED
  BY <1>1, <1>5, <1>6, <1>9 DEF n

(* the batch of a connection, and its packets' sizes *)
BatchInv(c) ==
  /\ sending[c] > 0 =>
       /\ sending[c] <= MaxSendPacket
       /\ BatchSize(sendPackets[c], sending[c] - 1) < MaxSendByte
  /\ (handle[c] = "open" /\ sendPackets[c] # <<>>) => sending[c] > 0
  /\ \A i \in 1 .. Len(offered[c]) : offered[c][i].to - offered[c][i].from \in Sizes

LEMMA QueueOrdered ==
  ASSUME TypeOK, NEW c \in Conns, QueueInv(c)
  PROVE  Ordered(sendPackets[c])
<1> DEFINE q == sendPackets[c]
           r == Len(recycled[c])
           o == offered[c]
<1>1. /\ o \in Seq(Packet) /\ Ordered(o) /\ q \in Seq(Packet)
      /\ r \in Nat /\ Len(q) \in Nat
      /\ r + Len(q) = Len(o)
      /\ \A i \in 1 .. Len(q) : q[i] = o[r + i]
  BY DEF QueueInv, TypeOK
<1> HIDE DEF q, r, o
<1>2. Len(q) + r = Len(o)
  BY <1>1
<1>3. Ordered(q)
  BY <1>1, <1>2, OrderedSuffix
<1> QED
  BY <1>3 DEF q

LEMMA QueueOrderedNext ==
  ASSUME TypeOK', NEW c \in Conns, QueueInv(c)'
  PROVE  Ordered(sendPackets'[c])
<1> DEFINE q == sendPackets'[c]
           r == Len(recycled'[c])
           o == offered'[c]
<1>1. /\ o \in Seq(Packet) /\ Ordered(o) /\ q \in Seq(Packet)
      /\ r \in Nat /\ Len(q) \in Nat
      /\ r + Len(q) = Len(o)
      /\ \A i \in 1 .. Len(q) : q[i] = o[r + i]
  BY DEF QueueInv, TypeOK
<1> HIDE DEF q, r, o
<1>2. Len(q) + r = Len(o)
  BY <1>1
<1>3. Ordered(q)
  BY <1>1, <1>2, OrderedSuffix
<1> QED
  BY <1>3 DEF q

LEMMA BatchOfQueue ==
  ASSUME IInv, NEW c \in Conns, NEW q \in Seq(Packet), Ordered(q), NEW r, NEW b,
         SendTopMsg(c, q, r, b)
  PROVE  /\ sending'[c] > 0 =>
              /\ sending'[c] <= MaxSendPacket
              /\ BatchSize(sendPackets'[c], sending'[c] - 1) < MaxSendByte
         /\ sendPackets'[c] # <<>> => sending'[c] > 0
         /\ \A d \in Conns \ {c} : sendPackets'[d] = sendPackets[d] /\ sending'[d] = sending[d]
<1>1. sendPackets'[c] = q /\ sending'[c] = BatchLen(q)
  BY DEF SendTopMsg, IInv, TypeOK
<1>2. \A d \in Conns \ {c} : sendPackets'[d] = sendPackets[d] /\ sending'[d] = sending[d]
  BY DEF SendTopMsg, IInv, TypeOK
<1>3. CASE q = <<>>
  <2>1. BatchLen(q) = 0
    <3>1. BatchLen(q) \in Nat /\ BatchLen(q) <= Len(q)
      BY BatchLenBound
    <3> QED
      BY <1>3, <3>1
  <2> QED
    BY <1>1, <1>2, <1>3, <2>1
<1>4. CASE q # <<>>
  BY <1>1, <1>2, <1>4, BatchLimits
<1> QED
  BY <1>3, <1>4

LEMMA InitBatchInv == Init => \A c \in Conns : BatchInv(c)
BY DEF Init, BatchInv

(* A packet written behind the queue leaves the batch at its front alone. *)
LEMMA WriteBatchInv ==
  ASSUME IInv, NEW c \in Conns, BatchInv(c), NEW size \in Sizes, Write(c, size)
  PROVE  BatchInv(c)'
<1> DEFINE p == [from |-> StreamEnd(c), to |-> StreamEnd(c) + size]
           q == Append(sendPackets[c], p)
           k == Len(offered[c])
<1>1. IInv' /\ TypeOK /\ CInv(c)
  BY WriteInv DEF IInv, CInv
<1>2. k \in Nat /\ size \in Nat /\ StreamEnd(c) \in Nat
  <2>1. \A i \in 1 .. k : offered[c][i] \in Packet
    BY <1>1 DEF TypeOK
  <2> QED
    BY <1>1, <2>1, SizesAssumption DEF TypeOK, StreamEnd, Packet
<1>3. p \in Packet
  BY <1>2 DEF Packet
<1>4. offered'[c] = Append(offered[c], p) /\ handle' = handle
  BY <1>1 DEF Write, TypeOK
<1>5. /\ Len(offered'[c]) = k + 1
      /\ offered'[c][k + 1] = p
      /\ \A i \in 1 .. k : offered'[c][i] = offered[c][i]
  BY <1>1, <1>3, <1>4 DEF TypeOK
<1>6. p.to - p.from = size
  BY <1>2
<1>7. \A i \in 1 .. Len(offered'[c]) : offered'[c][i].to - offered'[c][i].from \in Sizes
  <2>1. \A i \in 1 .. k : offered[c][i].to - offered[c][i].from \in Sizes
    BY DEF BatchInv
  <2> HIDE DEF p, k
  <2> SUFFICES ASSUME NEW i \in 1 .. Len(offered'[c])
               PROVE  offered'[c][i].to - offered'[c][i].from \in Sizes
    OBVIOUS
  <2>2. CASE i \in 1 .. k
    BY <1>5, <2>1, <2>2
  <2>3. CASE i = k + 1
    BY <1>5, <1>6, <2>3
  <2> QED
    BY <1>2, <1>5, <2>2, <2>3
<1>8. CASE IsSending(c)
  <2>1. sendPackets'[c] = q /\ sending' = sending
    BY <1>1, <1>8 DEF Write, TypeOK
  <2>2. sending[c] \in 1 .. Len(sendPackets[c])
    BY <1>1, <1>8 DEF IsSending, TypeOK, CInv, QueueInv
  <2>3. \A i \in 1 .. Len(sendPackets[c]) : q[i] = sendPackets[c][i]
    BY <1>1, <1>3 DEF TypeOK
  <2> HIDE DEF q
  <2>4. BatchSize(q, sending[c] - 1) = BatchSize(sendPackets[c], sending[c] - 1)
    <3>1. sending[c] - 1 # 0 =>
             sending[c] - 1 \in 1 .. Len(sendPackets[c]) /\ 1 \in 1 .. Len(sendPackets[c])
      BY <1>1, <2>2 DEF TypeOK
    <3> QED
      BY <2>3, <3>1 DEF BatchSize
  <2> QED
    BY <1>7, <2>1, <2>2, <2>4 DEF BatchInv
<1>9. CASE ~IsSending(c)
  <2>1. SendTopMsg(c, q, requests[c], pending[c])
    BY <1>9 DEF Write
  <2>2. q \in Seq(Packet)
    BY <1>1, <1>3 DEF TypeOK
  <2>3. sendPackets'[c] = q
    BY <1>1, <2>1 DEF SendTopMsg, TypeOK
  <2>4. Ordered(q)
    <3>1. QueueInv(c)' /\ TypeOK'
      BY <1>1 DEF IInv
    <3> QED
      BY <3>1, <2>3, QueueOrderedNext
  <2> HIDE DEF q
  <2>5. /\ sending'[c] > 0 =>
             /\ sending'[c] <= MaxSendPacket
             /\ BatchSize(sendPackets'[c], sending'[c] - 1) < MaxSendByte
        /\ sendPackets'[c] # <<>> => sending'[c] > 0
    BY <2>1, <2>2, <2>4, BatchOfQueue
  <2> QED
    BY <1>7, <2>5 DEF BatchInv
<1> QED
  BY <1>8, <1>9

LEMMA CompleteBatchInv ==
  ASSUME IInv, IInv', NEW c \in Conns, BatchInv(c), OnWriteComplete(c), offered' = offered
  PROVE  BatchInv(c)'
<1> DEFINE q == SubSeq(sendPackets[c], sending[c] + 1, Len(sendPackets[c]))
<1>1. SendTopMsg(c, q, requests[c] - 1, <<>>)
  BY DEF OnWriteComplete
<1>2. sendPackets'[c] = q
  BY <1>1 DEF SendTopMsg, IInv, TypeOK
<1>3. QueueInv(c)' /\ TypeOK'
  BY DEF IInv
<1>4. q \in Seq(Packet)
  BY <1>2, <1>3 DEF TypeOK
<1>5. Ordered(q)
  BY <1>2, <1>3, QueueOrderedNext
<1> HIDE DEF q
<1>6. /\ sending'[c] > 0 =>
           /\ sending'[c] <= MaxSendPacket
           /\ BatchSize(sendPackets'[c], sending'[c] - 1) < MaxSendByte
      /\ sendPackets'[c] # <<>> => sending'[c] > 0
  BY <1>1, <1>4, <1>5, BatchOfQueue
<1> QED
  BY <1>6 DEF BatchInv

LEMMA NextBatchInv ==
  ASSUME IInv, [Next]_vars, NEW c \in Conns, BatchInv(c)
  PROVE  BatchInv(c)'
<1>1. IInv' /\ TypeOK
  BY NextInv DEF IInv
<1>2. ASSUME UNCHANGED <<sendPackets, sending, offered>>,
             handle'[c] = "open" => handle[c] = "open"
      PROVE  BatchInv(c)'
  BY <1>2 DEF BatchInv
<1>3. ASSUME NEW d \in Conns, d # c,
             AppStep(d) \/ LoopStep(d)
      PROVE  BatchInv(c)'
  <2> DEFINE Same == /\ handle'[c] = handle[c]
                     /\ sendPackets'[c] = sendPackets[c]
                     /\ sending'[c] = sending[c]
                     /\ offered'[c] = offered[c]
  <2>1. \A q, r, b : SendTopMsg(d, q, r, b) =>
           sendPackets'[c] = sendPackets[c] /\ sending'[c] = sending[c]
    BY <1>1, <1>3 DEF SendTopMsg, TypeOK
  <2>2. ASSUME NEW size \in Sizes, Write(d, size) PROVE Same
    BY <1>1, <1>3, <2>1, <2>2 DEF Write, TypeOK
  <2>3. ASSUME Close(d) \/ EchoReadEnd(d) PROVE Same
    BY <1>1, <1>3, <2>3 DEF Close, EchoReadEnd, TypeOK
  <2>4. ASSUME (\E k \in 1 .. Len(pending[d]) : KernelWrite(d, k)) \/ KernelFail(d) PROVE Same
    BY <2>4 DEF KernelWrite, KernelFail
  <2>5. ASSUME OnWriteComplete(d)
        PROVE  sendPackets'[c] = sendPackets[c] /\ sending'[c] = sending[c]
    BY <2>1, <2>5 DEF OnWriteComplete
  <2>6. ASSUME EchoWrite(d) PROVE Same
    BY <2>5, <2>6 DEF EchoWrite
  <2>7. ASSUME OnUvClose(d) PROVE Same
    BY <1>1, <1>3, <2>5, <2>7 DEF OnUvClose, TypeOK
  <2>8. ASSUME Destroy(d) PROVE Same
    BY <1>1, <1>3, <2>8 DEF Destroy, Release, TypeOK
  <2>9. Same
    BY <1>3, <2>2, <2>3, <2>4, <2>6, <2>7, <2>8 DEF AppStep, LoopStep
  <2> QED
    BY <2>9 DEF BatchInv
<1>4. ASSUME NEW size \in Sizes, Write(c, size) PROVE BatchInv(c)'
  BY <1>4, WriteBatchInv
<1>5. ASSUME Close(c) \/ EchoReadEnd(c) PROVE BatchInv(c)'
  BY <1>1, <1>2, <1>5 DEF Close, EchoReadEnd, TypeOK
<1>6. ASSUME NEW k \in 1 .. Len(pending[c]), KernelWrite(c, k) PROVE BatchInv(c)'
  BY <1>2, <1>6 DEF KernelWrite
<1>7. ASSUME KernelFail(c) PROVE BatchInv(c)'
  BY <1>2, <1>7 DEF KernelFail
<1>8. ASSUME EchoWrite(c) PROVE BatchInv(c)'
  BY <1>1, <1>8, CompleteBatchInv DEF EchoWrite
<1>9. ASSUME OnUvClose(c) PROVE BatchInv(c)'
  <2>1. CASE requests[c] > 0
    BY <1>1, <1>9, <2>1, CompleteBatchInv DEF OnUvClose
  <2>2. CASE ~(requests[c] > 0)
    BY <1>1, <1>2, <1>9, <2>2 DEF OnUvClose, TypeOK
  <2> QED
    BY <2>1, <2>2
<1>10. ASSUME Destroy(c) PROVE BatchInv(c)'
  <2>1. sending'[c] = 0 /\ sendPackets'[c] = <<>> /\ offered' = offered
    BY <1>1, <1>10 DEF Destroy, Release, TypeOK
  <2> QED
    BY <2>1 DEF BatchInv
<1>11. CASE UNCHANGED vars
  BY <1>2, <1>11 DEF vars
<1> QED
  BY <1>3, <1>4, <1>5, <1>6, <1>7, <1>8, <1>9, <1>10, <1>11 DEF Next, AppStep, LoopStep

LEMMA BatchInvariance == Spec => [](\A c \in Conns : BatchInv(c))
<1>1. IInv /\ (\A c \in Conns : BatchInv(c)) /\ [Next]_vars => (\A c \in Conns : BatchInv(c))'
  BY NextBatchInv
<1> QED
  BY <1>1, InitBatchInv, Invariance, PTL DEF Spec

(* A batch respects both limits. *)
THEOREM BatchWithinLimitsAlways == Spec => []BatchWithinLimits
<1>1. (\A c \in Conns : BatchInv(c)) => BatchWithinLimits
  BY DEF BatchInv, BatchWithinLimits
<1> QED
  BY <1>1, BatchInvariance, PTL

(* An open connection whose queue is not empty is writing, or has a batch   *)
(* of empty packets in mSending.                                            *)
THEOREM QueueDrainsAlways == Spec => []QueueDrains
<1>1. ASSUME IInv, NEW c \in Conns, BatchInv(c), handle[c] = "open",
             sendPackets[c] # <<>>, requests[c] = 0
      PROVE  EmptyBatch(c)
  <2>1. TypeOK /\ CInv(c)
    BY <1>1 DEF IInv, CInv
  <2>2. sending[c] \in 1 .. Len(sendPackets[c])
    BY <1>1, <2>1 DEF BatchInv, CInv, QueueInv, TypeOK
  <2> QED
    BY <1>1, <2>1, <2>2 DEF CInv, RequestInv, EmptyBatch
<1>2. IInv /\ (\A c \in Conns : BatchInv(c)) => QueueDrains
  <2> SUFFICES ASSUME IInv, \A c \in Conns : BatchInv(c), NEW c \in Conns,
                      handle[c] = "open", sendPackets[c] # <<>>
               PROVE  requests[c] > 0 \/ EmptyBatch(c)
    BY DEF QueueDrains
  <2>1. requests[c] \in Nat
    BY DEF IInv, TypeOK
  <2>2. CASE requests[c] = 0
    BY <1>1, <2>2
  <2> QED
    BY <2>1, <2>2
<1> QED
  BY <1>2, Invariance, BatchInvariance, PTL

(* When no packet is empty there is no such batch: the queue cannot stall.  *)
THEOREM NoEmptyBatchAlways == (0 \notin Sizes) => (Spec => [](\A c \in Conns : ~EmptyBatch(c)))
<1> SUFFICES ASSUME 0 \notin Sizes PROVE Spec => [](\A c \in Conns : ~EmptyBatch(c))
  OBVIOUS
<1>1. ASSUME IInv, NEW c \in Conns, BatchInv(c), sending[c] > 0
      PROVE  ~EmptyBatch(c)
  <2> DEFINE n == sending[c]
             q == sendPackets[c]
  <2>1. TypeOK /\ CInv(c)
    BY <1>1 DEF IInv, CInv
  <2>2. n \in 1 .. Len(q) /\ q \in Seq(Packet)
    BY <1>1, <2>1 DEF BatchInv, CInv, QueueInv, TypeOK
  <2>3. Ordered(q)
    BY <2>1, QueueOrdered DEF CInv
  <2>4. q[1].from \in Nat /\ q[1].to \in Nat /\ q[n].to \in Nat /\ q[n].from \in Nat
    <3>1. q[1] \in Packet /\ q[n] \in Packet
      BY <2>2
    <3> QED
      BY <3>1 DEF Packet
  <2>5. q[n].from < q[n].to
    <3>1. Len(recycled[c]) + n \in 1 .. Len(offered[c])
          /\ q[n] = offered[c][Len(recycled[c]) + n]
      BY <2>1, <2>2 DEF CInv, QueueInv, TypeOK
    <3>2. q[n].to - q[n].from \in Sizes
      BY <1>1, <3>1 DEF BatchInv
    <3>3. q[n].to - q[n].from # 0 /\ q[n].from <= q[n].to
      BY <2>2, <2>3, <3>2 DEF Ordered
    <3> QED
      BY <2>4, <3>3
  <2>6. q[1].from <= q[n].from
    <3>1. CASE n = 1
      BY <2>4, <3>1
    <3>2. CASE n > 1
      <4>1. q[1].from <= q[1].to /\ q[1].to <= q[n].from
        BY <2>2, <2>3, <3>2 DEF Ordered
      <4> QED
        BY <2>4, <4>1
    <3> QED
      BY <2>2, <3>1, <3>2
  <2>7. BatchSize(q, n) # 0 /\ n > 0
    BY <2>2, <2>4, <2>5, <2>6, SMTT(30) DEF BatchSize
  <2> QED
    BY <2>7 DEF EmptyBatch
<1>2. IInv /\ (\A c \in Conns : BatchInv(c)) => (\A c \in Conns : ~EmptyBatch(c))
  BY <1>1 DEF EmptyBatch
<1> QED
  BY <1>2, Invariance, BatchInvariance, PTL
=============================================================================
