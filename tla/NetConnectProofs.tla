-------------------------- MODULE NetConnectProofs --------------------------
(***************************************************************************)
(* Theorems about NetConnect: messages come out whole and in order, none   *)
(* is held back, and the connection is a MessageChannel, for any sizes of  *)
(* heads, buffers, messages and batches, and any number of messages.       *)
(***************************************************************************)
EXTENDS NetConnect, TcpSocketProofs

(* the bytes of b follow one another in the stream, from offset o on *)
Consecutive(b, o) == \A j \in 1 .. Len(b) : b[j] = o + j - 1

(* where the n-th packet of connection d ends *)
Boundary(d, n) == IF n = 0 THEN 0 ELSE offered[d][n].to

(* Packets have their head, and only what was written is accepted. *)
SourceInv(d) ==
  /\ \A i \in 1 .. Len(offered[d]) : offered[d][i].to - offered[d][i].from >= HeadSize
  /\ Len(accepted[d]) <= StreamEnd(d)

(* What c has read from d is the packets delivered, then the part of the    *)
(* next one in readPacket, then the buffer; and that part is not the whole. *)
StreamPlace(c, d) ==
  LET n == Len(delivered[c])
      r == Len(readPacket[c])
      m == Len(mBuffer[c])
  IN  /\ Boundary(d, n) + r + m = readCount[c]
      /\ Consecutive(readPacket[c], Boundary(d, n))
      /\ Consecutive(mBuffer[c], Boundary(d, n) + r)
      /\ r > 0 => n < Len(offered[d]) /\ r < offered[d][n + 1].to - offered[d][n + 1].from

ReadInv(c, d) ==
  /\ Len(delivered[c]) <= Len(offered[d])
  /\ \A i \in 1 .. Len(delivered[c]) : delivered[c][i] = Bytes(offered[d][i])
  /\ mBuffer[c] # <<>> => handle[c] \in {"open", "closing"}
  /\ readCount[c] <= Len(accepted[d])
  /\ IF handle[c] = "destroyed" THEN readPacket[c] = <<>> ELSE StreamPlace(c, d)

NetInv ==
  /\ NetTypeOK /\ IInv
  /\ \A d \in Conns : SourceInv(d)
  /\ \A c, d \in Conns : d = Peer(c) => ReadInv(c, d)

-----------------------------------------------------------------------------
(* Sequences of bytes *)

LEMMA PeerIsEnd ==
  ASSUME NEW c \in Conns
  PROVE  Peer(c) \in Conns /\ Peer(c) # c
<1>1. \E d \in Conns : d # c
  BY TwoEnds
<1> QED
  BY <1>1 DEF Peer

(* a part of a run of bytes *)
LEMMA ConsecutivePart ==
  ASSUME NEW q \in Seq(Nat), NEW o \in Nat, Consecutive(q, o),
         NEW t \in 0 .. Len(q), NEW s \in 0 .. t
  PROVE  /\ SubSeq(q, s + 1, t) \in Seq(Nat)
         /\ Len(SubSeq(q, s + 1, t)) = t - s
         /\ Consecutive(SubSeq(q, s + 1, t), o + s)
<1> DEFINE n == Len(q)
           a == SubSeq(q, s + 1, t)
<1>1. n \in Nat /\ t \in Nat /\ s \in Nat /\ s <= t /\ t <= n
  OBVIOUS
<1>2. a \in Seq(Nat) /\ Len(a) = t - s /\ \A i \in 1 .. t - s : a[i] = q[s + i]
  BY <1>1
<1> HIDE DEF a
<1>3. \A i \in 1 .. n : q[i] = o + i - 1
  BY DEF Consecutive
<1> HIDE DEF n
<1>4. ASSUME NEW i \in 1 .. t - s PROVE a[i] = (o + s) + i - 1
  <2>1. s + i \in 1 .. n
    BY <1>1
  <2>2. a[i] = o + (s + i) - 1
    BY <1>2, <1>3, <2>1
  <2> QED
    BY <1>1, <2>2
<1> QED
  BY <1>2, <1>4 DEF Consecutive, a

(* two runs, the second where the first ends *)
LEMMA ConsecutiveConcat ==
  ASSUME NEW p \in Seq(Nat), NEW q \in Seq(Nat), NEW o \in Nat,
         Consecutive(p, o), Consecutive(q, o + Len(p))
  PROVE  p \o q \in Seq(Nat) /\ Len(p \o q) = Len(p) + Len(q) /\ Consecutive(p \o q, o)
<1> DEFINE m == Len(p)
           n == Len(q)
           r == p \o q
<1>1. m \in Nat /\ n \in Nat
  OBVIOUS
<1>2. /\ r \in Seq(Nat) /\ Len(r) = m + n
      /\ \A i \in 1 .. m : r[i] = p[i]
      /\ \A i \in 1 .. n : r[m + i] = q[i]
  BY ConcatParts
<1>3. /\ \A i \in 1 .. m : p[i] = o + i - 1
      /\ \A i \in 1 .. n : q[i] = (o + m) + i - 1
  BY DEF Consecutive
<1> HIDE DEF r, m, n
<1>4. ASSUME NEW i \in 1 .. m + n PROVE r[i] = o + i - 1
  <2>1. CASE i <= m
    <3>1. i \in 1 .. m
      BY <1>1, <2>1
    <3> QED
      BY <1>2, <1>3, <3>1
  <2>2. CASE i > m
    <3> DEFINE j == i - m
    <3>1. j \in 1 .. n /\ i = m + j /\ j \in Int
      BY <1>1, <2>2
    <3> HIDE DEF j
    <3>2. r[i] = (o + m) + j - 1
      BY <1>2, <1>3, <3>1
    <3> QED
      BY <1>1, <3>1, <3>2
  <2> QED
    BY <1>1, <2>1, <2>2
<1> QED
  BY <1>2, <1>4 DEF Consecutive, r, m, n

-----------------------------------------------------------------------------
(* Packets and their places in the stream *)

LEMMA OfferedPackets ==
  ASSUME IInv, NEW d \in Conns
  PROVE  /\ offered[d] \in Seq(Packet) /\ Len(offered[d]) \in Nat
         /\ \A i \in 1 .. Len(offered[d]) : offered[d][i].from \in Nat /\ offered[d][i].to \in Nat
         /\ Ordered(offered[d])
         /\ Len(offered[d]) > 0 => offered[d][1].from = 0
<1>1. offered[d] \in Seq(Packet)
  BY DEF IInv, TypeOK
<1>2. \A i \in 1 .. Len(offered[d]) : offered[d][i] \in Packet
  BY <1>1
<1>3. QueueInv(d)
  BY DEF IInv
<1> QED
  BY <1>1, <1>2, <1>3 DEF Packet, QueueInv

(* the next packet begins where the last one ends *)
LEMMA BoundaryNext ==
  ASSUME IInv, NEW d \in Conns, NEW n \in 0 .. Len(offered[d])
  PROVE  /\ Boundary(d, n) \in Nat
         /\ n < Len(offered[d]) =>
              n + 1 \in 1 .. Len(offered[d]) /\ offered[d][n + 1].from = Boundary(d, n)
         /\ n = Len(offered[d]) => Boundary(d, n) = StreamEnd(d)
<1> DEFINE o == offered[d]
           m == Len(o)
<1>1. /\ o \in Seq(Packet) /\ m \in Nat /\ Ordered(o)
      /\ m > 0 => o[1].from = 0
      /\ \A i \in 1 .. m : o[i].from \in Nat /\ o[i].to \in Nat
  BY OfferedPackets
<1>2. \A i \in 1 .. m : i + 1 <= m => o[i + 1].from = o[i].to
  BY <1>1 DEF Ordered
<1>3. m = 0 <=> o = <<>>
  BY <1>1
<1>4. StreamEnd(d) = IF m = 0 THEN 0 ELSE o[m].to
  BY <1>3 DEF StreamEnd
<1>5. Boundary(d, n) = IF n = 0 THEN 0 ELSE o[n].to
  BY DEF Boundary
<1>6. n \in 0 .. m /\ n \in Nat /\ m \in Nat
  BY <1>1
<1> HIDE DEF o, m
<1>7. n # 0 => n \in 1 .. m
  <2>1. n <= m
    BY <1>1, <1>6
  <2> QED
    BY <1>6, <2>1
<1>8. Boundary(d, n) \in Nat
  BY <1>1, <1>5, <1>7
<1>9. n < m => n + 1 \in 1 .. m /\ o[n + 1].from = Boundary(d, n)
  <2> SUFFICES ASSUME n < m PROVE n + 1 \in 1 .. m /\ o[n + 1].from = Boundary(d, n)
    OBVIOUS
  <2>1. n + 1 \in 1 .. m /\ n + 1 <= m
    BY <1>6
  <2>2. CASE n = 0
    <3>1. m > 0 /\ n + 1 = 1
      BY <1>6, <2>2
    <3>2. o[1].from = 0
      BY <1>1, <3>1
    <3> QED
      BY <1>5, <2>1, <2>2, <3>1, <3>2
  <2>3. CASE n # 0
    BY <1>2, <1>5, <1>7, <2>1, <2>3
  <2> QED
    BY <2>1, <2>2, <2>3
<1>10. n = m => Boundary(d, n) = StreamEnd(d)
  BY <1>4, <1>5
<1> QED
  BY <1>8, <1>9, <1>10 DEF o, m

(* The bytes that begin a packet say how long it is, because no other       *)
(* packet begins where it does.                                             *)
LEMMA MarkLenOf ==
  ASSUME IInv, NEW c \in Conns, NEW k \in 1 .. Len(offered[Peer(c)]), SourceInv(Peer(c)),
         NEW b \in Seq(Nat), Len(b) >= HeadSize, Consecutive(b, offered[Peer(c)][k].from)
  PROVE  MarkLen(c, b) = (offered[Peer(c)][k].to - offered[Peer(c)][k].from) - HeadSize
<1> DEFINE d == Peer(c)
           o == offered[d]
           begins(i) == o[i].from = b[1] /\ \A j \in 1 .. HeadSize : b[j] = b[1] + j - 1
           heads == {i \in 1 .. Len(o) : begins(i)}
<1>1. d \in Conns
  BY PeerIsEnd
<1>2. /\ o \in Seq(Packet) /\ Len(o) \in Nat /\ Ordered(o)
      /\ \A i \in 1 .. Len(o) : o[i].from \in Nat /\ o[i].to \in Nat
  BY <1>1, OfferedPackets
<1>3. HeadSize \in Nat /\ HeadSize > 0 /\ Len(b) \in Nat
  BY HeadSizeAssumption
<1>4. \A j \in 1 .. HeadSize : b[j] = o[k].from + j - 1
  BY <1>3 DEF Consecutive
<1>5. b[1] = o[k].from
  BY <1>2, <1>3, <1>4
<1>6. begins(k)
  BY <1>4, <1>5
<1>7. ASSUME NEW i \in 1 .. Len(o), o[i].from = o[k].from PROVE i = k
  <2>1. o[i].to > o[i].from /\ o[k].to > o[k].from
    <3>1. \A j \in 1 .. Len(o) : o[j].to - o[j].from >= HeadSize
      BY DEF SourceInv
    <3>2. \A x, y \in Nat : x - y >= HeadSize => x > y
      BY <1>3
    <3> QED
      BY <1>2, <3>1, <3>2
  <2>2. i < k => o[i].to <= o[k].from
    BY <1>2 DEF Ordered
  <2>3. k < i => o[k].to <= o[i].from
    BY <1>2 DEF Ordered
  <2> QED
    BY <1>2, <1>7, <2>1, <2>2, <2>3
<1>8. heads = {k}
  BY <1>5, <1>6, <1>7
<1>9. MarkLen(c, b) = (o[k].to - o[k].from) - HeadSize
  BY <1>8 DEF MarkLen
<1> QED
  BY <1>9

-----------------------------------------------------------------------------
(* Sending: the stream of connection d only grows. *)

Grows(d) ==
  /\ Len(offered[d]) <= Len(offered'[d])
  /\ \A i \in 1 .. Len(offered[d]) : offered'[d][i] = offered[d][i]
  /\ Len(accepted[d]) <= Len(accepted'[d])

LEMMA SourceUntouched ==
  ASSUME IInv, NEW d \in Conns, SourceInv(d),
         offered'[d] = offered[d], accepted'[d] = accepted[d]
  PROVE  SourceInv(d)' /\ Grows(d)
<1>1. Len(offered[d]) \in Nat /\ Len(accepted[d]) \in Nat
  BY DEF IInv, TypeOK
<1> QED
  BY <1>1 DEF SourceInv, Grows, StreamEnd

LEMMA SourceWrite ==
  ASSUME IInv, NEW d \in Conns, NEW size \in Sizes, SourceInv(d), Write(d, size)
  PROVE  SourceInv(d)' /\ Grows(d)
<1> DEFINE o == offered[d]
           n == Len(o)
           e == StreamEnd(d)
           p == [from |-> e, to |-> e + size]
<1>1. offered'[d] = Append(o, p) /\ accepted'[d] = accepted[d]
  BY DEF Write, IInv, TypeOK
<1>2. /\ o \in Seq(Packet) /\ n \in Nat /\ Len(accepted[d]) \in Nat /\ e \in Nat
      /\ size \in Nat /\ size >= HeadSize /\ HeadSize \in Nat
  <2>1. n \in 0 .. n /\ n \in Nat
    BY OfferedPackets
  <2>2. e \in Nat
    BY <2>1, BoundaryNext
  <2>3. Len(accepted[d]) \in Nat
    BY DEF IInv, TypeOK
  <2> QED
    BY <2>1, <2>2, <2>3, OfferedPackets, SizesAssumption, FramedSizes, HeadSizeAssumption
<1>3. p \in Packet /\ p.to = e + size /\ p.to - p.from >= HeadSize
  BY <1>2 DEF Packet
<1> HIDE DEF p
<1>4. /\ Len(Append(o, p)) = n + 1 /\ Append(o, p)[n + 1] = p
      /\ \A i \in 1 .. n : Append(o, p)[i] = o[i]
  BY <1>2, <1>3, AppendProperties
<1>5. StreamEnd(d)' = p.to
  <2>1. Append(o, p) # <<>>
    BY <1>2, <1>3
  <2> QED
    BY <1>1, <1>4, <2>1 DEF StreamEnd
<1>6. Len(accepted[d]) <= e /\ \A i \in 1 .. n : o[i].to - o[i].from >= HeadSize
  BY DEF SourceInv
<1> HIDE DEF o, n, e
<1>7. ASSUME NEW i \in 1 .. n + 1
      PROVE  Append(o, p)[i].to - Append(o, p)[i].from >= HeadSize
  <2>1. i \in 1 .. n \/ i = n + 1
    BY <1>2
  <2> QED
    BY <1>3, <1>4, <1>6, <2>1
<1>8. SourceInv(d)'
  BY <1>1, <1>2, <1>3, <1>4, <1>5, <1>6, <1>7 DEF SourceInv
<1>9. Grows(d)
  <2>1. n <= n + 1 /\ Len(accepted[d]) <= Len(accepted[d])
    BY <1>2
  <2> QED
    BY <1>1, <1>4, <2>1 DEF Grows, o, n
<1> QED
  BY <1>8, <1>9

(* what the kernel takes is what was written: the batch is in the queue *)
LEMMA SourceKernelWrite ==
  ASSUME IInv, NEW d \in Conns, NEW k \in 1 .. Len(pending[d]), SourceInv(d),
         KernelWrite(d, k)
  PROVE  SourceInv(d)' /\ Grows(d)
<1> DEFINE a == Len(accepted[d])
           b == Len(pending[d])
           now == SubSeq(pending[d], 1, k)
           o == offered[d]
           r == Len(recycled[d])
           i == r + sending[d]
<1>1. /\ TypeOK /\ QueueInv(d) /\ RequestInv(d) /\ StreamInv(d)
      /\ handle[d] = "open" /\ ~broken[d]
      /\ accepted' = [accepted EXCEPT ![d] = accepted[d] \o now] /\ offered' = offered
  BY DEF IInv, KernelWrite
<1>2. /\ a \in Nat /\ b \in Nat /\ k \in 1 .. b /\ r \in Nat /\ sending[d] \in Nat
      /\ Len(o) \in Nat /\ Len(sendPackets[d]) \in Nat
      /\ pending[d] \in Seq(Nat) /\ accepted[d] \in Seq(Nat)
  BY <1>1 DEF TypeOK
<1>3. Len(accepted'[d]) = a + k
  <2>1. pending[d] \in Seq(Nat) /\ accepted[d] \in Seq(Nat) /\ k \in 1 .. b /\ b \in Nat
    BY <1>2
  <2>2. now \in Seq(Nat) /\ Len(now) = k
    BY <2>1
  <2> HIDE DEF now
  <2>3. Len(accepted[d] \o now) = Len(accepted[d]) + Len(now)
    BY <2>1, <2>2, ConcatSeqs
  <2> QED
    BY <1>1, <2>2, <2>3 DEF TypeOK
<1>4. requests[d] = 1 /\ requests[d] # 0 /\ sending[d] > 0
  BY <1>1, <1>2 DEF RequestInv
<1>5. a + b = sendPackets[d][sending[d]].to
  BY <1>1, <1>4 DEF StreamInv
<1>6. sending[d] \in 1 .. Len(sendPackets[d]) /\ sendPackets[d][sending[d]] = o[i]
      /\ i \in 1 .. Len(o)
  <2>1. /\ sending[d] <= Len(sendPackets[d]) /\ r + Len(sendPackets[d]) = Len(o)
        /\ \A j \in 1 .. Len(sendPackets[d]) : sendPackets[d][j] = o[r + j]
    BY <1>1 DEF QueueInv
  <2> HIDE DEF r
  <2>2. sending[d] \in 1 .. Len(sendPackets[d])
    BY <1>2, <1>4, <2>1
  <2>3. r + sending[d] \in 1 .. Len(o)
    BY <1>2, <1>4, <2>1
  <2> QED
    BY <2>1, <2>2, <2>3
<1>7. o[i].to <= StreamEnd(d)
  <2>1. /\ \A j \in 1 .. Len(o) : o[j].from \in Nat /\ o[j].to \in Nat
        /\ Ordered(o)
    BY OfferedPackets
  <2>2. StreamEnd(d) = o[Len(o)].to /\ Len(o) \in 1 .. Len(o)
    BY <1>2, <1>6 DEF StreamEnd
  <2> HIDE DEF o, i
  <2>3. CASE i = Len(o)
    BY <2>1, <2>2, <2>3
  <2>4. CASE i # Len(o)
    <3>1. i < Len(o)
      BY <1>2, <1>6, <2>4
    <3>2. o[i].to <= o[Len(o)].from /\ o[Len(o)].from <= o[Len(o)].to
      BY <1>6, <2>1, <2>2, <3>1 DEF Ordered
    <3> QED
      BY <1>6, <2>1, <2>2, <3>2
  <2> QED
    BY <2>3, <2>4
<1>8. o[i].to \in Nat /\ StreamEnd(d) \in Nat
  <2>1. o[i].to \in Nat
    BY <1>6, OfferedPackets
  <2>2. Len(o) \in 0 .. Len(o)
    BY <1>2
  <2> QED
    BY <2>1, <2>2, BoundaryNext
<1>9. a + k <= StreamEnd(d)
  <2> HIDE DEF a, b, o, i
  <2> QED
    BY <1>2, <1>5, <1>6, <1>7, <1>8
<1>10. SourceInv(d)'
  BY <1>1, <1>3, <1>9 DEF SourceInv, StreamEnd
<1>11. Grows(d)
  BY <1>1, <1>2, <1>3 DEF Grows
<1> QED
  BY <1>10, <1>11

LEMMA SourceStep ==
  ASSUME IInv, \A d \in Conns : SourceInv(d), NEW e \in Conns, AppStep(e) \/ LoopStep(e)
  PROVE  \A d \in Conns : SourceInv(d)' /\ Grows(d)
<1>1. ASSUME NEW size \in Sizes, Write(e, size) PROVE \A d \in Conns : SourceInv(d)' /\ Grows(d)
  <2>1. \A d \in Conns : d # e => offered'[d] = offered[d] /\ accepted'[d] = accepted[d]
    BY <1>1 DEF Write, IInv, TypeOK
  <2> QED
    BY <1>1, <2>1, SourceWrite, SourceUntouched
<1>2. ASSUME NEW k \in 1 .. Len(pending[e]), KernelWrite(e, k)
      PROVE  \A d \in Conns : SourceInv(d)' /\ Grows(d)
  <2>1. \A d \in Conns : d # e => offered'[d] = offered[d] /\ accepted'[d] = accepted[d]
    BY <1>2 DEF KernelWrite, IInv, TypeOK
  <2> QED
    BY <1>2, <2>1, SourceKernelWrite, SourceUntouched
<1>3. ASSUME UNCHANGED <<offered, accepted>> PROVE \A d \in Conns : SourceInv(d)' /\ Grows(d)
  BY <1>3, SourceUntouched
<1> QED
  BY <1>1, <1>2, <1>3
     DEF AppStep, LoopStep, Close, KernelFail, EchoWrite, EchoReadEnd, OnUvClose, Destroy

-----------------------------------------------------------------------------
(* Reading *)

(* one round of on_msgbuffer, from packet b and buffer m *)
HeadPart(b, m) == IF IsHeadFull(b) THEN 0 ELSE HeadBytes(b, Len(m))
WithHead(b, m) == b \o SubSeq(m, 1, HeadPart(b, m))
BodyPart(c, b, m) ==
  IF ReachesBody(b, WithHead(b, m))
    THEN BodyBytes(c, WithHead(b, m), Len(m) - HeadPart(b, m)) ELSE 0
Used(c, b, m) == HeadPart(b, m) + BodyPart(c, b, m)
Whole(c, b, m) == WithHead(b, m) \o SubSeq(m, HeadPart(b, m) + 1, Used(c, b, m))
Complete(c, b, m) ==
  /\ ReachesBody(b, WithHead(b, m))
  /\ Len(Whole(c, b, m)) = MarkLen(c, Whole(c, b, m)) + HeadSize

LEMMA BodyBytesIs ==
  ASSUME NEW c, NEW b, NEW n
  PROVE  BodyBytes(c, b, n) =
           IF MarkLen(c, b) + (HeadSize - Len(b)) < n
             THEN MarkLen(c, b) + (HeadSize - Len(b)) ELSE n
BY DEF BodyBytes, Least

(* The arithmetic of a round: x bytes of a packet of size bytes are there   *)
(* and n in the buffer, r of them for the head and w for the body.          *)
HeadTakes(x, n, H) == IF x >= H THEN 0 ELSE IF H - x < n THEN H - x ELSE n
BodyTakes(h, n, H, mark) ==
  IF h >= H THEN IF mark + (H - h) < n THEN mark + (H - h) ELSE n ELSE 0

RoundFits(x, n, H, size, r, w) ==
  /\ x + r \in Nat /\ w \in Nat
  /\ r + w \in 0 .. n /\ r \in 0 .. (r + w) /\ (r + w) - r = w
  /\ (x + r) + w = x + (r + w) /\ (x + r) + w <= size
  /\ x + r >= H => (x + r) + w >= H
  /\ x + r < H => (x + r) + w < size

LEMMA HeadNumbers ==
  ASSUME NEW x \in Nat, NEW n \in Nat, NEW H \in Nat
  PROVE  /\ HeadTakes(x, n, H) \in 0 .. n
         /\ x < H => x + HeadTakes(x, n, H) <= H
         /\ x >= H => HeadTakes(x, n, H) = 0
BY DEF HeadTakes

LEMMA RoundNumbers ==
  ASSUME NEW x \in Nat, NEW n \in Nat, NEW H \in Nat, NEW size \in Nat,
         x < size, H <= size, NEW r \in 0 .. n, x < H => x + r <= H, x >= H => r = 0,
         NEW mark, x + r >= H => mark = size - H
  PROVE  RoundFits(x, n, H, size, r, BodyTakes(x + r, n - r, H, mark))
<1> DEFINE h == x + r
           w == BodyTakes(h, n - r, H, mark)
<1>1. r \in Nat /\ r <= n /\ h \in Nat /\ h <= size
  OBVIOUS
<1>2. h >= H => mark + (H - h) = size - h
  BY <1>1
<1>3. /\ h >= H => w = IF size - h < n - r THEN size - h ELSE n - r
      /\ h < H => w = 0
  BY <1>1, <1>2 DEF BodyTakes
<1>4. w \in Nat /\ w <= n - r /\ w <= size - h /\ (h < H => w = 0)
  BY <1>1, <1>3
<1> HIDE DEF w
<1>5. h + w = x + (r + w)
  BY <1>1, <1>4
<1>6. r + w \in 0 .. n /\ r \in 0 .. (r + w) /\ (r + w) - r = w
  BY <1>1, <1>4
<1>7. h + w <= size /\ (h >= H => h + w >= H) /\ (h < H => h + w < size)
  BY <1>1, <1>4
<1> QED
  BY <1>1, <1>4, <1>5, <1>6, <1>7 DEF w, RoundFits

(* A round moves the front of the buffer m to the packet b, whose place in  *)
(* the stream is that of the k-th packet: it either completes that packet,  *)
(* and takes no byte of the next, or leaves it short of its end.            *)
LEMMA RoundBytes ==
  ASSUME IInv, NEW c \in Conns, NEW k \in 1 .. Len(offered[Peer(c)]), SourceInv(Peer(c)),
         NEW b \in Seq(Nat), NEW m \in Seq(Nat), NEW from \in Nat, NEW size \in Nat,
         from = offered[Peer(c)][k].from, size = offered[Peer(c)][k].to - from,
         Consecutive(b, from), Len(b) < size, Consecutive(m, from + Len(b))
  PROVE  /\ Used(c, b, m) \in 0 .. Len(m)
         /\ Whole(c, b, m) \in Seq(Nat)
         /\ Len(Whole(c, b, m)) = Len(b) + Used(c, b, m)
         /\ Consecutive(Whole(c, b, m), from)
         /\ IF Complete(c, b, m) THEN Len(Whole(c, b, m)) = size
                                 ELSE Len(Whole(c, b, m)) < size
<1> DEFINE x == Len(b)
           n == Len(m)
           H == HeadSize
           rlen == HeadPart(b, m)
           head == WithHead(b, m)
           wsize == BodyPart(c, b, m)
           whole == Whole(c, b, m)
           a == SubSeq(m, 1, rlen)
           e == SubSeq(m, rlen + 1, rlen + wsize)
           h == Len(head)
           mark == MarkLen(c, head)
<1>1. x \in Nat /\ n \in Nat /\ H \in Nat /\ H > 0 /\ size \in Nat /\ from \in Nat /\ x < size
  BY HeadSizeAssumption
<1>2. size >= H
  BY DEF SourceInv
<1>3. rlen = HeadTakes(x, n, H)
  BY DEF HeadPart, IsHeadFull, HeadBytes, Least, HeadTakes
<1>4. head = b \o a
  BY DEF WithHead
<1>5. whole = head \o e
  BY DEF Whole, Used
<1>6. ReachesBody(b, head) <=> h >= H
  BY DEF ReachesBody, IsHeadFull
<1>7. wsize = BodyTakes(h, n - rlen, H, mark)
  <2>1. wsize = IF ReachesBody(b, head) THEN BodyBytes(c, head, n - rlen) ELSE 0
    BY DEF BodyPart
  <2>2. BodyBytes(c, head, n - rlen) = IF mark + (H - h) < n - rlen THEN mark + (H - h) ELSE n - rlen
    <3> HIDE DEF n, rlen, head
    <3> QED
      BY BodyBytesIs DEF mark, h, H
  <2> HIDE DEF x, n, H, rlen, head, wsize, whole, a, e, h, mark
  <2> QED
    BY <1>6, <2>1, <2>2 DEF BodyTakes
<1>8. Complete(c, b, m) <=> (h >= H /\ Len(whole) = MarkLen(c, whole) + H)
  BY <1>6 DEF Complete
<1>9. Used(c, b, m) = rlen + wsize
  BY DEF Used
<1> HIDE DEF x, n, H, rlen, head, wsize, whole, a, e, h, mark
<1>10. rlen \in 0 .. n /\ (x < H => x + rlen <= H) /\ (x >= H => rlen = 0)
  <2>1. n \in Nat /\ H \in Nat /\ x \in Nat
    BY <1>1
  <2> QED
    BY <1>3, <2>1, HeadNumbers
<1>11. a \in Seq(Nat) /\ Len(a) = rlen /\ Consecutive(a, from + x)
  <2>1. n = Len(m) /\ Consecutive(m, from + x)
    BY DEF n, x
  <2>2. /\ SubSeq(m, 0 + 1, rlen) \in Seq(Nat) /\ Len(SubSeq(m, 0 + 1, rlen)) = rlen - 0
        /\ Consecutive(SubSeq(m, 0 + 1, rlen), (from + x) + 0)
    <3>1. 0 \in 0 .. rlen /\ from + x \in Nat
      BY <1>1, <1>10
    <3> QED
      BY <1>10, <2>1, <3>1, ConsecutivePart
  <2>3. 0 + 1 = 1 /\ rlen - 0 = rlen /\ (from + x) + 0 = from + x
    BY <1>1, <1>10
  <2> QED
    BY <2>2, <2>3 DEF a
<1>12. head \in Seq(Nat) /\ Len(head) = x + rlen /\ Consecutive(head, from)
  BY <1>1, <1>4, <1>11, ConsecutiveConcat DEF x
<1>13. h >= H => mark = size - H
  BY <1>12, MarkLenOf DEF H, h, mark
<1>14. /\ h \in Nat /\ wsize \in Nat /\ rlen + wsize \in 0 .. n
       /\ rlen \in 0 .. (rlen + wsize) /\ (rlen + wsize) - rlen = wsize
       /\ h + wsize = x + (rlen + wsize) /\ h + wsize <= size
       /\ h >= H => h + wsize >= H
       /\ h < H => h + wsize < size
  <2>1. h = x + rlen
    BY <1>12 DEF h
  <2>2. H <= size
    BY <1>2
  <2>3. x + rlen >= H => mark = size - H
    BY <1>13, <2>1
  <2> DEFINE v == BodyTakes(x + rlen, n - rlen, H, mark)
  <2>4. RoundFits(x, n, H, size, rlen, v)
    <3>1. x \in Nat /\ n \in Nat /\ H \in Nat /\ size \in Nat /\ x < size
      BY <1>1
    <3> QED
      BY <1>10, <2>2, <2>3, <3>1, RoundNumbers, Zenon
  <2>5. wsize = v
    BY <1>7, <2>1
  <2> HIDE DEF v
  <2> QED
    BY <2>1, <2>4, <2>5 DEF RoundFits
<1>15. e \in Seq(Nat) /\ Len(e) = wsize /\ Consecutive(e, from + h)
  <2>1. n = Len(m) /\ Consecutive(m, from + x)
    BY DEF n, x
  <2>2. /\ SubSeq(m, rlen + 1, rlen + wsize) \in Seq(Nat)
        /\ Len(SubSeq(m, rlen + 1, rlen + wsize)) = (rlen + wsize) - rlen
        /\ Consecutive(SubSeq(m, rlen + 1, rlen + wsize), (from + x) + rlen)
    <3>1. from + x \in Nat
      BY <1>1
    <3> QED
      BY <1>14, <2>1, <3>1, ConsecutivePart
  <2>3. (from + x) + rlen = from + h
    <3>1. h = x + rlen
      BY <1>12 DEF h
    <3> QED
      BY <1>1, <1>10, <3>1
  <2> QED
    BY <1>14, <2>2, <2>3 DEF e
<1>16. whole \in Seq(Nat) /\ Len(whole) = h + wsize /\ Consecutive(whole, from)
  BY <1>1, <1>5, <1>12, <1>15, ConsecutiveConcat DEF h
<1>17. Len(whole) >= H => MarkLen(c, whole) = size - H
  BY <1>16, MarkLenOf DEF H
<1>18. IF Complete(c, b, m) THEN Len(whole) = size ELSE Len(whole) < size
  <2> DEFINE w == Len(whole)
             wmark == MarkLen(c, whole)
  <2>1. w = h + wsize /\ (w >= H => wmark = size - H)
    BY <1>16, <1>17
  <2>2. w \in Nat
    BY <1>16
  <2>3. Complete(c, b, m) <=> (h >= H /\ w = wmark + H)
    BY <1>8
  <2> HIDE DEF w, wmark
  <2>4. h \in Nat /\ H \in Nat /\ size \in Nat /\ w <= size
    BY <1>1, <1>14, <2>1
  <2>5. CASE h >= H
    <3>1. wmark = size - H
      BY <1>14, <2>1, <2>5
    <3>2. wmark + H = size
      BY <2>4, <3>1
    <3> QED
      BY <2>2, <2>3, <2>4, <2>5, <3>2 DEF w
  <2>6. CASE h < H
    <3>1. w < size /\ ~(h >= H)
      BY <1>14, <2>1, <2>4, <2>6
    <3> QED
      BY <2>3, <3>1 DEF w
  <2> QED
    BY <2>4, <2>5, <2>6
<1> QED
  BY <1>9, <1>14, <1>16, <1>18 DEF x, n, whole

(* a byte in the buffer belongs to a packet the peer has written *)
LEMMA PacketBeingRead ==
  ASSUME NetInv, NEW c \in Conns, NEW d \in Conns, d = Peer(c), mBuffer[c] # <<>>
  PROVE  LET k == Len(delivered[c]) + 1
         IN  /\ k \in 1 .. Len(offered[d])
             /\ offered[d][k].from = Boundary(d, k - 1)
             /\ offered[d][k].from \in Nat /\ offered[d][k].to \in Nat
             /\ Len(readPacket[c]) < offered[d][k].to - offered[d][k].from
<1> DEFINE n == Len(delivered[c])
           r == Len(readPacket[c])
           m == Len(mBuffer[c])
           o == offered[d]
           b == Boundary(d, n)
<1>1. IInv /\ SourceInv(d) /\ ReadInv(c, d) /\ NetTypeOK
  BY DEF NetInv
<1>2. n \in Nat /\ r \in Nat /\ m \in Nat /\ m # 0 /\ readCount[c] \in Nat
  BY <1>1 DEF NetTypeOK
<1>3. handle[c] # "destroyed"
  BY <1>1 DEF ReadInv
<1>4. StreamPlace(c, d)
  BY <1>1, <1>3 DEF ReadInv
<1>5. n <= Len(o) /\ Len(o) \in Nat
  BY <1>1, OfferedPackets DEF ReadInv
<1>6. n \in 0 .. Len(o)
  BY <1>2, <1>5
<1>7. /\ b \in Nat
      /\ n < Len(o) => n + 1 \in 1 .. Len(o) /\ o[n + 1].from = b
      /\ n = Len(o) => b = StreamEnd(d)
  BY <1>1, <1>6, BoundaryNext
<1>8. b + r + m = readCount[c]
  BY <1>4 DEF StreamPlace
<1>9. readCount[c] <= Len(accepted[d]) /\ Len(accepted[d]) <= StreamEnd(d)
  BY <1>1 DEF ReadInv, SourceInv
<1>10. Len(accepted[d]) \in Nat /\ StreamEnd(d) \in Nat
  <2>1. Len(o) \in 0 .. Len(o)
    BY <1>5
  <2>2. Len(accepted[d]) \in Nat
    BY <1>1 DEF IInv, TypeOK
  <2> QED
    BY <1>1, <2>1, <2>2, BoundaryNext
<1> HIDE DEF n, r, m, o, b
<1>11. n < Len(o)
  <2>1. b < StreamEnd(d)
    BY <1>2, <1>7, <1>8, <1>9, <1>10
  <2>2. n # Len(o)
    BY <1>7, <1>10, <2>1
  <2> QED
    BY <1>2, <1>5, <2>2
<1>12. n + 1 \in 1 .. Len(o) /\ o[n + 1].from = b
  BY <1>7, <1>11
<1>13. o[n + 1].from \in Nat /\ o[n + 1].to \in Nat
  BY <1>1, <1>12, OfferedPackets DEF o
<1>14. r < o[n + 1].to - o[n + 1].from
  <2>1. CASE r > 0
    BY <1>4, <2>1 DEF StreamPlace, n, r, o
  <2>2. CASE r = 0
    <3>1. o[n + 1].to - o[n + 1].from >= HeadSize /\ HeadSize > 0 /\ HeadSize \in Nat
      BY <1>1, <1>12, HeadSizeAssumption DEF SourceInv, o
    <3> QED
      BY <1>13, <2>2, <3>1
  <2> QED
    BY <1>2, <2>1, <2>2
<1>15. (n + 1) - 1 = n
  BY <1>2
<1> QED
  BY <1>12, <1>13, <1>14, <1>15 DEF n, r, o, b

(* a packet is its bytes *)
LEMMA BytesOf ==
  ASSUME NEW p \in Packet, NEW q \in Seq(Nat), Len(q) = p.to - p.from, Consecutive(q, p.from)
  PROVE  q = Bytes(p)
<1> DEFINE n == p.to - p.from
<1>1. Len(q) = n /\ DOMAIN q = 1 .. n /\ q = [j \in 1 .. n |-> q[j]]
  OBVIOUS
<1>2. \A j \in 1 .. n : q[j] = p.from + j - 1
  BY <1>1 DEF Consecutive
<1>3. Bytes(p) = [j \in 1 .. n |-> p.from + j - 1]
  BY DEF Bytes
<1> HIDE DEF n
<1> QED
  BY <1>1, <1>2, <1>3

LEMMA OnMsgBufferEffect ==
  ASSUME NetTypeOK, NEW c \in Conns, OnMsgBuffer(c)
  PROVE  LET b == readPacket[c]
             m == mBuffer[c]
         IN  /\ mBuffer[c] # <<>>
             /\ mBuffer' = [mBuffer EXCEPT ![c] = SubSeq(m, Used(c, b, m) + 1, Len(m))]
             /\ IF Complete(c, b, m)
                  THEN /\ delivered' = [delivered EXCEPT ![c] = Append(delivered[c], Whole(c, b, m))]
                       /\ readPacket' = [readPacket EXCEPT ![c] = <<>>]
                  ELSE /\ readPacket' = [readPacket EXCEPT ![c] = Whole(c, b, m)]
                       /\ UNCHANGED delivered
             /\ UNCHANGED <<vars, readCount>>
<1> DEFINE b == readPacket[c]
           m == mBuffer[c]
           used == Used(c, b, m)
           whole == Whole(c, b, m)
<1>1. /\ m # <<>> /\ UNCHANGED <<vars, readCount>>
      /\ mBuffer' = [mBuffer EXCEPT ![c] = SubSeq(@, used + 1, Len(@))]
      /\ IF Complete(c, b, m)
           THEN /\ delivered' = [delivered EXCEPT ![c] = Append(@, whole)]
                /\ readPacket' = [readPacket EXCEPT ![c] = <<>>]
           ELSE /\ readPacket' = [readPacket EXCEPT ![c] = whole]
                /\ UNCHANGED delivered
  <2>1. PICK rlen \in {HeadPart(b, m)} : \E head \in {b \o SubSeq(m, 1, rlen)} :
        \E wsize \in {IF ReachesBody(b, head) THEN BodyBytes(c, head, Len(m) - rlen) ELSE 0} :
        \E w \in {head \o SubSeq(m, rlen + 1, rlen + wsize)} :
          /\ mBuffer' = [mBuffer EXCEPT ![c] = SubSeq(@, rlen + wsize + 1, Len(@))]
          /\ IF ReachesBody(b, head) /\ Len(w) = MarkLen(c, w) + HeadSize
               THEN /\ delivered' = [delivered EXCEPT ![c] = Append(@, w)]
                    /\ readPacket' = [readPacket EXCEPT ![c] = <<>>]
               ELSE /\ readPacket' = [readPacket EXCEPT ![c] = w]
                    /\ UNCHANGED delivered
    BY DEF OnMsgBuffer, HeadPart
  <2>2. m # <<>> /\ UNCHANGED <<vars, readCount>>
    BY DEF OnMsgBuffer
  <2> QED
    BY <2>1, <2>2 DEF Complete, Whole, Used, BodyPart, WithHead
<1> HIDE DEF used, whole
<1>2. mBuffer' = [mBuffer EXCEPT ![c] = SubSeq(m, used + 1, Len(m))]
  BY <1>1
<1> QED
  BY <1>1, <1>2 DEF used, whole

(* Reading stays in step with the stream; a packet handed to onMsg is the   *)
(* next packet the peer has written.                                        *)
LEMMA RoundInv ==
  ASSUME NetInv, NEW c \in Conns, NEW d \in Conns, d = Peer(c), OnMsgBuffer(c)
  PROVE  LET n == Len(delivered[c])
         IN  /\ ReadInv(c, d)'
             /\ readPacket' \in [Conns -> Seq(Nat)]
             /\ mBuffer' \in [Conns -> Seq(Nat)]
             /\ delivered' \in [Conns -> Seq(Seq(Nat))]
             /\ \/ UNCHANGED delivered
                \/ /\ n + 1 \in 1 .. Len(offered[d])
                   /\ delivered' = [delivered EXCEPT ![c] = Append(@, Bytes(offered[d][n + 1]))]
<1> DEFINE b == readPacket[c]
           m == mBuffer[c]
           n == Len(delivered[c])
           u == Used(c, b, m)
           w == Whole(c, b, m)
           p == offered[d][n + 1]
           size == p.to - p.from
           rest == SubSeq(m, u + 1, Len(m))
<1>1. IInv /\ SourceInv(d) /\ ReadInv(c, d) /\ NetTypeOK
  BY DEF NetInv
<1>2. /\ m # <<>>
      /\ mBuffer' = [mBuffer EXCEPT ![c] = rest]
      /\ Complete(c, b, m) =>
           /\ delivered' = [delivered EXCEPT ![c] = Append(delivered[c], w)]
           /\ readPacket' = [readPacket EXCEPT ![c] = <<>>]
      /\ ~Complete(c, b, m) =>
           /\ readPacket' = [readPacket EXCEPT ![c] = w]
           /\ UNCHANGED delivered
      /\ UNCHANGED <<vars, readCount>>
  BY <1>1, OnMsgBufferEffect
<1>3. /\ b \in Seq(Nat) /\ m \in Seq(Nat) /\ n \in Nat /\ readCount[c] \in Nat
      /\ delivered[c] \in Seq(Seq(Nat)) /\ Len(b) \in Nat /\ Len(m) \in Nat
  BY <1>1 DEF NetTypeOK
<1>4. /\ n + 1 \in 1 .. Len(offered[d]) /\ (n + 1) - 1 = n
      /\ p.from = Boundary(d, n) /\ p.from \in Nat /\ p.to \in Nat
      /\ Len(b) < size
  <2>1. /\ n + 1 \in 1 .. Len(offered[d])
        /\ p.from = Boundary(d, (n + 1) - 1) /\ p.from \in Nat /\ p.to \in Nat
        /\ Len(b) < size
    BY <1>2, PacketBeingRead
  <2>2. (n + 1) - 1 = n
    BY <1>3
  <2> QED
    BY <2>1, <2>2
<1>5. handle[c] \in {"open", "closing"} /\ handle[c] # "destroyed"
  BY <1>1, <1>2 DEF ReadInv
<1>6. /\ Boundary(d, n) + Len(b) + Len(m) = readCount[c]
      /\ Consecutive(b, p.from) /\ Consecutive(m, p.from + Len(b))
  BY <1>1, <1>4, <1>5 DEF ReadInv, StreamPlace
<1>7. size \in Nat
  <2> HIDE DEF p, b
  <2> QED
    BY <1>3, <1>4
<1>8. /\ u \in 0 .. Len(m)
      /\ w \in Seq(Nat) /\ Len(w) = Len(b) + u /\ Consecutive(w, p.from)
      /\ IF Complete(c, b, m) THEN Len(w) = size ELSE Len(w) < size
  <2> HIDE DEF b, m, u, w
  <2>1. /\ Used(c, b, m) \in 0 .. Len(m)
        /\ Whole(c, b, m) \in Seq(Nat)
        /\ Len(Whole(c, b, m)) = Len(b) + Used(c, b, m)
        /\ Consecutive(Whole(c, b, m), p.from)
        /\ IF Complete(c, b, m) THEN Len(Whole(c, b, m)) = size
                                ELSE Len(Whole(c, b, m)) < size
    BY <1>1, <1>3, <1>4, <1>6, <1>7, RoundBytes
  <2> QED
    BY <2>1 DEF u, w
<1> HIDE DEF b, m, n, u, w, p, size, rest
<1>9. rest \in Seq(Nat) /\ Len(rest) = Len(m) - u /\ Consecutive(rest, (p.from + Len(b)) + u)
  <2>1. Len(m) \in Nat /\ Len(b) \in Nat
    BY <1>3
  <2>2. p.from \in Nat
    BY <1>4
  <2>3. u \in 0 .. Len(m)
    BY <1>8
  <2>4. Len(m) \in 0 .. Len(m) /\ p.from + Len(b) \in Nat
    BY <2>1, <2>2
  <2> QED
    <3>1. m \in Seq(Nat) /\ Consecutive(m, p.from + Len(b))
      BY <1>3, <1>6
    <3> QED
      BY <2>3, <2>4, <3>1, ConsecutivePart DEF rest
<1>10. /\ mBuffer' \in [Conns -> Seq(Nat)] /\ mBuffer'[c] = rest
       /\ offered' = offered /\ readCount' = readCount /\ handle' = handle /\ accepted' = accepted
  BY <1>1, <1>2, <1>9 DEF NetTypeOK, vars
<1>11. /\ mBuffer'[c] # <<>> => handle'[c] \in {"open", "closing"}
       /\ readCount'[c] <= Len(accepted'[d])
       /\ handle'[c] # "destroyed"
  BY <1>1, <1>5, <1>10 DEF ReadInv
<1>12. /\ n <= Len(offered[d])
       /\ \A i \in 1 .. n : delivered[c][i] = Bytes(offered[d][i])
  BY <1>1 DEF ReadInv, n
<1>13. CASE Complete(c, b, m)
  <2>1. w = Bytes(p)
    <3>1. p \in Packet
      BY <1>1, <1>4, OfferedPackets DEF p
    <3> QED
      BY <1>8, <1>13, <3>1, BytesOf DEF size
  <2>2. /\ delivered' = [delivered EXCEPT ![c] = Append(delivered[c], w)]
        /\ readPacket' = [readPacket EXCEPT ![c] = <<>>]
    BY <1>2, <1>13
  <2>3. /\ Append(delivered[c], w) \in Seq(Seq(Nat))
        /\ Len(Append(delivered[c], w)) = n + 1 /\ Append(delivered[c], w)[n + 1] = w
        /\ \A i \in 1 .. n : Append(delivered[c], w)[i] = delivered[c][i]
    BY <1>3, <1>8, AppendProperties DEF n
  <2>4. /\ delivered' \in [Conns -> Seq(Seq(Nat))] /\ readPacket' \in [Conns -> Seq(Nat)]
        /\ delivered'[c] = Append(delivered[c], w) /\ readPacket'[c] = <<>>
    BY <1>1, <2>2, <2>3 DEF NetTypeOK
  <2>5. Len(delivered'[c]) = n + 1 /\ n + 1 <= Len(offered'[d])
    BY <1>4, <1>10, <2>3, <2>4
  <2>6. ASSUME NEW i \in 1 .. n + 1 PROVE delivered'[c][i] = Bytes(offered'[d][i])
    <3>1. i \in 1 .. n \/ i = n + 1
      BY <1>3
    <3> QED
      BY <1>10, <1>12, <2>1, <2>3, <2>4, <3>1 DEF p
  <2>7. StreamPlace(c, d)'
    <3>1. n + 1 # 0 /\ offered'[d][n + 1].to = p.to
      BY <1>3, <1>10 DEF p
    <3>2. p.to = (p.from + Len(b)) + u
      <4>1. p.from \in Nat /\ p.to \in Nat /\ Len(b) \in Nat
        BY <1>3, <1>4
      <4>2. u \in Nat /\ Len(b) + u = p.to - p.from
        BY <1>3, <1>8, <1>13 DEF size
      <4> QED
        BY <4>1, <4>2
    <3>3. Len(<<>>) = 0 /\ p.to + 0 = p.to
      BY <1>4
    <3>4. p.to + 0 + Len(rest) = readCount[c]
      BY <1>3, <1>4, <1>6, <1>8, <1>9, <3>2
    <3>5. Consecutive(<<>>, p.to) /\ Consecutive(rest, p.to + 0)
      BY <1>9, <3>2, <3>3 DEF Consecutive
    <3>6. Len(delivered'[c]) = n + 1 /\ readPacket'[c] = <<>> /\ mBuffer'[c] = rest
      BY <1>10, <2>4, <2>5
    <3>7. readCount'[c] = readCount[c]
      BY <1>10
    <3> QED
      BY <3>1, <3>3, <3>4, <3>5, <3>6, <3>7 DEF StreamPlace, Boundary, Consecutive
  <2>8. ReadInv(c, d)'
    BY <1>11, <2>5, <2>6, <2>7 DEF ReadInv
  <2> QED
    BY <1>4, <1>10, <2>1, <2>2, <2>4, <2>8 DEF n, p
<1>14. CASE ~Complete(c, b, m)
  <2>1. readPacket' = [readPacket EXCEPT ![c] = w] /\ delivered' = delivered
    BY <1>2, <1>14
  <2>2. /\ readPacket' \in [Conns -> Seq(Nat)] /\ readPacket'[c] = w
        /\ delivered' \in [Conns -> Seq(Seq(Nat))]
    BY <1>1, <1>8, <2>1 DEF NetTypeOK
  <2>3. StreamPlace(c, d)'
    <3>1. /\ Len(delivered'[c]) = n
          /\ (IF n = 0 THEN 0 ELSE offered'[d][n].to) = p.from
      BY <1>4, <1>10, <2>1 DEF Boundary, n
    <3>2. Len(w) = Len(b) + u /\ p.from + Len(w) = (p.from + Len(b)) + u
      BY <1>3, <1>4, <1>8
    <3>3. p.from + Len(w) + Len(rest) = readCount[c]
      BY <1>3, <1>4, <1>6, <1>8, <1>9, <3>2
    <3>4. Consecutive(w, p.from) /\ Consecutive(rest, p.from + Len(w))
      BY <1>8, <1>9, <3>2
    <3>5. n < Len(offered[d]) /\ Len(w) < p.to - p.from
      BY <1>3, <1>4, <1>8, <1>14 DEF size
    <3>6. readPacket'[c] = w /\ mBuffer'[c] = rest /\ readCount'[c] = readCount[c]
      BY <1>10, <2>2
    <3>7. offered'[d] = offered[d]
      BY <1>10
    <3> QED
      BY <3>1, <3>3, <3>4, <3>5, <3>6, <3>7 DEF StreamPlace, Boundary, Consecutive, p
  <2>4. ReadInv(c, d)'
    BY <1>10, <1>11, <1>12, <2>1, <2>3 DEF ReadInv, n
  <2> QED
    BY <1>10, <2>1, <2>2, <2>4
<1> QED
  BY <1>13, <1>14

(* what a read returns follows what was read before *)
LEMMA EchoReadInv ==
  ASSUME NetInv, NEW c \in Conns, NEW d \in Conns, d = Peer(c), NEW k \in Nat, EchoRead(c, k)
  PROVE  /\ ReadInv(c, d)'
         /\ readCount' \in [Conns -> Nat]
         /\ mBuffer' \in [Conns -> Seq(Nat)]
<1> DEFINE a == accepted[d]
           n == readCount[c]
           b == Boundary(d, Len(delivered[c]))
           r == Len(readPacket[c])
           unread == SubSeq(a, n + 1, Len(a))
           new == SubSeq(unread, 1, k)
<1>1. IInv /\ ReadInv(c, d) /\ NetTypeOK
  BY DEF NetInv
<1>2. /\ handle[c] = "open" /\ mBuffer[c] = <<>>
      /\ k \in 1 .. Least(Len(unread), BufferSize)
      /\ mBuffer' = [mBuffer EXCEPT ![c] = new]
      /\ readCount' = [readCount EXCEPT ![c] = n + k]
      /\ UNCHANGED <<vars, readPacket, delivered>>
  BY DEF EchoRead, Unread
<1>3. a \in Seq(Nat) /\ Len(a) \in Nat /\ n \in Nat /\ n <= Len(a) /\ r \in Nat
  <2>1. n \in Nat /\ r \in Nat
    BY <1>1 DEF NetTypeOK
  <2>2. a \in Seq(Nat) /\ Len(a) \in Nat
    BY <1>1 DEF IInv, TypeOK
  <2>3. n <= Len(a)
    BY <1>1 DEF ReadInv
  <2> QED
    BY <2>1, <2>2, <2>3
<1>4. Consecutive(a, 0)
  <2>1. \A i \in 1 .. Len(a) : a[i] = i - 1
    BY <1>1 DEF IInv, StreamInv
  <2>2. \A i \in 1 .. Len(a) : i - 1 = 0 + i - 1
    BY <1>3
  <2> QED
    BY <2>1, <2>2 DEF Consecutive
<1>5. /\ b + r + Len(mBuffer[c]) = n
      /\ Consecutive(readPacket[c], b)
      /\ r > 0 => /\ Len(delivered[c]) < Len(offered[d])
                  /\ r < offered[d][Len(delivered[c]) + 1].to
                         - offered[d][Len(delivered[c]) + 1].from
  BY <1>1, <1>2 DEF ReadInv, StreamPlace
<1>6. b \in Nat
  <2>1. Len(delivered[c]) \in Nat /\ Len(delivered[c]) <= Len(offered[d]) /\ Len(offered[d]) \in Nat
    BY <1>1, OfferedPackets DEF ReadInv, NetTypeOK
  <2>2. Len(delivered[c]) \in 0 .. Len(offered[d])
    BY <2>1
  <2> QED
    BY <1>1, <2>2, BoundaryNext
<1> HIDE DEF a, n, b, r, unread, new
<1>7. n = b + r
  BY <1>2, <1>3, <1>5, <1>6
<1>8. unread \in Seq(Nat) /\ Len(unread) = Len(a) - n /\ Consecutive(unread, n)
  <2>1. Len(a) \in 0 .. Len(a) /\ n \in 0 .. Len(a) /\ 0 + n = n /\ 0 \in Nat
    BY <1>3
  <2> QED
    BY <1>3, <1>4, <2>1, ConsecutivePart DEF unread
<1>9. k <= Len(unread) /\ k > 0
  <2>1. Len(unread) \in Nat /\ BufferSize \in Nat
    BY <1>8, BufferSizeAssumption
  <2> QED
    BY <1>2, <2>1 DEF Least
<1>10. new \in Seq(Nat) /\ Len(new) = k /\ Consecutive(new, n)
  <2>1. k \in 0 .. Len(unread) /\ 0 \in 0 .. k /\ 0 + 1 = 1 /\ k - 0 = k /\ n + 0 = n
    BY <1>3, <1>8, <1>9
  <2>2. /\ SubSeq(unread, 0 + 1, k) \in Seq(Nat) /\ Len(SubSeq(unread, 0 + 1, k)) = k - 0
        /\ Consecutive(SubSeq(unread, 0 + 1, k), n + 0)
    BY <1>3, <1>8, <2>1, ConsecutivePart
  <2> QED
    BY <2>1, <2>2 DEF new
<1>11. n + k \in Nat /\ n + k <= Len(a) /\ b + r + k = n + k
  BY <1>3, <1>6, <1>7, <1>8, <1>9
<1>12. /\ mBuffer' \in [Conns -> Seq(Nat)] /\ mBuffer'[c] = new
       /\ readCount' \in [Conns -> Nat] /\ readCount'[c] = n + k
  BY <1>1, <1>2, <1>10, <1>11 DEF NetTypeOK
<1>13. /\ handle'[c] = "open" /\ offered' = offered /\ accepted' = accepted
       /\ readPacket' = readPacket /\ delivered' = delivered
  BY <1>2 DEF vars
<1>14. StreamPlace(c, d)'
  <2>1. /\ b + r + Len(new) = n + k
        /\ Consecutive(readPacket[c], b) /\ Consecutive(new, b + r)
    BY <1>5, <1>7, <1>10, <1>11
  <2> QED
    BY <1>5, <1>12, <1>13, <2>1 DEF StreamPlace, Boundary, Consecutive, b, r
<1>15. ReadInv(c, d)'
  <2>1. /\ Len(delivered[c]) <= Len(offered[d])
        /\ \A i \in 1 .. Len(delivered[c]) : delivered[c][i] = Bytes(offered[d][i])
    BY <1>1 DEF ReadInv
  <2> QED
    BY <1>11, <1>12, <1>13, <1>14, <2>1 DEF ReadInv, a
<1> QED
  BY <1>12, <1>15

(* what the peer writes later does not disturb what was read *)
LEMMA ReadKept ==
  ASSUME NetInv, NEW c \in Conns, NEW d \in Conns, d = Peer(c), Grows(d),
         readCount'[c] = readCount[c], mBuffer'[c] = mBuffer[c],
         readPacket'[c] = readPacket[c], delivered'[c] = delivered[c],
         mBuffer[c] # <<>> => handle'[c] \in {"open", "closing"},
         handle'[c] = "destroyed" <=> handle[c] = "destroyed",
         Len(offered'[d]) \in Nat, Len(accepted'[d]) \in Nat
  PROVE  ReadInv(c, d)'
<1> DEFINE n == Len(delivered[c])
           o == offered[d]
<1>1. IInv /\ ReadInv(c, d) /\ NetTypeOK
  BY DEF NetInv
<1>2. /\ n \in Nat /\ n <= Len(o) /\ Len(o) \in Nat
      /\ readCount[c] \in Nat /\ Len(accepted[d]) \in Nat
  <2>1. n \in Nat /\ readCount[c] \in Nat
    BY <1>1 DEF NetTypeOK
  <2>2. Len(accepted[d]) \in Nat
    BY <1>1 DEF IInv, TypeOK
  <2>3. n <= Len(o)
    BY <1>1 DEF ReadInv
  <2> QED
    BY <1>1, <2>1, <2>2, <2>3, OfferedPackets
<1>3. /\ Len(o) <= Len(offered'[d]) /\ Len(accepted[d]) <= Len(accepted'[d])
      /\ \A i \in 1 .. Len(o) : offered'[d][i] = o[i]
  BY DEF Grows
<1>4. \A i \in 1 .. n : i \in 1 .. Len(o)
  BY <1>2
<1>5. n <= Len(offered'[d]) /\ readCount[c] <= Len(accepted'[d])
  <2>1. readCount[c] <= Len(accepted[d])
    BY <1>1 DEF ReadInv
  <2> QED
    BY <1>2, <1>3, <2>1
<1>6. \A i \in 1 .. n : delivered[c][i] = Bytes(offered'[d][i])
  BY <1>1, <1>3, <1>4 DEF ReadInv
<1>7. ASSUME StreamPlace(c, d) PROVE StreamPlace(c, d)'
  <2>1. n # 0 => n \in 1 .. Len(o)
    BY <1>2
  <2>2. n # 0 => offered'[d][n] = o[n]
    BY <1>3, <2>1
  <2>3. n < Len(o) => n < Len(offered'[d]) /\ offered'[d][n + 1] = o[n + 1]
    <3>1. n < Len(o) => n + 1 \in 1 .. Len(o)
      BY <1>2
    <3> QED
      BY <1>2, <1>3, <3>1
  <2> QED
    BY <1>7, <2>2, <2>3 DEF StreamPlace, Boundary, Consecutive
<1> QED
  BY <1>1, <1>5, <1>6, <1>7 DEF ReadInv

(* a deleted connection has nothing half read *)
LEMMA NetDestroyInv ==
  ASSUME NetInv, NEW c \in Conns, NEW d \in Conns, d = Peer(c), mBuffer[c] = <<>>, NetDestroy(c)
  PROVE  ReadInv(c, d)' /\ readPacket' \in [Conns -> Seq(Nat)]
<1>1. ReadInv(c, d) /\ NetTypeOK /\ TypeOK
  BY DEF NetInv, NetTypeOK
<1>2. /\ readPacket' = [readPacket EXCEPT ![c] = <<>>] /\ handle' = [handle EXCEPT ![c] = "destroyed"]
      /\ UNCHANGED <<readCount, mBuffer, delivered, offered, accepted>>
  BY DEF NetDestroy, Destroy
<1>3. readPacket' \in [Conns -> Seq(Nat)] /\ readPacket'[c] = <<>> /\ handle'[c] = "destroyed"
  BY <1>1, <1>2 DEF NetTypeOK, TypeOK
<1> QED
  BY <1>1, <1>2, <1>3 DEF ReadInv

-----------------------------------------------------------------------------
(* The invariant *)

LEMMA NetInitInv == NetInit => NetInv
<1> SUFFICES ASSUME NetInit PROVE NetInv
  OBVIOUS
<1>1. IInv
  BY InitInv DEF NetInit
<1>2. <<>> \in Seq(Nat) /\ <<>> \in Seq(Seq(Nat)) /\ Len(<<>>) = 0
  OBVIOUS
<1>3. NetTypeOK
  BY <1>1, <1>2 DEF NetInit, NetTypeOK, IInv
<1>4. \A d \in Conns : offered[d] = <<>> /\ accepted[d] = <<>> /\ handle[d] = "open"
  BY DEF NetInit, Init
<1>5. \A d \in Conns : SourceInv(d)
  BY <1>2, <1>4 DEF SourceInv, StreamEnd
<1>6. ASSUME NEW c \in Conns, NEW d \in Conns, d = Peer(c) PROVE ReadInv(c, d)
  <2>1. /\ delivered[c] = <<>> /\ readPacket[c] = <<>> /\ mBuffer[c] = <<>> /\ readCount[c] = 0
    BY DEF NetInit
  <2> QED
    BY <1>2, <1>4, <2>1 DEF ReadInv, StreamPlace, Boundary, Consecutive
<1> QED
  BY <1>1, <1>3, <1>5, <1>6 DEF NetInv

(* A step of the connection is one of the socket's, or leaves it alone. *)
LEMMA SocketStep == [NetNext]_netVars => [Next]_vars
<1>1. ASSUME NetNext, NEW e \in Conns, EndStep(e) PROVE [Next]_vars
  <2>1. ~aborted
    BY <1>1 DEF NetNext
  <2>2. ReadStep(e) => UNCHANGED vars
    BY DEF ReadStep, EchoRead, OnMsgBuffer
  <2>3. EndStep(e) /\ ~ReadStep(e) => AppStep(e) \/ LoopStep(e)
    BY DEF EndStep, WriteStep, CloseStep, EndOfStream, NetDestroy, LoopStep
  <2> QED
    BY <1>1, <2>1, <2>2, <2>3 DEF Next
<1>2. UNCHANGED netVars => UNCHANGED vars
  BY DEF netVars
<1> QED
  BY <1>1, <1>2 DEF NetNext

LEMMA LengthsNext ==
  ASSUME IInv', NEW d \in Conns
  PROVE  Len(offered'[d]) \in Nat /\ Len(accepted'[d]) \in Nat
<1>1. offered' \in [Conns -> Seq(Packet)] /\ accepted' \in [Conns -> Seq(Nat)]
  BY DEF IInv, TypeOK, Packet
<1>2. offered'[d] \in Seq(Packet) /\ accepted'[d] \in Seq(Nat)
  BY <1>1
<1> QED
  BY <1>2

(* a step of the socket of e that leaves what e has read alone *)
LEMMA SendingInv ==
  ASSUME NetInv, IInv', NEW e \in Conns, AppStep(e) \/ LoopStep(e), UNCHANGED readVars,
         \/ handle' = handle
         \/ handle[e] = "open" /\ handle' = [handle EXCEPT ![e] = "closing"]
         \/ mBuffer[e] = <<>> /\ handle[e] = "closing" /\ handle' = [handle EXCEPT ![e] = "onclose"]
  PROVE  NetInv'
<1>1. IInv /\ TypeOK /\ NetTypeOK /\ \A d \in Conns : SourceInv(d)
  BY DEF NetInv, NetTypeOK
<1>2. \A d \in Conns : SourceInv(d)' /\ Grows(d)
  BY <1>1, SourceStep
<1>3. NetTypeOK'
  BY <1>1 DEF NetTypeOK, readVars, IInv
<1>4. ASSUME NEW c \in Conns, NEW d \in Conns, d = Peer(c) PROVE ReadInv(c, d)'
  <2>1. ReadInv(c, d)
    BY <1>4 DEF NetInv
  <2>2. /\ mBuffer[c] # <<>> => handle'[c] \in {"open", "closing"}
        /\ handle'[c] = "destroyed" <=> handle[c] = "destroyed"
    BY <1>1, <2>1 DEF ReadInv, TypeOK
  <2>3. Len(offered'[d]) \in Nat /\ Len(accepted'[d]) \in Nat
    BY LengthsNext
  <2>4. /\ readCount'[c] = readCount[c] /\ mBuffer'[c] = mBuffer[c]
        /\ readPacket'[c] = readPacket[c] /\ delivered'[c] = delivered[c]
    BY DEF readVars
  <2> QED
    BY <1>2, <1>4, <2>2, <2>3, <2>4, ReadKept
<1> QED
  BY <1>2, <1>3, <1>4 DEF NetInv

(* a step that reads at e leaves the other end's reading alone *)
LEMMA ReadingInv ==
  ASSUME NetInv, NEW e \in Conns, UNCHANGED vars, NetTypeOK',
         ReadInv(e, Peer(e))',
         \A c \in Conns : c # e =>
           /\ readCount'[c] = readCount[c] /\ mBuffer'[c] = mBuffer[c]
           /\ readPacket'[c] = readPacket[c] /\ delivered'[c] = delivered[c]
  PROVE  NetInv'
<1>1. IInv /\ (\A d \in Conns : SourceInv(d)) /\ NetTypeOK
  BY DEF NetInv
<1>2. IInv'
  BY <1>1, NextInv DEF vars
<1>3. \A d \in Conns : SourceInv(d)' /\ Grows(d)
  BY <1>1, SourceUntouched DEF vars
<1>4. ASSUME NEW c \in Conns, NEW d \in Conns, d = Peer(c) PROVE ReadInv(c, d)'
  <2>1. CASE c = e
    BY <1>4, <2>1
  <2>2. CASE c # e
    <3>1. ReadInv(c, d)
      BY <1>4 DEF NetInv
    <3>2. /\ mBuffer[c] # <<>> => handle'[c] \in {"open", "closing"}
          /\ handle'[c] = "destroyed" <=> handle[c] = "destroyed"
      BY <3>1 DEF ReadInv, vars
    <3>3. Len(offered'[d]) \in Nat /\ Len(accepted'[d]) \in Nat
      BY <1>2, LengthsNext
    <3> QED
      BY <1>3, <1>4, <2>2, <3>2, <3>3, ReadKept
  <2> QED
    BY <2>1, <2>2
<1> QED
  BY <1>2, <1>3, <1>4 DEF NetInv

LEMMA NetNextInv == NetInv /\ [NetNext]_netVars => NetInv'
<1> SUFFICES ASSUME NetInv, [NetNext]_netVars PROVE NetInv'
  OBVIOUS
<1>1. IInv /\ NetTypeOK /\ TypeOK /\ \A d \in Conns : SourceInv(d)
  BY DEF NetInv, NetTypeOK
<1>2. IInv' /\ TypeOK'
  BY <1>1, SocketStep, NextInv DEF IInv
<1>3. ASSUME NEW e \in Conns, AppStep(e) \/ WriteStep(e) \/ CloseStep(e), UNCHANGED readVars
      PROVE  NetInv'
  <2>1. AppStep(e) \/ LoopStep(e)
    BY <1>3 DEF WriteStep, CloseStep, LoopStep
  <2>2. \/ handle' = handle
        \/ handle[e] = "open" /\ handle' = [handle EXCEPT ![e] = "closing"]
        \/ mBuffer[e] = <<>> /\ handle[e] = "closing" /\ handle' = [handle EXCEPT ![e] = "onclose"]
    BY <1>3 DEF AppStep, WriteStep, CloseStep, Write, Close, KernelWrite, KernelFail,
                EchoWrite, OnUvClose
  <2> QED
    BY <1>2, <1>3, <2>1, <2>2, SendingInv
<1>4. ASSUME NEW e \in Conns, EndOfStream(e) PROVE NetInv'
  <2>1. /\ LoopStep(e) /\ UNCHANGED readVars
        /\ handle[e] = "open" /\ handle' = [handle EXCEPT ![e] = "closing"]
    BY <1>4 DEF EndOfStream, LoopStep, EchoReadEnd
  <2> QED
    BY <1>2, <2>1, SendingInv
<1>5. ASSUME NEW e \in Conns, NEW k \in 1 .. BufferSize, EchoRead(e, k) PROVE NetInv'
  <2>1. k \in Nat /\ Peer(e) \in Conns
    BY BufferSizeAssumption, PeerIsEnd
  <2>2. /\ ReadInv(e, Peer(e))'
        /\ readCount' \in [Conns -> Nat] /\ mBuffer' \in [Conns -> Seq(Nat)]
    BY <1>5, <2>1, EchoReadInv
  <2>3. /\ UNCHANGED <<vars, readPacket, delivered>>
        /\ \A c \in Conns : c # e => readCount'[c] = readCount[c] /\ mBuffer'[c] = mBuffer[c]
    BY <1>1, <1>5 DEF EchoRead, NetTypeOK
  <2>4. NetTypeOK'
    BY <1>1, <1>2, <2>2, <2>3 DEF NetTypeOK
  <2> QED
    BY <2>2, <2>3, <2>4, ReadingInv
<1>6. ASSUME NEW e \in Conns, OnMsgBuffer(e) PROVE NetInv'
  <2>1. Peer(e) \in Conns
    BY PeerIsEnd
  <2>2. /\ ReadInv(e, Peer(e))'
        /\ readPacket' \in [Conns -> Seq(Nat)] /\ mBuffer' \in [Conns -> Seq(Nat)]
        /\ delivered' \in [Conns -> Seq(Seq(Nat))]
    BY <1>6, <2>1, RoundInv
  <2>3. /\ UNCHANGED <<vars, readCount>>
        /\ \A c \in Conns : c # e => /\ mBuffer'[c] = mBuffer[c]
                                     /\ readPacket'[c] = readPacket[c]
                                     /\ delivered'[c] = delivered[c]
    <3> DEFINE b == readPacket[e]
               m == mBuffer[e]
               used == Used(e, b, m)
               whole == Whole(e, b, m)
               complete == Complete(e, b, m)
    <3>1. /\ UNCHANGED <<vars, readCount>>
          /\ mBuffer' = [mBuffer EXCEPT ![e] = SubSeq(m, used + 1, Len(m))]
          /\ IF complete
               THEN /\ delivered' = [delivered EXCEPT ![e] = Append(delivered[e], whole)]
                    /\ readPacket' = [readPacket EXCEPT ![e] = <<>>]
               ELSE /\ readPacket' = [readPacket EXCEPT ![e] = whole]
                    /\ UNCHANGED delivered
      BY <1>1, <1>6, OnMsgBufferEffect
    <3> HIDE DEF b, m, used, whole, complete
    <3> QED
      BY <1>1, <3>1 DEF NetTypeOK
  <2>4. NetTypeOK'
    BY <1>1, <1>2, <2>2, <2>3 DEF NetTypeOK
  <2> QED
    BY <2>2, <2>3, <2>4, ReadingInv
<1>7. ASSUME NEW e \in Conns, mBuffer[e] = <<>>, NetDestroy(e) PROVE NetInv'
  <2>1. /\ LoopStep(e)
        /\ handle[e] = "onclose" /\ handle' = [handle EXCEPT ![e] = "destroyed"]
        /\ readPacket' = [readPacket EXCEPT ![e] = <<>>]
        /\ UNCHANGED <<readCount, mBuffer, delivered>>
    BY <1>7 DEF NetDestroy, Destroy, LoopStep
  <2>2. \A d \in Conns : SourceInv(d)' /\ Grows(d)
    BY <1>1, <2>1, SourceStep
  <2>3. readPacket' \in [Conns -> Seq(Nat)]
    BY <1>7, PeerIsEnd, NetDestroyInv
  <2>4. NetTypeOK'
    BY <1>1, <1>2, <2>1, <2>3 DEF NetTypeOK
  <2>5. ASSUME NEW c \in Conns, NEW d \in Conns, d = Peer(c) PROVE ReadInv(c, d)'
    <3>1. CASE c = e
      BY <1>7, <2>5, <3>1, NetDestroyInv
    <3>2. CASE c # e
      <4>1. handle'[c] = handle[c] /\ readPacket'[c] = readPacket[c]
        BY <1>1, <2>1, <3>2 DEF TypeOK, NetTypeOK
      <4>2. ReadInv(c, d)
        BY <2>5 DEF NetInv
      <4>3. /\ mBuffer[c] # <<>> => handle'[c] \in {"open", "closing"}
            /\ handle'[c] = "destroyed" <=> handle[c] = "destroyed"
        BY <4>1, <4>2 DEF ReadInv
      <4>4. Len(offered'[d]) \in Nat /\ Len(accepted'[d]) \in Nat
        BY <1>2, LengthsNext
      <4> QED
        BY <2>1, <2>2, <2>5, <4>1, <4>3, <4>4, ReadKept
    <3> QED
      BY <3>1, <3>2
  <2> QED
    BY <1>2, <2>2, <2>4, <2>5 DEF NetInv
<1>8. ASSUME UNCHANGED netVars PROVE NetInv'
  <2>1. UNCHANGED vars /\ UNCHANGED readVars
    BY <1>8 DEF netVars
  <2>2. NetTypeOK'
    BY <1>1, <1>2, <2>1 DEF NetTypeOK, readVars
  <2>3. PICK e \in Conns : TRUE
    BY TwoEnds
  <2>4. ReadInv(e, Peer(e)) /\ Peer(e) \in Conns
    BY PeerIsEnd DEF NetInv
  <2>5. ReadInv(e, Peer(e))'
    BY <2>1, <2>4 DEF ReadInv, StreamPlace, Boundary, vars, readVars
  <2> QED
    BY <2>1, <2>2, <2>5, ReadingInv DEF readVars
<1> QED
  BY <1>3, <1>4, <1>5, <1>6, <1>7, <1>8 DEF NetNext, EndStep, ReadStep

LEMMA NetInvariance == NetSpec => []NetInv
BY NetInitInv, NetNextInv, PTL DEF NetSpec

(* Every state of the two ends has the types of the model. *)
THEOREM NetTypeCorrect == NetSpec => []NetTypeOK
<1>1. NetInv => NetTypeOK
  BY DEF NetInv
<1> QED
  BY <1>1, NetInvariance, PTL

(* onMsg gets the packets the peer wrote, whole and in order, however the   *)
(* stream was cut into writes and reads.                                    *)
THEOREM DeliveredInOrderAlways == NetSpec => []DeliveredInOrder
<1>1. ASSUME NetInv, NEW c \in Conns
      PROVE  /\ Len(delivered[c]) <= Len(offered[Peer(c)])
             /\ \A i \in 1 .. Len(delivered[c]) : delivered[c][i] = Bytes(offered[Peer(c)][i])
  <2>1. ReadInv(c, Peer(c))
    BY <1>1, PeerIsEnd DEF NetInv
  <2> QED
    BY <2>1 DEF ReadInv
<1>2. NetInv => DeliveredInOrder
  BY <1>1 DEF DeliveredInOrder
<1> QED
  BY <1>2, NetInvariance, PTL

(* Between two reads, what readPacket holds is short of its packet. *)
THEOREM NoCompletePacketHeldAlways == NetSpec => []NoCompletePacketHeld
<1>1. ASSUME NetInv, NEW c \in Conns, readPacket[c] # <<>>, IsHeadFull(readPacket[c]),
             Len(readPacket[c]) >= MarkLen(c, readPacket[c]) + HeadSize
      PROVE  FALSE
  <2> DEFINE d == Peer(c)
             n == Len(delivered[c])
             r == Len(readPacket[c])
             p == offered[d][n + 1]
  <2>1. d \in Conns /\ IInv /\ SourceInv(d) /\ NetTypeOK /\ ReadInv(c, d)
    BY <1>1, PeerIsEnd DEF NetInv
  <2>2. StreamPlace(c, d)
    BY <1>1, <2>1 DEF ReadInv
  <2>3. /\ readPacket[c] \in Seq(Nat) /\ r \in Nat /\ r > 0
        /\ n \in Nat /\ Len(offered[d]) \in Nat
    BY <1>1, <2>1, OfferedPackets DEF NetTypeOK
  <2>4. n < Len(offered[d]) /\ r < p.to - p.from /\ Consecutive(readPacket[c], Boundary(d, n))
    BY <2>2, <2>3 DEF StreamPlace
  <2>5. n \in 0 .. Len(offered[d])
    BY <2>3, <2>4
  <2>6. n + 1 \in 1 .. Len(offered[d]) /\ p.from = Boundary(d, n)
    BY <2>1, <2>4, <2>5, BoundaryNext
  <2>7. p.from \in Nat /\ p.to \in Nat
    BY <2>1, <2>6, OfferedPackets
  <2>8. r >= HeadSize
    BY <1>1 DEF IsHeadFull
  <2>9. MarkLen(c, readPacket[c]) = (p.to - p.from) - HeadSize
    BY <2>1, <2>3, <2>4, <2>6, <2>8, MarkLenOf
  <2> DEFINE mark == MarkLen(c, readPacket[c])
  <2>10. r >= mark + HeadSize /\ mark = (p.to - p.from) - HeadSize
    BY <1>1, <2>9
  <2> HIDE DEF mark, r, p
  <2> QED
    BY <2>3, <2>4, <2>7, <2>10, HeadSizeAssumption
<1>2. NetInv => NoCompletePacketHeld
  BY <1>1 DEF NoCompletePacketHeld
<1> QED
  BY <1>2, NetInvariance, PTL

-----------------------------------------------------------------------------
(* Refinement: every step of the connection is a step of the channel, or    *)
(* changes nothing the two applications see.                                *)

MessagesOf(o) == [i \in 1 .. Len(o) |-> Bytes(o[i])]

LEMMA MessagesAre ==
  ASSUME NEW o \in Seq(Packet), \A i \in 1 .. Len(o) : o[i].to - o[i].from >= HeadSize
  PROVE  /\ MessagesOf(o) \in Seq(Seq(Nat))
         /\ Len(MessagesOf(o)) = Len(o)
         /\ \A i \in 1 .. Len(o) : MessagesOf(o)[i] = Bytes(o[i])
<1>1. ASSUME NEW i \in 1 .. Len(o) PROVE Bytes(o[i]) \in Seq(Nat)
  <2> DEFINE f == o[i].from
             n == o[i].to - f
  <2>1. o[i] \in Packet
    OBVIOUS
  <2>2. f \in Nat /\ o[i].to \in Nat /\ n >= HeadSize
    BY <2>1 DEF Packet
  <2>3. n \in Nat /\ Bytes(o[i]) = [j \in 1 .. n |-> f + j - 1]
    BY <2>2, HeadSizeAssumption DEF Bytes
  <2> HIDE DEF n, f
  <2>4. \A j \in 1 .. n : f + j - 1 \in Nat
    BY <2>2, <2>3
  <2> QED
    BY <2>3, <2>4
<1>2. Len(o) \in Nat
  OBVIOUS
<1> QED
  BY <1>1, <1>2 DEF MessagesOf

LEMMA SourcesAre ==
  ASSUME NetInv, NEW c \in Conns
  PROVE  /\ MessagesOf(offered[c]) \in Seq(Seq(Nat))
         /\ Len(MessagesOf(offered[c])) = Len(offered[c])
         /\ \A i \in 1 .. Len(offered[c]) : MessagesOf(offered[c])[i] = Bytes(offered[c][i])
<1>1. offered[c] \in Seq(Packet) /\ SourceInv(c)
  BY OfferedPackets DEF NetInv
<1> QED
  BY <1>1, MessagesAre DEF SourceInv

LEMMA SourcesAreNext ==
  ASSUME NetInv', NEW c \in Conns
  PROVE  /\ MessagesOf(offered'[c]) \in Seq(Seq(Nat))
         /\ Len(MessagesOf(offered'[c])) = Len(offered'[c])
         /\ \A i \in 1 .. Len(offered'[c]) : MessagesOf(offered'[c])[i] = Bytes(offered'[c][i])
<1>1. SourceInv(c)' /\ offered' \in [Conns -> Seq(Packet)]
  BY DEF NetInv, NetTypeOK, TypeOK, Packet
<1> QED
  BY <1>1, MessagesAre DEF SourceInv

LEMMA SendRefined ==
  ASSUME NetInv, NetInv', NEW e \in Conns, NEW size \in Sizes, Write(e, size), UNCHANGED readVars
  PROVE  Channel!Send(e)
<1> DEFINE S == [c \in Conns |-> MessagesOf(offered[c])]
           T == [c \in Conns |-> MessagesOf(offered'[c])]
           n == Len(offered[e])
<1>1. /\ offered \in [Conns -> Seq(Packet)] /\ n \in Nat /\ Len(offered'[e]) = n + 1
      /\ \A i \in 1 .. n : offered'[e][i] = offered[e][i]
      /\ \A c \in Conns : c # e => offered'[c] = offered[c]
      /\ handle[e] # "destroyed" /\ handle' = handle
  <2> DEFINE p == [from |-> StreamEnd(e), to |-> StreamEnd(e) + size]
  <2>1. IInv /\ offered \in [Conns -> Seq(Packet)]
    BY DEF NetInv, NetTypeOK, TypeOK
  <2>2. /\ offered' = [offered EXCEPT ![e] = Append(offered[e], p)]
        /\ handle[e] # "destroyed" /\ handle' = handle
    BY DEF Write
  <2>3. p \in Packet
    <3>1. n \in Nat /\ n \in 0 .. n
      BY <2>1
    <3>2. StreamEnd(e) \in Nat
      BY <2>1, <3>1, BoundaryNext
    <3> QED
      BY <3>2, SizesAssumption DEF Packet
  <2> HIDE DEF p
  <2>4. /\ Len(Append(offered[e], p)) = n + 1
        /\ \A i \in 1 .. n : Append(offered[e], p)[i] = offered[e][i]
    BY <2>1, <2>3, AppendProperties
  <2> QED
    BY <2>1, <2>2, <2>4
<1>2. /\ S[e] \in Seq(Seq(Nat)) /\ Len(S[e]) = n
      /\ \A i \in 1 .. n : S[e][i] = Bytes(offered[e][i])
  BY SourcesAre
<1>3. /\ T[e] \in Seq(Seq(Nat)) /\ Len(T[e]) = n + 1
      /\ \A i \in 1 .. n + 1 : T[e][i] = Bytes(offered'[e][i])
  BY <1>1, SourcesAreNext
<1>4. T = [S EXCEPT ![e] = T[e]]
  BY <1>1
<1>5. S = [c \in Conns |-> [i \in 1 .. Len(offered[c]) |-> Bytes(offered[c][i])]]
      /\ T = [c \in Conns |-> [i \in 1 .. Len(offered'[c]) |-> Bytes(offered'[c][i])]]
  BY DEF MessagesOf
<1> HIDE DEF S, T, n
<1>6. SubSeq(T[e], 1, n) = S[e]
  <2> DEFINE q == SubSeq(T[e], 1, n)
  <2>1. /\ q \in Seq(Seq(Nat)) /\ Len(q) = n
        /\ \A i \in 1 .. n : q[i] = T[e][i]
    BY <1>1, <1>3
  <2> HIDE DEF q
  <2>2. \A i \in 1 .. n : i \in 1 .. n + 1
    BY <1>1
  <2>3. \A i \in 1 .. n : q[i] = S[e][i]
    BY <1>1, <1>2, <1>3, <2>1, <2>2
  <2>4. q = S[e]
    BY <1>2, <2>1, <2>3, SeqEqual
  <2> QED
    BY <2>4 DEF q
<1>7. UNCHANGED <<delivered, handle>>
  BY <1>1 DEF readVars
<1> QED
  BY <1>1, <1>2, <1>3, <1>4, <1>5, <1>6, <1>7 DEF Channel!Send

LEMMA DeliverRefined ==
  ASSUME NetInv, NEW e \in Conns, OnMsgBuffer(e), delivered' # delivered
  PROVE  Channel!Deliver(e)
<1> DEFINE S == [c \in Conns |-> [i \in 1 .. Len(offered[c]) |-> Bytes(offered[c][i])]]
           n == Len(delivered[e])
           d == Peer(e)
<1>1. d \in Conns /\ NetTypeOK /\ IInv
  BY PeerIsEnd DEF NetInv
<1>2. /\ n + 1 \in 1 .. Len(offered[d])
      /\ delivered' = [delivered EXCEPT ![e] = Append(@, Bytes(offered[d][n + 1]))]
  BY <1>1, RoundInv
<1>3. S[d] = MessagesOf(offered[d])
  BY <1>1 DEF MessagesOf
<1>4. S[d][n + 1] = Bytes(offered[d][n + 1]) /\ Len(S[d]) = Len(offered[d])
  BY <1>1, <1>2, <1>3, SourcesAre
<1>5. n < Len(S[d])
  <2>1. n \in Nat /\ Len(offered[d]) \in Nat
    BY <1>1, OfferedPackets DEF NetTypeOK
  <2> QED
    BY <1>2, <1>4, <2>1
<1>6. handle[e] \in {"open", "closing"}
  <2>1. mBuffer[e] # <<>> /\ ReadInv(e, d)
    BY <1>1 DEF NetInv, OnMsgBuffer
  <2> QED
    BY <2>1 DEF ReadInv
<1>7. UNCHANGED <<offered, handle>>
  BY DEF OnMsgBuffer, vars
<1> HIDE DEF S
<1>8. delivered' = [delivered EXCEPT ![e] = Append(@, S[d][Len(@) + 1])]
  BY <1>2, <1>4
<1> QED
  BY <1>5, <1>6, <1>7, <1>8 DEF Channel!Deliver, S

LEMMA ChannelUnchanged ==
  ASSUME UNCHANGED <<offered, delivered, handle>>
  PROVE  UNCHANGED Channel!chanVars
BY DEF Channel!chanVars

LEMMA ChannelStep ==
  ASSUME NetInv, NetInv', [NetNext]_netVars
  PROVE  [Channel!ChanNext]_(Channel!chanVars)
<1>1. ASSUME NEW e \in Conns, AppStep(e), UNCHANGED readVars
      PROVE  [Channel!ChanNext]_(Channel!chanVars)
  <2>1. ASSUME NEW size \in Sizes, Write(e, size) PROVE Channel!ChanNext
    BY <1>1, <2>1, SendRefined DEF Channel!ChanNext
  <2>2. ASSUME Close(e), handle[e] = "open" PROVE Channel!ChanNext
    <3>1. Channel!Hangup(e)
      BY <1>1, <2>2 DEF Close, Channel!Hangup, readVars
    <3> QED
      BY <3>1 DEF Channel!ChanNext
  <2>3. ASSUME Close(e), handle[e] # "open" PROVE UNCHANGED Channel!chanVars
    BY <1>1, <2>3, ChannelUnchanged DEF Close, readVars
  <2> QED
    BY <1>1, <2>1, <2>2, <2>3 DEF AppStep
<1>2. ASSUME NEW e \in Conns, WriteStep(e), UNCHANGED readVars
      PROVE  UNCHANGED Channel!chanVars
  <2>1. UNCHANGED <<offered, delivered, handle>>
    BY <1>2 DEF WriteStep, KernelWrite, KernelFail, EchoWrite, readVars
  <2> QED
    BY <2>1, ChannelUnchanged
<1>3. ASSUME NEW e \in Conns, CloseStep(e), UNCHANGED readVars PROVE Channel!ChanNext
  <2>1. Channel!OnClose(e)
    BY <1>3 DEF CloseStep, OnUvClose, Channel!OnClose, readVars
  <2> QED
    BY <2>1 DEF Channel!ChanNext
<1>4. ASSUME NEW e \in Conns, EndOfStream(e) PROVE Channel!ChanNext
  <2>1. Channel!Hangup(e)
    BY <1>4 DEF EndOfStream, EchoReadEnd, Channel!Hangup, readVars
  <2> QED
    BY <2>1 DEF Channel!ChanNext
<1>5. ASSUME NEW e \in Conns, ReadStep(e) PROVE [Channel!ChanNext]_(Channel!chanVars)
  <2>1. UNCHANGED <<offered, handle>>
    BY <1>5 DEF ReadStep, EchoRead, OnMsgBuffer, vars
  <2>2. CASE UNCHANGED delivered
    BY <2>1, <2>2, ChannelUnchanged
  <2>3. CASE ~UNCHANGED delivered
    <3>1. OnMsgBuffer(e)
      BY <1>5, <2>3 DEF ReadStep, EchoRead
    <3>2. Channel!Deliver(e)
      BY <2>3, <3>1, DeliverRefined
    <3> QED
      BY <3>2 DEF Channel!ChanNext
  <2> QED
    BY <2>2, <2>3
<1>6. ASSUME NEW e \in Conns, NetDestroy(e) PROVE Channel!ChanNext
  <2>1. Channel!Delete(e)
    BY <1>6 DEF NetDestroy, Destroy, Channel!Delete
  <2> QED
    BY <2>1 DEF Channel!ChanNext
<1>7. ASSUME UNCHANGED netVars PROVE UNCHANGED Channel!chanVars
  BY <1>7, ChannelUnchanged DEF netVars, vars, readVars
<1> QED
  BY <1>1, <1>2, <1>3, <1>4, <1>5, <1>6, <1>7 DEF NetNext, EndStep

LEMMA ChannelInit == NetInit => Channel!ChanInit
<1> SUFFICES ASSUME NetInit PROVE Channel!ChanInit
  OBVIOUS
<1>1. \A c \in Conns : offered[c] = <<>>
  BY DEF NetInit, Init
<1>2. \A c \in Conns : [i \in 1 .. Len(offered[c]) |-> Bytes(offered[c][i])] = <<>>
  BY <1>1
<1> QED
  BY <1>2 DEF NetInit, Init, Channel!ChanInit

(* The two ends are a channel: messages arrive whole, once and in order, a  *)
(* closing end may still be given some, one whose onClose ran never.  (The  *)
(* safety part of ImplementsChannel.)                                       *)
THEOREM ChannelRefined == NetSpec => Channel!ChanSafety
<1>1. NetInv /\ NetInv' /\ [NetNext]_netVars => [Channel!ChanNext]_(Channel!chanVars)
  BY ChannelStep
<1> QED
  BY <1>1, ChannelInit, NetInvariance, PTL DEF NetSpec, Channel!ChanSafety
=============================================================================
