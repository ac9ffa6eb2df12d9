----------------------- MODULE WebSocketConnectProofs -----------------------
(***************************************************************************)
(* Proofs about WebSocketConnect: that it is well typed for whatever the   *)
(* client sends, and, as long as no frame has an extended length, that     *)
(* frames are handed over whole and in order and none is held back.        *)
(*                                                                         *)
(* HeadRule says what _wpos means: it counts the bytes of the packet as if *)
(* the head ended with the 14 bytes reserved for it.  Place says where     *)
(* every byte of the stream is: in the frames handed over, then in the     *)
(* packet, then in the buffer, then not read yet.                          *)
(***************************************************************************)
EXTENDS WebSocketConnect, Concatenation

-----------------------------------------------------------------------------
(* Numbers *)

LEMMA LeastOf ==
  ASSUME NEW x \in Nat, NEW y \in Nat
  PROVE  /\ Least(x, y) \in Nat /\ Least(x, y) <= x /\ Least(x, y) <= y
         /\ Least(x, y) = x \/ Least(x, y) = y
         /\ x > 0 /\ y > 0 => Least(x, y) > 0
  BY DEF Least

(* the head from its second byte on, where l + n = 2 bytes are there, of h, *)
(* and d bytes in the buffer                                                *)
LEMMA HeadFromSecond ==
  ASSUME NEW h \in 2 .. 14, NEW l \in Nat, NEW n \in Nat, l + n = 2,
         NEW d \in Nat, n <= d, NEW s \in Nat, s <= h - 2, s <= d - n
  PROVE  /\ 14 - h + 2 >= 2 /\ n + s \in n .. d /\ l + (n + s) <= h
         /\ 14 - h + 2 + s \in Nat
         /\ 14 - h + 2 + s = l + (n + s) + (14 - h)
  OBVIOUS

(* the rest of a head of which more than the first two bytes are there *)
LEMMA HeadRest ==
  ASSUME NEW h \in 2 .. 14, NEW l \in Nat, l >= 2, NEW d \in Nat,
         NEW v \in Nat, v = l + (14 - h), NEW s \in Nat, s > 0, s <= 14 - v, s <= d
  PROVE  /\ v >= 2 /\ s \in 1 .. d /\ l + s <= h
         /\ v + s \in Nat /\ v + s = l + s + (14 - h)
  OBVIOUS

(* the body: l bytes are there, of a head of h and a body of m *)
LEMMA BodyRest ==
  ASSUME NEW h \in 2 .. 14, NEW m \in Nat, NEW l \in Nat, l <= h + m, NEW d \in Nat,
         NEW v \in Nat, v = l + (14 - h),
         NEW n \in Nat, n <= m + (14 - v), n <= d, n = m + (14 - v) \/ n = d
  PROVE  /\ n \in 0 .. d /\ l + n <= h + m
         /\ v + n \in Nat /\ v + n = l + n + (14 - h)
         /\ n = d \/ l + n = h + m
         /\ v + n = m + 14 <=> l + n = h + m
  OBVIOUS

-----------------------------------------------------------------------------
(* Types, for any stream *)

(* a byte of the stream *)
StreamByte == [frame : 1 .. Len(stream), at : Nat]

Packets == [bytes : Seq(StreamByte), wpos : Nat]

(* the size of the frame that the first bytes of b announce, as the code    *)
(* works it out                                                             *)
Announced(b) == CalcHeadSize(b) + GetMarkLen(b)

(* what _wpos counts *)
HeadRule(p) ==
  IF Len(p.bytes) < WsHeadSize THEN p.wpos = Len(p.bytes)
  ELSE /\ p.wpos = Len(p.bytes) + (WsMaxHeadSize - CalcHeadSize(p.bytes))
       /\ Len(p.bytes) <= Announced(p.bytes)

WsTypes ==
  /\ handle \in {"open", "closing", "closed"}
  /\ isHandshake \in BOOLEAN
  /\ tries \in 0 .. MaxTries
  /\ stream \in Streams
  /\ unread \in Seq(StreamByte)
  /\ mBuffer \in Seq(StreamByte)
  /\ packet \in Packets
  /\ delivered \in Seq(Seq(StreamByte))
  /\ HeadRule(packet)

LEMMA StreamTyped ==
  ASSUME stream \in Streams
  PROVE  /\ stream \in Seq(Frames) /\ Len(stream) \in Nat
         /\ \A i \in 1 .. Len(stream) : stream[i] \in Frames /\ stream[i].len <= LongestFrame
<1>1. stream \in Seq(Frames)
  BY WsStreamsAssumption
<1>2. \A i \in 1 .. Len(stream) : stream[i] \in Frames
  BY <1>1
<1>3. \A i \in 1 .. Len(stream) : stream[i].len <= LongestFrame
  BY LengthsBounded
<1> QED
  BY <1>1, <1>2, <1>3

(* the first two bytes say what the head is, and they are all that does *)
LEMMA HeadTyped ==
  ASSUME stream \in Streams, NEW b \in Seq(StreamByte), Len(b) >= 2
  PROVE  /\ CalcHeadSize(b) \in 2 .. 14
         /\ GetMarkLen(b) \in Nat /\ GetMarkLen(b) <= LongestFrame
         /\ \A c : c[1] = b[1] /\ c[2] = b[2] =>
              HeadOf(c) = HeadOf(b) /\ CalcHeadSize(c) = CalcHeadSize(b)
              /\ GetMarkLen(c) = GetMarkLen(b)
<1> DEFINE h == HeadOf(b)
<1>1. 1 \in 1 .. Len(b)
  OBVIOUS
<1>2. b[1] \in StreamByte
  BY <1>1
<1>3. b[1].frame \in 1 .. Len(stream)
  BY <1>2 DEF StreamByte
<1>4. stream[b[1].frame] \in Frames /\ stream[b[1].frame].len <= LongestFrame
  BY <1>3, StreamTyped
<1>5. h = stream[b[1].frame] \/ h = [kind |-> "data", len |-> 0, ext |-> 0, masked |-> FALSE]
  BY DEF HeadOf
<1>6. LongestFrame \in Nat
  BY LengthsBounded
<1>7. h.len \in Nat /\ h.len <= LongestFrame /\ h.ext \in {0, 2, 8} /\ h.masked \in BOOLEAN
  <2>1. CASE h = stream[b[1].frame]
    BY <1>4, <2>1 DEF Frames
  <2>2. CASE h = [kind |-> "data", len |-> 0, ext |-> 0, masked |-> FALSE]
    <3>1. 0 <= LongestFrame
      BY <1>6
    <3> QED
      BY <2>2, <3>1
  <2> HIDE DEF h
  <2> QED
    BY <1>5, <2>1, <2>2
<1>8. CalcHeadSize(b) = 2 + h.ext + (IF h.masked THEN 4 ELSE 0)
  BY DEF CalcHeadSize, WsHeadSize
<1>9. GetMarkLen(b) = IF h.ext = 0 THEN h.len ELSE 0
  BY DEF GetMarkLen
<1> HIDE DEF h
<1>10. CalcHeadSize(b) \in 2 .. 14
  BY <1>7, <1>8
<1>11. GetMarkLen(b) \in Nat /\ GetMarkLen(b) <= LongestFrame
  BY <1>6, <1>7, <1>9
<1>12. ASSUME NEW c, c[1] = b[1], c[2] = b[2]
       PROVE  HeadOf(c) = HeadOf(b) /\ CalcHeadSize(c) = CalcHeadSize(b)
              /\ GetMarkLen(c) = GetMarkLen(b)
  <2>1. HeadOf(c) = HeadOf(b)
    BY <1>12 DEF HeadOf
  <2> QED
    BY <2>1 DEF CalcHeadSize, GetMarkLen
<1> QED
  BY <1>10, <1>11, <1>12

(* A round of readFrameHead takes bytes from the front of the buffer, at    *)
(* least one, and not beyond the head.                                      *)
LEMMA HeadTaken ==
  ASSUME stream \in Streams, NEW p \in Packets, HeadRule(p), ~IsHeadFull(p),
         NEW b \in Seq(StreamByte), b # <<>>
  PROVE  /\ ReadFrameHead(p, b) \in Packets /\ HeadRule(ReadFrameHead(p, b))
         /\ \E m \in 1 .. Len(b) : ReadFrameHead(p, b).bytes = p.bytes \o SubSeq(b, 1, m)
         /\ Len(ReadFrameHead(p, b).bytes) >= 2 =>
              Len(ReadFrameHead(p, b).bytes) <= CalcHeadSize(ReadFrameHead(p, b).bytes)
<1> DEFINE t == p.bytes
           v == p.wpos
           l == Len(t)
           d == Len(b)
           n == IF v < WsHeadSize THEN Least(WsHeadSize - v, d) ELSE 0
           two == t \o SubSeq(b, 1, n)
           w == IF n > 0 /\ v + n = WsHeadSize
                  THEN WsMaxHeadSize - CalcHeadSize(two) + WsHeadSize
                  ELSE v + n
           rest == IF w >= WsHeadSize THEN Least(WsMaxHeadSize - w, d - n) ELSE 0
           q == [bytes |-> t \o SubSeq(b, 1, n + rest), wpos |-> w + rest]
           Good(r) == /\ r \in Packets /\ HeadRule(r)
                      /\ \E m \in 1 .. Len(b) : r.bytes = t \o SubSeq(b, 1, m)
                      /\ Len(r.bytes) >= 2 => Len(r.bytes) <= CalcHeadSize(r.bytes)
<1>1. ReadFrameHead(p, b) = q
  BY DEF ReadFrameHead, FirstBytes
<1>2. t \in Seq(StreamByte) /\ v \in Nat
  BY DEF Packets
<1>6. /\ v < 14 \/ ~(v \in Nat)
      /\ IF l < 2 THEN v = l ELSE v = l + (14 - CalcHeadSize(t))
  BY <1>2 DEF HeadRule, IsHeadFull, WsHeadSize, WsMaxHeadSize
<1> HIDE DEF t, v
<1>3. l \in Nat /\ d \in Nat /\ d > 0
  BY <1>2
<1>4. ASSUME NEW m \in 1 .. d, NEW u \in Nat,
             l + m < 2 => u = l + m,
             NEW h \in Nat,
             l + m >= 2 => /\ u = l + m + (14 - h) /\ l + m <= h
                           /\ h = CalcHeadSize(t \o SubSeq(b, 1, m))
      PROVE  Good([bytes |-> t \o SubSeq(b, 1, m), wpos |-> u])
  <2> DEFINE c == t \o SubSeq(b, 1, m)
             r == [bytes |-> c, wpos |-> u]
  <2>1. m \in 0 .. Len(b)
    BY <1>4
  <2>2. c \in Seq(StreamByte) /\ Len(c) = l + m
    BY <1>2, <2>1, PieceBehind
  <2>3. r.bytes = c /\ r.wpos = u /\ r \in Packets
    BY <2>2 DEF Packets
  <2> HIDE DEF r, c
  <2>4. Len(c) \in Nat
    BY <2>2
  <2>5. HeadRule(r)
    <3>1. CASE Len(c) < 2
      BY <1>4, <2>2, <2>3, <3>1 DEF HeadRule, WsHeadSize
    <3>2. CASE Len(c) >= 2
      <4>1. GetMarkLen(c) \in Nat
        BY <2>2, <3>2, HeadTyped
      <4>2. h = CalcHeadSize(c) /\ u = Len(c) + (14 - h) /\ Len(c) <= h
        BY <1>4, <2>2, <3>2 DEF c
      <4>3. Len(c) <= h + GetMarkLen(c)
        BY <2>4, <4>1, <4>2
      <4>4. ~(Len(c) < 2)
        BY <2>4, <3>2
      <4> QED
        BY <2>3, <4>2, <4>3, <4>4 DEF HeadRule, WsHeadSize, WsMaxHeadSize, Announced
    <3> QED
      BY <2>4, <3>1, <3>2
  <2>6. Len(c) >= 2 => Len(c) <= CalcHeadSize(c)
    BY <1>4, <2>2 DEF c
  <2>7. c = t \o SubSeq(b, 1, m) /\ m \in 1 .. Len(b)
    BY <1>4 DEF c
  <2> QED
    BY <2>3, <2>5, <2>6, <2>7 DEF r
<1> HIDE DEF Good
<1>5. Good(q)
  <2>1. CASE l >= 2
    <3> DEFINE h == CalcHeadSize(t)
               s == Least(14 - v, d)
    <3>1. h \in 2 .. 14 /\ \A c : c[1] = t[1] /\ c[2] = t[2] => CalcHeadSize(c) = h
      BY <1>2, <2>1, HeadTyped
    <3>2. v = l + (14 - h) /\ v < 14
      BY <1>2, <1>3, <1>6, <2>1
    <3> HIDE DEF h
    <3>3. /\ v >= 2 /\ s \in 1 .. d /\ l + s <= h
          /\ v + s \in Nat /\ v + s = l + s + (14 - h)
      <4> HIDE DEF l, d
      <4> DEFINE x == 14 - v
      <4>1. l \in Nat /\ l >= 2 /\ d \in Nat /\ d > 0 /\ v \in Nat /\ v = l + (14 - h)
        BY <1>2, <1>3, <2>1, <3>2
      <4>2. h \in 2 .. 14
        BY <3>1
      <4>3. x \in Nat /\ x > 0 /\ s = Least(x, d)
        BY <3>2, <4>1
      <4> HIDE DEF x, s
      <4>4. s \in Nat /\ s <= x /\ s <= d /\ s > 0
        BY <4>1, <4>3, LeastOf
      <4>5. s <= 14 - v
        BY <4>4 DEF x
      <4> QED
        BY <4>1, <4>2, <4>4, <4>5, HeadRest
    <3> HIDE DEF s, d, l
    <3>4. n = 0 /\ w = v /\ rest = s
      <4>1. n = 0
        BY <1>2, <3>3 DEF WsHeadSize
      <4> HIDE DEF n
      <4>2. w = v
        BY <1>2, <4>1
      <4> HIDE DEF w
      <4>3. d - n = d
        BY <1>3, <4>1
      <4> QED
        BY <3>3, <4>1, <4>2, <4>3 DEF WsHeadSize, WsMaxHeadSize, s
    <3> HIDE DEF n, w, rest
    <3>5. n + rest = s /\ w + rest = v + s
      BY <3>3, <3>4
    <3>6. q = [bytes |-> t \o SubSeq(b, 1, s), wpos |-> v + s]
      BY <3>5
    <3>7. s \in 0 .. Len(b) /\ l + s >= 2 /\ ~(l + s < 2) /\ h \in Nat
      BY <1>3, <2>1, <3>1, <3>3 DEF d
    <3>8. CalcHeadSize(t \o SubSeq(b, 1, s)) = h
      <4>1. \A j \in 1 .. Len(t) : (t \o SubSeq(b, 1, s))[j] = t[j]
        <5>1. s \in 0 .. Len(b)
          BY <3>7
        <5> QED
          BY <1>2, <5>1, PieceBehind
      <4>2. 1 \in 1 .. Len(t) /\ 2 \in 1 .. Len(t)
        BY <1>3, <2>1 DEF l
      <4> QED
        BY <3>1, <4>1, <4>2
    <3>9. Good([bytes |-> t \o SubSeq(b, 1, s), wpos |-> v + s])
      BY <1>4, <3>3, <3>7, <3>8
    <3> QED
      BY <3>6, <3>9
  <2>2. CASE l < 2 /\ ~(n > 0 /\ l + n = 2)
    <3>1. v = l
      BY <1>6, <2>2
    <3>2. n = Least(2 - l, d)
      BY <2>2, <3>1 DEF WsHeadSize
    <3>3. 2 - l \in Nat /\ 2 - l > 0
      BY <1>3, <2>2
    <3>4. n \in Nat /\ n <= 2 - l /\ n <= d /\ n > 0
      <4> HIDE DEF n, l, d
      <4> QED
        BY <1>3, <3>2, <3>3, LeastOf
    <3> HIDE DEF n, l, d
    <3>5. n \in 1 .. d /\ l + n < 2 /\ ~(l + n >= 2) /\ l + n \in Nat
      BY <1>3, <2>2, <3>3, <3>4
    <3>6. w = l + n
      BY <2>2, <3>1 DEF WsHeadSize
    <3>7. rest = 0
      <4> HIDE DEF w
      <4> QED
        BY <3>5, <3>6 DEF WsHeadSize
    <3> HIDE DEF w, rest
    <3>8. n + rest = n /\ w + rest = l + n
      BY <3>4, <3>5, <3>6, <3>7
    <3>9. q = [bytes |-> t \o SubSeq(b, 1, n), wpos |-> l + n]
      BY <3>8
    <3>10. Good([bytes |-> t \o SubSeq(b, 1, n), wpos |-> l + n])
      <4>1. 0 \in Nat
        OBVIOUS
      <4> QED
        BY <1>4, <3>5, <4>1
    <3> QED
      BY <3>9, <3>10
  <2>3. CASE l < 2 /\ n > 0 /\ l + n = 2
    <3> DEFINE h == CalcHeadSize(two)
               s == Least(14 - (14 - h + 2), d - n)
    <3>1. v = l
      BY <1>6, <2>3
    <3>2. n = Least(2 - l, d)
      BY <2>3, <3>1 DEF WsHeadSize
    <3>3. 2 - l \in Nat
      BY <1>3, <2>3
    <3>4. n \in Nat /\ n <= d
      <4> HIDE DEF n, l, d
      <4> QED
        BY <1>3, <3>2, <3>3, LeastOf
    <3>5. n \in 0 .. Len(b)
      BY <1>3, <3>4
    <3>6. /\ two \in Seq(StreamByte) /\ Len(two) = 2
          /\ \A j \in 1 .. l : two[j] = t[j]
          /\ \A j \in 1 .. n : two[l + j] = b[j]
      <4> HIDE DEF n
      <4>1. /\ two \in Seq(StreamByte) /\ Len(two) = Len(t) + n
            /\ \A j \in 1 .. Len(t) : two[j] = t[j]
            /\ \A j \in 1 .. n : two[Len(t) + j] = b[j]
        BY <1>2, <3>5, PieceBehind
      <4> QED
        BY <2>3, <4>1
    <3> HIDE DEF two, n, l, d
    <3>15. two \in Seq(StreamByte) /\ Len(two) >= 2
      BY <3>6
    <3>7. h \in 2 .. 14 /\ \A c : c[1] = two[1] /\ c[2] = two[2] => CalcHeadSize(c) = h
      BY <3>15, HeadTyped
    <3>8. w = 14 - h + 2
      BY <2>3, <3>1 DEF WsHeadSize, WsMaxHeadSize
    <3> HIDE DEF h
    <3>9. /\ 14 - h + 2 >= 2 /\ s \in Nat /\ n + s \in n .. d
          /\ l + (n + s) <= h
          /\ 14 - h + 2 + s \in Nat
          /\ 14 - h + 2 + s = l + (n + s) + (14 - h)
      <4> DEFINE x == 14 - (14 - h + 2)
                 y == d - n
      <4>1. h \in 2 .. 14
        BY <3>7
      <4>2. l \in Nat /\ n \in Nat /\ l + n = 2 /\ d \in Nat /\ n <= d
        BY <1>3, <2>3, <3>4
      <4>3. x \in Nat /\ x = h - 2 /\ y \in Nat /\ s = Least(x, y)
        BY <4>1, <4>2
      <4> HIDE DEF x, y, s
      <4>4. s \in Nat /\ s <= x /\ s <= y
        BY <4>3, LeastOf
      <4>5. s <= h - 2 /\ s <= d - n
        BY <4>3, <4>4 DEF y
      <4> QED
        BY <4>1, <4>2, <4>4, <4>5, HeadFromSecond
    <3>10. rest = s
      <4> HIDE DEF w
      <4> QED
        BY <3>8, <3>9 DEF WsHeadSize, WsMaxHeadSize
    <3> HIDE DEF w, rest, s
    <3>11. q = [bytes |-> t \o SubSeq(b, 1, n + s), wpos |-> 14 - h + 2 + s]
      BY <3>8, <3>10
    <3> DEFINE m == n + s
    <3>12. m \in 1 .. d /\ m \in 0 .. d /\ l + m >= 2 /\ ~(l + m < 2) /\ h \in Nat
      <4>1. l \in Nat /\ n \in Nat /\ n > 0 /\ l + n = 2 /\ d \in Nat
        BY <1>3, <2>3, <3>4
      <4>2. m \in n .. d
        BY <3>9
      <4>3. h \in Nat
        BY <3>7
      <4> HIDE DEF m
      <4> QED
        BY <4>1, <4>2, <4>3
    <3>13. CalcHeadSize(t \o SubSeq(b, 1, m)) = h
      <4> DEFINE c == t \o SubSeq(b, 1, m)
      <4>1. /\ \A j \in 1 .. l : c[j] = t[j]
            /\ \A j \in 1 .. m : c[l + j] = b[j]
        BY <1>2, <3>12, PieceBehind DEF l, d
      <4> HIDE DEF c
      <4>2. \A j \in 1 .. n : j \in 1 .. m
        BY <3>4, <3>9
      <4> HIDE DEF m
      <4>3. \A j \in 1 .. l : c[j] = two[j]
        BY <3>6, <4>1
      <4>4. \A j \in 1 .. n : c[l + j] = two[l + j]
        BY <3>6, <4>1, <4>2
      <4>5. \A j \in {1, 2} : j \in 1 .. l \/ (\E i \in 1 .. n : j = l + i)
        <5>1. l \in {0, 1} /\ n = 2 - l
          BY <1>3, <2>3, <3>4
        <5>2. CASE l = 0
          BY <5>1, <5>2
        <5>3. CASE l = 1
          BY <5>1, <5>3
        <5> QED
          BY <5>1, <5>2, <5>3
      <4>6. c[1] = two[1] /\ c[2] = two[2]
        BY <4>3, <4>4, <4>5
      <4> QED
        BY <3>7, <4>6 DEF c
    <3>14. Good([bytes |-> t \o SubSeq(b, 1, m), wpos |-> 14 - h + 2 + s])
      BY <1>4, <3>9, <3>12, <3>13
    <3> QED
      BY <3>11, <3>14
  <2> QED
    BY <1>3, <2>1, <2>2, <2>3
<1> QED
  BY <1>1, <1>5 DEF Good, t

(* A round of readBody takes bytes from the front of the buffer up to the   *)
(* end of the frame that the first two bytes announce, or all of them.      *)
LEMMA BodyTaken ==
  ASSUME stream \in Streams, NEW p \in Packets, HeadRule(p), IsHeadFull(p),
         NEW b \in Seq(StreamByte)
  PROVE  /\ ReadBody(p, b) \in Packets /\ HeadRule(ReadBody(p, b)) /\ Len(p.bytes) >= 2
         /\ \E m \in 0 .. Len(b) :
              /\ ReadBody(p, b).bytes = p.bytes \o SubSeq(b, 1, m)
              /\ m = Len(b) \/ Complete(p, ReadBody(p, b))
         /\ Complete(p, ReadBody(p, b)) <=>
              Len(ReadBody(p, b).bytes) = Announced(ReadBody(p, b).bytes)
<1> DEFINE t == p.bytes
           v == p.wpos
           l == Len(t)
           d == Len(b)
           h == CalcHeadSize(t)
           k == GetMarkLen(t)
           n == Least(k + (14 - v), d)
           c == t \o SubSeq(b, 1, n)
           q == ReadBody(p, b)
<1>1. t \in Seq(StreamByte) /\ v \in Nat
  BY DEF Packets
<1>2. l \in Nat /\ d \in Nat
  BY <1>1
<1>3. l >= 2
  BY <1>2 DEF HeadRule, IsHeadFull, WsHeadSize, WsMaxHeadSize
<1>4. /\ h \in 2 .. 14 /\ k \in Nat
      /\ \A x : x[1] = t[1] /\ x[2] = t[2] => CalcHeadSize(x) = h /\ GetMarkLen(x) = k
  BY <1>1, <1>3, HeadTyped
<1>5. v = l + (14 - h) /\ l <= h + k
  BY <1>2, <1>3 DEF HeadRule, WsHeadSize, WsMaxHeadSize, Announced
<1>6. q = [bytes |-> c, wpos |-> v + n]
  <2>1. k + 14 - v = k + (14 - v)
    BY <1>1, <1>4
  <2> QED
    BY <2>1 DEF ReadBody, WsMaxHeadSize
<1> HIDE DEF t, v, h, k
<1>7. /\ n \in 0 .. d /\ l + n <= h + k /\ v + n \in Nat
      /\ v + n = l + n + (14 - h)
      /\ n = d \/ l + n = h + k
      /\ v + n = k + 14 <=> l + n = h + k
  <2> DEFINE x == k + (14 - v)
  <2> HIDE DEF l, d
  <2>1. h \in 2 .. 14 /\ k \in Nat
    BY <1>4
  <2>2. l \in Nat /\ l <= h + k /\ d \in Nat /\ v \in Nat /\ v = l + (14 - h)
    BY <1>1, <1>2, <1>5
  <2>3. x \in Nat /\ n = Least(x, d)
    BY <2>1, <2>2
  <2> HIDE DEF x, n
  <2>4. n \in Nat /\ n <= x /\ n <= d /\ (n = x \/ n = d)
    BY <2>2, <2>3, LeastOf
  <2>5. n <= k + (14 - v) /\ (n = k + (14 - v) \/ n = d)
    BY <2>4 DEF x
  <2> QED
    BY <2>1, <2>2, <2>4, <2>5, BodyRest
<1> HIDE DEF n, q
<1>8. /\ c \in Seq(StreamByte) /\ Len(c) = l + n
      /\ \A j \in 1 .. l : c[j] = t[j]
  <2>1. n \in 0 .. Len(b)
    BY <1>7
  <2> QED
    BY <1>1, <2>1, PieceBehind
<1>9. q \in Packets /\ q.bytes = c /\ q.wpos = v + n
  BY <1>6, <1>7, <1>8 DEF Packets
<1> HIDE DEF c
<1>10. CalcHeadSize(c) = h /\ GetMarkLen(c) = k
  <2>1. 1 \in 1 .. l /\ 2 \in 1 .. l
    BY <1>2, <1>3
  <2> QED
    BY <1>4, <1>8, <2>1
<1>11. HeadRule(q)
  <2>1. Len(c) \in Nat /\ ~(Len(c) < 2)
    BY <1>2, <1>3, <1>7, <1>8
  <2> QED
    BY <1>7, <1>8, <1>9, <1>10, <2>1 DEF HeadRule, WsHeadSize, WsMaxHeadSize, Announced
<1>12. Complete(p, q) <=> Len(q.bytes) = Announced(q.bytes)
  BY <1>7, <1>8, <1>9, <1>10 DEF Complete, WsMaxHeadSize, Announced
<1>13. n \in 0 .. Len(b) /\ q.bytes = t \o SubSeq(b, 1, n) /\ (n = Len(b) \/ Complete(p, q))
  BY <1>7, <1>8, <1>9, <1>10, <1>12 DEF c, Announced
<1> QED
  BY <1>3, <1>9, <1>11, <1>12, <1>13 DEF q, t

-----------------------------------------------------------------------------
(* The stream *)

FrameBytes(fs) == [i \in 1 .. Len(fs) |-> Bytes(i, fs[i])]

(* the bytes frame i has *)
Size(i) == FrameHeadSize(stream[i]) + stream[i].len

(* e[i] is where frame i ends in the stream *)
Laid(e) ==
  /\ e \in [0 .. Len(stream) -> Nat]
  /\ e[0] = 0
  /\ Len(BytesOf(stream)) = e[Len(stream)]
  /\ \A i \in 1 .. Len(stream) :
       /\ e[i] = e[i - 1] + Size(i)
       /\ \A a \in 1 .. Size(i) : BytesOf(stream)[e[i - 1] + a] = [frame |-> i, at |-> a]

LEMMA FrameTyped ==
  ASSUME stream \in Streams, NEW i \in 1 .. Len(stream)
  PROVE  /\ Size(i) \in Nat /\ FrameHeadSize(stream[i]) \in 2 .. 14
         /\ stream[i].len \in Nat
         /\ FrameHeadSize(stream[i]) <= Size(i)
         /\ Bytes(i, stream[i]) \in Seq(StreamByte) /\ Len(Bytes(i, stream[i])) = Size(i)
         /\ \A a \in 1 .. Size(i) : Bytes(i, stream[i])[a] = [frame |-> i, at |-> a]
<1> DEFINE f == stream[i]
           n == FrameHeadSize(f) + f.len
           b == [j \in 1 .. n |-> [frame |-> i, at |-> j]]
<1>1. f \in Frames
  BY StreamTyped
<1>2. f.len \in Nat /\ f.ext \in {0, 2, 8} /\ f.masked \in BOOLEAN
  BY <1>1 DEF Frames
<1>3. FrameHeadSize(f) = 2 + f.ext + (IF f.masked THEN 4 ELSE 0)
  BY DEF FrameHeadSize, WsHeadSize
<1>4. n = Size(i) /\ Bytes(i, stream[i]) = b
  BY DEF Size, Bytes
<1> HIDE DEF f
<1>5. FrameHeadSize(f) \in 2 .. 14
  BY <1>2, <1>3
<1>6. n \in Nat /\ FrameHeadSize(f) <= n
  <2> DEFINE h == FrameHeadSize(f)
             m == f.len
  <2>1. h \in 2 .. 14 /\ m \in Nat /\ n = h + m
    BY <1>2, <1>5 DEF n
  <2> HIDE DEF h, m, n
  <2>2. n \in Nat /\ h <= n
    BY <2>1
  <2> QED
    BY <2>2 DEF h
<1> HIDE DEF n
<1>7. \A j \in 1 .. n : [frame |-> i, at |-> j] \in StreamByte
  BY <1>6 DEF StreamByte
<1>8. b \in Seq(StreamByte) /\ Len(b) = n
  BY <1>6, <1>7
<1>9. \A a \in 1 .. n : b[a] = [frame |-> i, at |-> a]
  OBVIOUS
<1> HIDE DEF b
<1> QED
  BY <1>2, <1>4, <1>5, <1>6, <1>8, <1>9 DEF f

LEMMA StreamLaid ==
  ASSUME stream \in Streams
  PROVE  BytesOf(stream) \in Seq(StreamByte) /\ \E e : Laid(e)
<1> DEFINE N == Len(stream)
           p == FrameBytes(stream)
           F(upTo) == [i \in 0 .. N |-> IF i = 0 THEN <<>> ELSE upTo[i - 1] \o Bytes(i, stream[i])]
           f == CHOOSE upTo : upTo = F(upTo)
<1>1. N \in Nat
  BY StreamTyped
<1>2. \A i \in 1 .. N : p[i] = Bytes(i, stream[i])
  BY DEF FrameBytes
<1>3. \A i \in 1 .. N : p[i] \in Seq(StreamByte) /\ Len(p[i]) = Size(i)
  BY <1>2, FrameTyped
<1>4. BytesOf(stream) = f[N]
  BY DEF BytesOf
<1>5. \A g : g = F(g) <=> Joins(g, N, p)
  <2> SUFFICES ASSUME NEW g PROVE g = F(g) <=> Joins(g, N, p)
    OBVIOUS
  <2>1. \A i \in 0 .. N : i # 0 => i \in 1 .. N
    BY <1>1
  <2>2. \A i \in 0 .. N : i # 0 => p[i] = Bytes(i, stream[i])
    BY <1>2, <2>1
  <2> HIDE DEF p
  <2>3. F(g) = [i \in 0 .. N |-> IF i = 0 THEN <<>> ELSE g[i - 1] \o p[i]]
    BY <2>2
  <2> QED
    BY <2>3 DEF Joins
<1> HIDE DEF F, p, N
<1>6. \E g : Joins(g, N, p)
  BY <1>1, JoinExists
<1>7. Joins(f, N, p)
  BY <1>5, <1>6
<1> HIDE DEF f
<1>8. f[N] \in Seq(StreamByte) /\ \E e : Layout(e, N, p, f[N])
  <2>1. \A i \in 1 .. N : p[i] \in Seq(StreamByte)
    BY <1>3
  <2> QED
    BY <1>1, <1>7, <2>1, JoinLayout
<1>9. PICK e : Layout(e, N, p, f[N])
  BY <1>8
<1>10. Laid(e)
  <2>1. e \in [0 .. N -> Nat] /\ e[0] = 0 /\ Len(f[N]) = e[N]
    BY <1>9 DEF Layout
  <2>2. ASSUME NEW i \in 1 .. N
        PROVE  /\ e[i] = e[i - 1] + Size(i)
               /\ \A a \in 1 .. Size(i) : f[N][e[i - 1] + a] = [frame |-> i, at |-> a]
    <3>1. e[i] = e[i - 1] + Len(p[i]) /\ \A a \in 1 .. Len(p[i]) : f[N][e[i - 1] + a] = p[i][a]
      BY <1>9 DEF Layout
    <3>2. \A a \in 1 .. Size(i) : p[i][a] = [frame |-> i, at |-> a]
      BY <1>2, FrameTyped DEF N
    <3>3. Len(p[i]) = Size(i)
      BY <1>3
    <3> QED
      BY <3>1, <3>2, <3>3
  <2> QED
    BY <1>4, <2>1, <2>2 DEF Laid, N
<1> QED
  BY <1>4, <1>8, <1>10

-----------------------------------------------------------------------------
(* Type correctness *)

LEMMA RuleKept ==
  ASSUME NEW q, HeadRule(q), packet' = q, stream' = stream
  PROVE  HeadRule(packet)'
  BY DEF HeadRule, Announced, CalcHeadSize, GetMarkLen, HeadOf

(* a round of on_msgbuffer moves m bytes from the buffer to the packet *)
Moves(m, q) ==
  /\ m \in 0 .. Len(mBuffer)
  /\ q \in Packets /\ HeadRule(q)
  /\ q.bytes = packet.bytes \o SubSeq(mBuffer, 1, m)
  /\ mBuffer' = SubSeq(mBuffer, m + 1, Len(mBuffer))
  /\ UNCHANGED <<isHandshake, tries, stream, unread>>

LEMMA MovedBytes ==
  ASSUME WsTypes, NEW m \in 0 .. Len(mBuffer), NEW c, c = packet.bytes \o SubSeq(mBuffer, 1, m)
  PROVE  /\ c \in Seq(StreamByte)
         /\ Len(packet.bytes) \in Nat /\ Len(mBuffer) \in Nat
         /\ Len(c) = Len(packet.bytes) + m
         /\ Len(c) - Len(packet.bytes) + 1 = m + 1
         /\ SubSeq(mBuffer, m + 1, Len(mBuffer)) \in Seq(StreamByte)
<1> DEFINE t == packet.bytes
           b == mBuffer
<1>1. t \in Seq(StreamByte) /\ b \in Seq(StreamByte) /\ m \in 0 .. Len(b)
  BY DEF WsTypes, Packets
<1>2. c = t \o SubSeq(b, 1, m)
  OBVIOUS
<1> HIDE DEF t, b
<1>3. t \o SubSeq(b, 1, m) \in Seq(StreamByte) /\ Len(t \o SubSeq(b, 1, m)) = Len(t) + m
  BY <1>1, PieceBehind
<1>4. SubSeq(b, m + 1, Len(b)) \in Seq(StreamByte)
  BY <1>1, PieceLeft
<1>5. Len(t) \in Nat /\ Len(b) \in Nat /\ m \in Nat
  BY <1>1
<1>6. Len(c) = Len(t) + m
  BY <1>2, <1>3
<1>7. Len(c) - Len(t) + 1 = m + 1
  <2> DEFINE x == Len(t)
             y == Len(c)
  <2>1. x \in Nat /\ m \in Nat /\ y = x + m
    BY <1>5, <1>6
  <2> HIDE DEF x, y
  <2>2. y - x + 1 = m + 1
    BY <2>1
  <2> QED
    BY <2>2 DEF x, y
<1> QED
  BY <1>2, <1>3, <1>4, <1>5, <1>6, <1>7 DEF t, b

LEMMA OnHeadMoves ==
  ASSUME WsTypes, OnHead
  PROVE  /\ \E m : Moves(m, packet')
         /\ Len(packet'.bytes) >= 2 => Len(packet'.bytes) <= CalcHeadSize(packet'.bytes)
         /\ packet'.bytes # <<>>
         /\ UNCHANGED <<handle, delivered>>
<1> DEFINE p == ReadFrameHead(packet, mBuffer)
<1>1. /\ packet' = p
      /\ mBuffer' = SubSeq(mBuffer, Len(p.bytes) - Len(packet.bytes) + 1, Len(mBuffer))
      /\ UNCHANGED <<handle, isHandshake, tries, stream, unread, delivered>>
  BY DEF OnHead
<1>2. /\ p \in Packets /\ HeadRule(p)
      /\ \E m \in 1 .. Len(mBuffer) : p.bytes = packet.bytes \o SubSeq(mBuffer, 1, m)
      /\ Len(p.bytes) >= 2 => Len(p.bytes) <= CalcHeadSize(p.bytes)
  BY HeadTaken DEF WsTypes, OnHead
<1> HIDE DEF p
<1>3. PICK m \in 1 .. Len(mBuffer) : p.bytes = packet.bytes \o SubSeq(mBuffer, 1, m)
  BY <1>2
<1>4. m \in 0 .. Len(mBuffer) /\ m \in Nat /\ m >= 1
  OBVIOUS
<1>5. /\ Len(p.bytes) - Len(packet.bytes) + 1 = m + 1
      /\ Len(packet.bytes) \in Nat /\ Len(p.bytes) = Len(packet.bytes) + m
  BY <1>3, <1>4, MovedBytes
<1>6. Moves(m, p)
  BY <1>1, <1>2, <1>3, <1>4, <1>5 DEF Moves
<1>7. p.bytes # <<>>
  <2>1. Len(p.bytes) # 0
    BY <1>4, <1>5
  <2> QED
    BY <2>1
<1> QED
  BY <1>1, <1>2, <1>6, <1>7

(* q is the packet with what was read, before a frame that is complete goes *)
(* to onMsg                                                                 *)
LEMMA OnBodyMoves ==
  ASSUME WsTypes, OnBody
  PROVE  \E m, q :
           /\ Moves(m, q)
           /\ Len(packet.bytes) >= 2
           /\ m = Len(mBuffer) \/ Len(q.bytes) = Announced(q.bytes)
           /\ \/ /\ Len(q.bytes) = Announced(q.bytes)
                 /\ packet' = NoPacket
                 /\ \/ /\ HeadOf(q.bytes).kind = "close"
                       /\ handle' = "closing" /\ delivered' = delivered
                    \/ /\ HeadOf(q.bytes).kind # "close"
                       /\ handle' = handle /\ delivered' = Append(delivered, q.bytes)
              \/ /\ Len(q.bytes) # Announced(q.bytes)
                 /\ packet' = q /\ UNCHANGED <<handle, delivered>>
<1> DEFINE p == ReadBody(packet, mBuffer)
<1>1. /\ mBuffer' = SubSeq(mBuffer, Len(p.bytes) - Len(packet.bytes) + 1, Len(mBuffer))
      /\ IF Complete(packet, p)
            THEN /\ packet' = NoPacket
                 /\ IF HeadOf(p.bytes).kind = "close"
                      THEN /\ handle' = "closing"
                           /\ UNCHANGED delivered
                      ELSE /\ delivered' = Append(delivered, p.bytes)
                           /\ UNCHANGED handle
            ELSE packet' = p /\ UNCHANGED <<handle, delivered>>
      /\ UNCHANGED <<isHandshake, tries, stream, unread>>
  BY DEF OnBody
<1>2. /\ p \in Packets /\ HeadRule(p) /\ Len(packet.bytes) >= 2
      /\ \E m \in 0 .. Len(mBuffer) :
           /\ p.bytes = packet.bytes \o SubSeq(mBuffer, 1, m)
           /\ m = Len(mBuffer) \/ Complete(packet, p)
      /\ Complete(packet, p) <=> Len(p.bytes) = Announced(p.bytes)
  BY BodyTaken DEF WsTypes, OnBody
<1> HIDE DEF p
<1>3. PICK m \in 0 .. Len(mBuffer) :
        /\ p.bytes = packet.bytes \o SubSeq(mBuffer, 1, m)
        /\ m = Len(mBuffer) \/ Complete(packet, p)
  BY <1>2
<1>4. Len(p.bytes) - Len(packet.bytes) + 1 = m + 1
  BY <1>3, MovedBytes
<1>5. Moves(m, p)
  BY <1>1, <1>2, <1>3, <1>4 DEF Moves
<1> QED
  BY <1>1, <1>2, <1>3, <1>5

LEMMA NoPacketTyped == NoPacket \in Packets /\ HeadRule(NoPacket)
<1>1. <<>> \in Seq(StreamByte) /\ Len(<<>>) = 0
  OBVIOUS
<1> QED
  BY <1>1 DEF NoPacket, Packets, HeadRule, WsHeadSize

LEMMA WsTypesInit == Init => WsTypes
<1> SUFFICES ASSUME Init PROVE WsTypes
  OBVIOUS
<1>1. unread \in Seq(StreamByte)
  BY StreamLaid DEF Init
<1>2. 0 \in 0 .. MaxTries
  BY WsBoundsAssumption
<1>3. <<>> \in Seq(StreamByte) /\ <<>> \in Seq(Seq(StreamByte))
  OBVIOUS
<1> QED
  BY <1>1, <1>2, <1>3, NoPacketTyped DEF Init, WsTypes

LEMMA WsTypesStep ==
  ASSUME WsTypes, [Next]_vars
  PROVE  WsTypes'
<1>1. StreamByte' = StreamByte /\ Packets' = Packets /\ stream' = stream
  BY DEF StreamByte, Packets, Next, ReadStep, RefuseHandshake, RespondHandshake, Close, EchoRead,
         OnHead, OnBody, OnUvClose, vars
<1>2. ASSUME UNCHANGED <<unread, mBuffer, packet, delivered>>,
             handle' \in {"open", "closing", "closed"}, isHandshake' \in BOOLEAN,
             tries' \in 0 .. MaxTries
      PROVE  WsTypes'
  <2>1. HeadRule(packet)'
    BY <1>1, <1>2, RuleKept DEF WsTypes
  <2> QED
    BY <1>1, <1>2, <2>1 DEF WsTypes
<1>3. CASE RefuseHandshake
  <2>1. tries' \in 0 .. MaxTries
    <3>1. MaxTries \in Nat /\ tries \in 0 .. MaxTries /\ tries < MaxTries /\ tries' = tries + 1
      BY <1>3, WsBoundsAssumption DEF RefuseHandshake, WsTypes
    <3> QED
      BY <3>1
  <2> QED
    BY <1>2, <1>3, <2>1 DEF RefuseHandshake, WsTypes
<1>4. CASE RespondHandshake
  BY <1>2, <1>4 DEF RespondHandshake, WsTypes
<1>5. CASE Close
  BY <1>2, <1>5 DEF Close, WsTypes
<1>6. CASE OnUvClose
  BY <1>2, <1>6 DEF OnUvClose, WsTypes
<1>7. ASSUME NEW n \in 1 .. MaxRead, EchoRead(n) PROVE WsTypes'
  <2>1. /\ n \in 1 .. Least(MaxRead, Len(unread))
        /\ mBuffer' = SubSeq(unread, 1, n) /\ unread' = SubSeq(unread, n + 1, Len(unread))
        /\ UNCHANGED <<handle, isHandshake, tries, stream, packet, delivered>>
    BY <1>7 DEF EchoRead
  <2>2. unread \in Seq(StreamByte) /\ Len(unread) \in Nat /\ MaxRead \in Nat
    BY WsBoundsAssumption DEF WsTypes
  <2>3. n \in Nat /\ n <= Len(unread)
    BY <2>1, <2>2 DEF Least
  <2>4. mBuffer' \in Seq(StreamByte) /\ unread' \in Seq(StreamByte)
    BY <2>1, <2>2, <2>3
  <2>5. HeadRule(packet)'
    BY <2>1, RuleKept DEF WsTypes
  <2> QED
    BY <1>1, <2>1, <2>4, <2>5 DEF WsTypes
<1>8. CASE OnHead
  <2>1. PICK m : Moves(m, packet')
    BY <1>8, OnHeadMoves
  <2>2. UNCHANGED <<handle, delivered>>
    BY <1>8, OnHeadMoves
  <2>3. mBuffer' \in Seq(StreamByte)
    BY <2>1, MovedBytes DEF Moves
  <2>4. HeadRule(packet)'
    BY <2>1, RuleKept DEF Moves
  <2> QED
    BY <1>1, <2>1, <2>2, <2>3, <2>4 DEF WsTypes, Moves
<1>9. CASE OnBody
  <2>1. PICK m, q :
          /\ Moves(m, q)
          /\ \/ /\ packet' = NoPacket
                /\ \/ handle' = "closing" /\ delivered' = delivered
                   \/ handle' = handle /\ delivered' = Append(delivered, q.bytes)
             \/ packet' = q /\ UNCHANGED <<handle, delivered>>
    BY <1>9, OnBodyMoves
  <2>2. mBuffer' \in Seq(StreamByte) /\ q.bytes \in Seq(StreamByte)
    BY <2>1, MovedBytes DEF Moves
  <2>3. packet' \in Packets /\ HeadRule(packet)'
    <3>1. PICK r \in {q, NoPacket} : packet' = r
      BY <2>1
    <3>2. r \in Packets /\ HeadRule(r)
      BY <2>1, NoPacketTyped DEF Moves
    <3> QED
      BY <1>1, <3>1, <3>2, RuleKept
  <2>4. Append(delivered, q.bytes) \in Seq(Seq(StreamByte))
    BY <2>2 DEF WsTypes
  <2>5. /\ handle' \in {"open", "closing", "closed"}
        /\ delivered' \in Seq(Seq(StreamByte))
    BY <2>1, <2>4 DEF WsTypes
  <2> QED
    BY <1>1, <2>1, <2>2, <2>3, <2>5 DEF WsTypes, Moves
<1>10. CASE UNCHANGED vars
  BY <1>2, <1>10 DEF vars, WsTypes
<1> QED
  BY <1>3, <1>4, <1>5, <1>6, <1>7, <1>8, <1>9, <1>10 DEF Next, ReadStep

LEMMA WsTypesAlways == Spec => []WsTypes
  BY WsTypesInit, WsTypesStep, PTL DEF Spec

LEMMA WsTypesMeanTypeOK == WsTypes => WsTypeOK
<1> SUFFICES ASSUME WsTypes PROVE WsTypeOK
  OBVIOUS
<1>1. StreamByte \subseteq Byte
  <2>1. 1 .. Len(stream) \subseteq Nat
    BY StreamTyped DEF WsTypes
  <2> QED
    BY <2>1 DEF StreamByte, Byte
<1>2. \A s : s \in Seq(StreamByte) => s \in Seq(Byte)
  BY <1>1
<1>3. \A s : s \in Seq(Seq(StreamByte)) => s \in Seq(Seq(Byte))
  BY <1>2
<1>4. packet.bytes \in Seq(StreamByte) /\ packet.wpos \in Nat
  BY DEF WsTypes, Packets
<1>5. packet.wpos \in 0 .. WsMaxHeadSize + LongestFrame
  <2> DEFINE l == Len(packet.bytes)
             h == CalcHeadSize(packet.bytes)
             k == GetMarkLen(packet.bytes)
             v == packet.wpos
  <2>1. l \in Nat /\ v \in Nat /\ LongestFrame \in Nat
    BY <1>4, LengthsBounded
  <2>2. CASE l < 2
    <3>1. v = l
      BY <2>2 DEF WsTypes, HeadRule, WsHeadSize
    <3> HIDE DEF l, v
    <3>2. v \in 0 .. 14 + LongestFrame
      BY <2>1, <2>2, <3>1
    <3> QED
      BY <3>2 DEF WsMaxHeadSize, v
  <2>3. CASE l >= 2
    <3>1. h \in 2 .. 14 /\ k \in Nat /\ k <= LongestFrame
      BY <1>4, <2>3, HeadTyped DEF WsTypes
    <3>2. v = l + (14 - h) /\ l <= h + k
      <4>1. ~(l < 2)
        BY <2>1, <2>3
      <4> QED
        BY <4>1 DEF WsTypes, HeadRule, WsHeadSize, WsMaxHeadSize, Announced
    <3> HIDE DEF l, h, k, v
    <3>3. v \in 0 .. 14 + LongestFrame
      BY <2>1, <3>1, <3>2
    <3> QED
      BY <3>3 DEF WsMaxHeadSize, v
  <2> QED
    BY <2>1, <2>2, <2>3
<1>6. packet \in [bytes : Seq(Byte), wpos : 0 .. WsMaxHeadSize + LongestFrame]
  BY <1>2, <1>4, <1>5 DEF WsTypes, Packets
<1> QED
  BY <1>2, <1>3, <1>6 DEF WsTypes, WsTypeOK

(* The reader keeps its types, whatever the client sends and wherever the   *)
(* reads cut it; in particular _wpos never runs past the head and the       *)
(* length the head announces.                                               *)
THEOREM WsTypeCorrect == Spec => []WsTypeOK
  BY WsTypesAlways, WsTypesMeanTypeOK, PTL

-----------------------------------------------------------------------------
(* Where the bytes are, when no frame has an extended length.  With one,    *)
(* getMarkLen is wrong and FramesInOrder is violated: run WebSocketLong.    *)
ShortFrames == \A fs \in Streams : \A i \in 1 .. Len(fs) : fs[i].ext = 0

(* frames 1 .. k are finished: handed over, but for a close frame           *)
Place(e, k) ==
  /\ k \in 0 .. Len(stream)
  /\ Len(delivered) = k \/ (k = Len(stream) /\ Len(delivered) = k - 1)
  /\ FramesInOrder
  /\ At(BytesOf(stream), e[k] + Len(packet.bytes), mBuffer, unread)
  /\ \A j \in 1 .. Len(packet.bytes) : packet.bytes[j] = [frame |-> k + 1, at |-> j]
  /\ packet.bytes # <<>> =>
       /\ k < Len(stream)
       /\ Len(packet.bytes) <= Size(k + 1)
       /\ Len(packet.bytes) = Size(k + 1) => stream[k + 1].len = 0

Placed == \E e, k : Laid(e) /\ Place(e, k)

(* the head of frame i is read for what it is *)
LEMMA ShortAnnounced ==
  ASSUME ShortFrames, stream \in Streams, NEW i \in 1 .. Len(stream), NEW b,
         b[1] = [frame |-> i, at |-> 1], b[2] = [frame |-> i, at |-> 2]
  PROVE  /\ HeadOf(b) = stream[i]
         /\ CalcHeadSize(b) = FrameHeadSize(stream[i])
         /\ Announced(b) = Size(i)
<1>1. HeadOf(b) = stream[i]
  BY DEF HeadOf
<1>2. CalcHeadSize(b) = FrameHeadSize(stream[i])
  BY <1>1 DEF CalcHeadSize, FrameHeadSize
<1>3. stream[i].ext = 0
  BY DEF ShortFrames
<1>4. GetMarkLen(b) = stream[i].len
  BY <1>1, <1>3 DEF GetMarkLen
<1> QED
  BY <1>1, <1>2, <1>4 DEF Announced, Size

(* the bytes that a round moves are the next ones of the frame under way *)
LEMMA MovedPlace ==
  ASSUME ShortFrames, WsTypes, NEW e, NEW k, Laid(e), Place(e, k), k < Len(stream),
         NEW m, NEW q, Moves(m, q)
  PROVE  /\ k + 1 \in 1 .. Len(stream)
         /\ At(BytesOf(stream), e[k] + Len(q.bytes), mBuffer', unread)
         /\ \A j \in 1 .. Len(q.bytes) : q.bytes[j] = [frame |-> k + 1, at |-> j]
         /\ Len(q.bytes) <= Size(k + 1)
         /\ Len(q.bytes) >= 2 =>
              /\ HeadOf(q.bytes) = stream[k + 1]
              /\ CalcHeadSize(q.bytes) = FrameHeadSize(stream[k + 1])
              /\ Announced(q.bytes) = Size(k + 1)
<1> DEFINE l == Len(packet.bytes)
           T == BytesOf(stream)
           N == Len(stream)
           c == q.bytes
           z == Size(k + 1)
<1>1. stream \in Streams /\ N \in Nat /\ k \in 0 .. N
  BY StreamTyped DEF WsTypes, Place
<1>2. k + 1 \in 1 .. N /\ k + 1 - 1 = k /\ k \in Nat
  BY <1>1
<1>3. z \in Nat /\ z >= 2
  <2>1. z \in Nat /\ FrameHeadSize(stream[k + 1]) \in 2 .. 14 /\ FrameHeadSize(stream[k + 1]) <= z
    BY <1>1, <1>2, FrameTyped
  <2> HIDE DEF z
  <2> QED
    BY <2>1
<1>4. m \in 0 .. Len(mBuffer) /\ HeadRule(q) /\ c = packet.bytes \o SubSeq(mBuffer, 1, m)
      /\ mBuffer' = SubSeq(mBuffer, m + 1, Len(mBuffer))
  BY DEF Moves
<1>5. /\ c \in Seq(StreamByte) /\ l \in Nat /\ Len(mBuffer) \in Nat
      /\ Len(c) = l + m
      /\ \A j \in 1 .. l : c[j] = packet.bytes[j]
      /\ \A j \in 1 .. m : c[l + j] = mBuffer[j]
  <2> DEFINE t == packet.bytes
  <2>1. /\ t \in Seq(StreamByte) /\ mBuffer \in Seq(StreamByte)
        /\ m \in 0 .. Len(mBuffer) /\ c = t \o SubSeq(mBuffer, 1, m)
    BY <1>4 DEF WsTypes, Packets
  <2> HIDE DEF c, t
  <2>2. /\ t \o SubSeq(mBuffer, 1, m) \in Seq(StreamByte)
        /\ Len(t \o SubSeq(mBuffer, 1, m)) = Len(t) + m
        /\ \A j \in 1 .. Len(t) : (t \o SubSeq(mBuffer, 1, m))[j] = t[j]
        /\ \A j \in 1 .. m : (t \o SubSeq(mBuffer, 1, m))[Len(t) + j] = mBuffer[j]
    BY <2>1, PieceBehind
  <2>3. Len(t) \in Nat /\ Len(mBuffer) \in Nat
    BY <2>1
  <2> QED
    BY <2>1, <2>2, <2>3 DEF t
<1>6. At(T, e[k] + l, mBuffer, unread) /\ e[k] \in Nat
  BY <1>1 DEF Place, Laid
<1>7. At(T, e[k] + Len(c), mBuffer', unread)
  <2>1. T \in Seq(StreamByte) /\ mBuffer \in Seq(StreamByte) /\ unread \in Seq(StreamByte)
    BY <1>1, StreamLaid DEF WsTypes
  <2>2. e[k] + l \in Nat /\ e[k] + l + m = e[k] + Len(c)
    <3> HIDE DEF l, c
    <3>1. m \in Nat
      BY <1>4
    <3> QED
      BY <1>5, <1>6, <3>1
  <2> HIDE DEF T, l, c
  <2>3. At(T, e[k] + l + m, SubSeq(mBuffer, m + 1, Len(mBuffer)), unread)
    BY <1>4, <1>6, <2>1, <2>2, AtMoved
  <2> QED
    BY <1>4, <2>2, <2>3
<1>8. ASSUME NEW j \in 1 .. Len(c), j <= z
      PROVE  c[j] = [frame |-> k + 1, at |-> j]
  <2>1. CASE j <= l
    <3>1. j \in 1 .. l
      BY <1>5, <2>1
    <3> QED
      BY <1>5, <3>1 DEF Place
  <2>2. CASE ~(j <= l)
    <3> DEFINE i == j - l
    <3>0. m \in Nat /\ m <= Len(mBuffer) /\ j \in Nat /\ j >= 1
      BY <1>4, <1>5
    <3>1. i \in 1 .. m /\ j = l + i
      <4> HIDE DEF l, c
      <4> QED
        BY <1>5, <2>2, <3>0
    <3>2. i \in 1 .. Len(mBuffer)
      <4> HIDE DEF i
      <4> QED
        BY <1>5, <3>0, <3>1
    <3>3. c[j] = mBuffer[i]
      <4> HIDE DEF i, c, l
      <4> QED
        BY <1>5, <3>1
    <3>4. mBuffer[i] = T[e[k] + l + i]
      <4> HIDE DEF i
      <4> QED
        BY <1>6, <3>2 DEF At
    <3>5. e[k] + l + i = e[k] + j
      <4> HIDE DEF i, l
      <4> QED
        BY <1>5, <1>6, <3>0, <3>1
    <3>6. j \in 1 .. z
      BY <1>3, <3>0, <1>8
    <3>7. T[e[k + 1 - 1] + j] = [frame |-> k + 1, at |-> j]
      BY <1>2, <3>6 DEF Laid
    <3> QED
      BY <1>2, <3>3, <3>4, <3>5, <3>7
  <2> QED
    BY <2>1, <2>2
<1>9. Len(c) \in Nat
  BY <1>5
<1>10. Len(c) >= 2 => /\ HeadOf(c) = stream[k + 1]
                      /\ CalcHeadSize(c) = FrameHeadSize(stream[k + 1])
                      /\ Announced(c) = z
  <2> SUFFICES ASSUME Len(c) >= 2
               PROVE  /\ HeadOf(c) = stream[k + 1]
                      /\ CalcHeadSize(c) = FrameHeadSize(stream[k + 1])
                      /\ Announced(c) = z
    OBVIOUS
  <2>1. 1 \in 1 .. Len(c) /\ 2 \in 1 .. Len(c) /\ 1 <= z /\ 2 <= z
    <3> HIDE DEF c, z
    <3> QED
      BY <1>3, <1>9
  <2>2. c[1] = [frame |-> k + 1, at |-> 1] /\ c[2] = [frame |-> k + 1, at |-> 2]
    BY <1>8, <2>1
  <2> HIDE DEF c
  <2> QED
    BY <1>1, <1>2, <2>2, ShortAnnounced
<1>11. Len(c) <= z
  <2>1. CASE Len(c) >= 2
    <3>1. ~(Len(c) < 2)
      BY <1>9, <2>1
    <3> QED
      BY <1>4, <1>10, <2>1, <3>1 DEF HeadRule, WsHeadSize
  <2>2. CASE ~(Len(c) >= 2)
    <3> HIDE DEF c, z
    <3> QED
      BY <1>3, <1>9, <2>2
  <2> QED
    BY <2>1, <2>2
<1>12. \A j \in 1 .. Len(c) : j <= z
  <2> HIDE DEF c, z
  <2> QED
    BY <1>3, <1>9, <1>11
<1> QED
  BY <1>2, <1>7, <1>8, <1>10, <1>11, <1>12

LEMMA PlacedInit == Init => Placed
<1> SUFFICES ASSUME Init PROVE Placed
  OBVIOUS
<1>1. stream \in Streams /\ unread = BytesOf(stream) /\ mBuffer = <<>> /\ delivered = <<>>
      /\ packet.bytes = <<>>
  BY DEF Init, NoPacket
<1>2. PICK e : Laid(e)
  BY <1>1, StreamLaid
<1> DEFINE T == BytesOf(stream)
<1>3. T \in Seq(StreamByte)
  BY <1>1, StreamLaid
<1>4. Len(stream) \in Nat /\ e[0] = 0
  BY <1>1, <1>2, StreamTyped DEF Laid
<1>5. At(T, 0, <<>>, T)
  <2> HIDE DEF T
  <2>1. Len(<<>>) = 0 /\ Len(T) \in Nat
    BY <1>3
  <2>2. 0 + 0 + Len(T) = Len(T) /\ \A j \in 1 .. Len(T) : 0 + 0 + j = j
    BY <2>1
  <2> QED
    BY <2>1, <2>2 DEF At
<1>6. Place(e, 0)
  <2>1. Len(<<>>) = 0 /\ e[0] + Len(<<>>) = 0 /\ 0 \in 0 .. Len(stream)
    BY <1>4
  <2>2. At(BytesOf(stream), e[0] + Len(packet.bytes), mBuffer, unread)
    BY <1>1, <1>5, <2>1
  <2>3. FramesInOrder
    BY <1>1, <2>1 DEF FramesInOrder
  <2> QED
    BY <1>1, <2>1, <2>2, <2>3 DEF Place
<1> QED
  BY <1>2, <1>6 DEF Placed

(* with bytes in the buffer there is a frame left *)
LEMMA FrameLeft ==
  ASSUME WsTypes, NEW e, NEW k, Laid(e), Place(e, k), mBuffer # <<>>
  PROVE  k < Len(stream)
<1> DEFINE x == Len(packet.bytes)
           y == Len(mBuffer)
           z == Len(unread)
           N == Len(stream)
<1>1. x \in Nat /\ y \in Nat /\ z \in Nat /\ y # 0
  BY DEF WsTypes, Packets
<1>2. e[k] + x + y + z = e[N]
  BY DEF Place, At, Laid
<1>3. N \in Nat /\ k \in 0 .. N
  BY StreamTyped DEF WsTypes, Place
<1>4. e[k] \in Nat
  BY <1>3 DEF Laid
<1> HIDE DEF x, y, z, N
<1>5. k # N
  BY <1>1, <1>2, <1>4
<1>6. k < N
  BY <1>3, <1>5
<1> QED
  BY <1>6 DEF N

LEMMA ReadPlaced ==
  ASSUME WsTypes, NEW e, NEW k, Laid(e), Place(e, k), NEW n \in 1 .. MaxRead, EchoRead(n)
  PROVE  Placed'
<1> DEFINE x == e[k] + Len(packet.bytes)
           T == BytesOf(stream)
<1>1. /\ n \in 1 .. Least(MaxRead, Len(unread)) /\ mBuffer = <<>>
      /\ mBuffer' = SubSeq(unread, 1, n) /\ unread' = SubSeq(unread, n + 1, Len(unread))
      /\ UNCHANGED <<stream, packet, delivered>>
  BY DEF EchoRead
<1>2. unread \in Seq(StreamByte) /\ Len(unread) \in Nat /\ MaxRead \in Nat
  BY WsBoundsAssumption DEF WsTypes
<1>3. n \in 0 .. Len(unread)
  BY <1>1, <1>2 DEF Least
<1>4. x \in Nat
  <2> DEFINE l == Len(packet.bytes)
  <2>1. l \in Nat /\ e[k] \in Nat
    BY DEF WsTypes, Packets, Place, Laid
  <2> HIDE DEF l
  <2>2. e[k] + l \in Nat
    BY <2>1
  <2> QED
    BY <2>2 DEF l
<1>5. T \in Seq(StreamByte) /\ At(T, x, <<>>, unread)
  BY <1>1, StreamLaid DEF WsTypes, Place
<1> HIDE DEF T, x
<1>6. At(T, x, mBuffer', unread')
  BY <1>1, <1>2, <1>3, <1>4, <1>5, AtRead
<1>7. Place(e, k)'
  BY <1>1, <1>6 DEF Place, FramesInOrder, Size, T, x
<1>8. Laid(e)'
  BY <1>1 DEF Laid, Size
<1> QED
  BY <1>7, <1>8 DEF Placed

LEMMA HeadPlaced ==
  ASSUME ShortFrames, WsTypes, NEW e, NEW k, Laid(e), Place(e, k), OnHead
  PROVE  Placed'
<1> DEFINE z == Size(k + 1)
           h == FrameHeadSize(stream[k + 1])
           c == packet'.bytes
<1>1. PICK m : Moves(m, packet')
  BY OnHeadMoves
<1>2. /\ Len(c) >= 2 => Len(c) <= CalcHeadSize(c)
      /\ c # <<>> /\ UNCHANGED <<handle, delivered>>
  BY OnHeadMoves
<1>3. k < Len(stream)
  BY FrameLeft DEF OnHead
<1>4. /\ k + 1 \in 1 .. Len(stream)
      /\ At(BytesOf(stream), e[k] + Len(c), mBuffer', unread)
      /\ \A j \in 1 .. Len(c) : c[j] = [frame |-> k + 1, at |-> j]
      /\ Len(c) <= z
      /\ Len(c) >= 2 => CalcHeadSize(c) = h
  BY <1>1, <1>3, MovedPlace
<1>5. c \in Seq(StreamByte) /\ Len(c) \in Nat
  <2>1. packet' \in Packets
    BY <1>1 DEF Moves
  <2>2. c \in Seq(StreamByte)
    BY <2>1 DEF Packets
  <2> HIDE DEF c
  <2>3. Len(c) \in Nat
    BY <2>2
  <2> QED
    BY <2>2, <2>3
<1>6. Len(c) = z => stream[k + 1].len = 0
  <2> DEFINE y == stream[k + 1].len
             l == Len(c)
  <2>1. h \in 2 .. 14 /\ y \in Nat /\ z = h + y /\ l \in Nat
    BY <1>4, <1>5, FrameTyped DEF WsTypes, Size
  <2>2. l >= 2 => l <= h
    BY <1>2, <1>4
  <2> HIDE DEF y, l, z, h
  <2>3. l = z => y = 0
    BY <2>1, <2>2
  <2> QED
    BY <2>3 DEF y, l
<1>7. UNCHANGED <<stream, unread>>
  BY <1>1 DEF Moves
<1>8. Place(e, k)'
  <2>1. At(BytesOf(stream'), e[k] + Len(c), mBuffer', unread')
    BY <1>4, <1>7
  <2> HIDE DEF c
  <2>2. /\ k \in 0 .. Len(stream)
        /\ Len(delivered) = k \/ (k = Len(stream) /\ Len(delivered) = k - 1)
        /\ FramesInOrder
    BY DEF Place
  <2>3. FramesInOrder'
    BY <1>2, <1>7, <2>2 DEF FramesInOrder
  <2>4. Size(k + 1)' = z
    BY <1>7 DEF Size
  <2> QED
    BY <1>2, <1>3, <1>4, <1>6, <1>7, <2>1, <2>2, <2>3, <2>4 DEF Place, c
<1>9. Laid(e)'
  BY <1>7 DEF Laid, Size
<1> QED
  BY <1>8, <1>9 DEF Placed

LEMMA BodyPlaced ==
  ASSUME ShortFrames, WsTypes, NEW e, NEW k, Laid(e), Place(e, k), OnBody
  PROVE  Placed'
<1>1. PICK m, q :
        /\ Moves(m, q)
        /\ Len(packet.bytes) >= 2
        /\ \/ /\ Len(q.bytes) = Announced(q.bytes)
              /\ packet' = NoPacket
              /\ \/ /\ HeadOf(q.bytes).kind = "close"
                    /\ delivered' = delivered
                 \/ /\ HeadOf(q.bytes).kind # "close"
                    /\ delivered' = Append(delivered, q.bytes)
           \/ /\ Len(q.bytes) # Announced(q.bytes)
              /\ packet' = q /\ UNCHANGED delivered
  BY OnBodyMoves
<1> DEFINE z == Size(k + 1)
           c == q.bytes
           N == Len(stream)
           T == BytesOf(stream)
           f == stream[k + 1]
<1>2. k < N
  BY FrameLeft DEF OnBody
<1>3. /\ k + 1 \in 1 .. N
      /\ At(T, e[k] + Len(c), mBuffer', unread)
      /\ \A j \in 1 .. Len(c) : c[j] = [frame |-> k + 1, at |-> j]
      /\ Len(c) <= z
      /\ Len(c) >= 2 => HeadOf(c) = f /\ Announced(c) = z
  BY <1>1, <1>2, MovedPlace
<1>4. c \in Seq(StreamByte) /\ Len(c) \in Nat /\ Len(c) >= 2
  <2> DEFINE l == Len(packet.bytes)
             d == Len(c)
  <2>1. m \in 0 .. Len(mBuffer) /\ c = packet.bytes \o SubSeq(mBuffer, 1, m)
    BY <1>1 DEF Moves
  <2> HIDE DEF c
  <2>2. c \in Seq(StreamByte) /\ l \in Nat /\ Len(mBuffer) \in Nat /\ d = l + m
    BY <2>1, MovedBytes
  <2>3. l >= 2
    BY <1>1
  <2> HIDE DEF l, d
  <2>4. d \in Nat /\ d >= 2
    BY <2>1, <2>2, <2>3
  <2> QED
    BY <2>2, <2>4 DEF d
<1>5. HeadOf(c) = f /\ Announced(c) = z
  BY <1>3, <1>4
<1>6. UNCHANGED <<stream, unread>>
  BY <1>1 DEF Moves
<1>7. Laid(e)'
  BY <1>6 DEF Laid, Size
<1>8. /\ k \in 0 .. N /\ N \in Nat
      /\ Len(delivered) = k
      /\ delivered \in Seq(Seq(StreamByte))
  <2>1. N \in Nat /\ k \in 0 .. N /\ (Len(delivered) = k \/ k = N)
    BY StreamTyped DEF WsTypes, Place
  <2>2. k # N
    <3> HIDE DEF N
    <3> QED
      BY <1>2, <2>1
  <2> QED
    BY <2>1, <2>2 DEF WsTypes
<1>9. CASE /\ Len(c) # z /\ packet' = q /\ delivered' = delivered
  <2>1. FramesInOrder'
    BY <1>6, <1>9 DEF Place, FramesInOrder
  <2>2. Size(k + 1)' = z
    BY <1>6 DEF Size
  <2>3. At(BytesOf(stream'), e[k] + Len(c), mBuffer', unread')
    BY <1>3, <1>6
  <2>4. Place(e, k)'
    BY <1>2, <1>3, <1>6, <1>8, <1>9, <2>1, <2>2, <2>3 DEF Place
  <2> QED
    BY <1>7, <2>4 DEF Placed
<1>10. CASE /\ Len(c) = z /\ packet' = NoPacket
            /\ \/ f.kind = "close" /\ delivered' = delivered
               \/ f.kind # "close" /\ delivered' = Append(delivered, c)
  <2>1. packet'.bytes = <<>> /\ Len(<<>>) = 0
    BY <1>10 DEF NoPacket
  <2>2. e[k + 1] + 0 = e[k] + Len(c)
    <3>1. e[k + 1] = e[k + 1 - 1] + z /\ k + 1 \in 0 .. N /\ k + 1 - 1 = k
      BY <1>3, <1>8 DEF Laid
    <3>2. e[k + 1] \in Nat
      BY <3>1 DEF Laid
    <3>3. e[k + 1] + 0 = e[k + 1]
      BY <3>2
    <3> QED
      BY <1>10, <3>1, <3>3
  <2>3. At(BytesOf(stream'), e[k + 1] + Len(packet'.bytes), mBuffer', unread')
    <3>1. At(T, e[k + 1] + 0, mBuffer', unread)
      BY <1>3, <2>2
    <3> QED
      BY <1>6, <2>1, <3>1
  <2>4. FramesInOrder
    BY DEF Place
  <2>5. CASE f.kind = "close" /\ delivered' = delivered
    <3>1. k + 1 = N
      BY <1>3, <2>5, CloseIsLast DEF WsTypes
    <3>2. FramesInOrder'
      BY <1>6, <2>4, <2>5 DEF FramesInOrder
    <3>3. k + 1 \in 0 .. N /\ Len(delivered) = k + 1 - 1
      BY <1>3, <1>8
    <3>4. Place(e, k + 1)'
      BY <1>6, <2>1, <2>3, <2>5, <3>1, <3>2, <3>3 DEF Place
    <3> QED
      BY <1>7, <3>4 DEF Placed
  <2>6. CASE f.kind # "close" /\ delivered' = Append(delivered, c)
    <3>1. Len(delivered') = k + 1 /\ delivered'[k + 1] = c
          /\ \A i \in 1 .. k : delivered'[i] = delivered[i]
      BY <1>4, <1>8, <2>6
    <3>2. f.kind = "data"
      <4>1. f \in Frames
        BY <1>3, StreamTyped DEF WsTypes
      <4> QED
        BY <2>6, <4>1 DEF Frames
    <3>3. c = Bytes(k + 1, f)
      <4> DEFINE b == Bytes(k + 1, f)
      <4>1. /\ b \in Seq(StreamByte) /\ Len(b) = z
            /\ \A a \in 1 .. z : b[a] = [frame |-> k + 1, at |-> a]
        BY <1>3, FrameTyped DEF WsTypes
      <4>2. Len(c) = z /\ \A a \in 1 .. z : c[a] = [frame |-> k + 1, at |-> a]
        BY <1>3, <1>10
      <4> HIDE DEF b, c, z
      <4>3. c = b
        BY <1>4, <4>1, <4>2, SeqEqual
      <4> QED
        BY <4>3 DEF b
    <3>4. FramesInOrder'
      <4> SUFFICES ASSUME NEW i \in 1 .. k + 1
                   PROVE  /\ i <= N /\ stream[i].kind = "data"
                          /\ delivered'[i] = Bytes(i, stream[i])
        BY <1>6, <3>1 DEF FramesInOrder
      <4>1. CASE i = k + 1
        BY <1>3, <3>1, <3>2, <3>3, <4>1
      <4>2. CASE i # k + 1
        <5>1. i \in 1 .. k
          BY <1>8, <4>2
        <5> QED
          BY <1>8, <2>4, <3>1, <5>1 DEF FramesInOrder
      <4> QED
        BY <4>1, <4>2
    <3>5. k + 1 \in 0 .. N
      BY <1>3, <1>8
    <3>6. Place(e, k + 1)'
      BY <1>6, <2>1, <2>3, <3>1, <3>4, <3>5 DEF Place
    <3> QED
      BY <1>7, <3>6 DEF Placed
  <2> QED
    BY <1>10, <2>5, <2>6
<1> QED
  BY <1>1, <1>5, <1>9, <1>10

LEMMA PlacedStep ==
  ASSUME ShortFrames, WsTypes, Placed, [Next]_vars
  PROVE  Placed'
<1>1. PICK e, k : Laid(e) /\ Place(e, k)
  BY DEF Placed
<1>2. ASSUME UNCHANGED <<stream, unread, mBuffer, packet, delivered>> PROVE Placed'
  <2>1. Laid(e)' /\ Place(e, k)'
    BY <1>1, <1>2 DEF Laid, Place, FramesInOrder, Size
  <2> QED
    BY <2>1 DEF Placed
<1>3. ASSUME NEW n \in 1 .. MaxRead, EchoRead(n) PROVE Placed'
  BY <1>1, <1>3, ReadPlaced
<1>4. CASE OnHead
  BY <1>1, <1>4, HeadPlaced
<1>5. CASE OnBody
  BY <1>1, <1>5, BodyPlaced
<1>6. CASE RefuseHandshake \/ RespondHandshake \/ Close \/ OnUvClose \/ UNCHANGED vars
  <2>1. UNCHANGED <<stream, unread, mBuffer, packet, delivered>>
    BY <1>6 DEF RefuseHandshake, RespondHandshake, Close, OnUvClose, vars
  <2> QED
    BY <1>2, <2>1
<1> QED
  BY <1>3, <1>4, <1>5, <1>6 DEF Next, ReadStep

LEMMA PlacedAlways == ShortFrames => (Spec => []Placed)
<1> SUFFICES ASSUME ShortFrames PROVE Spec => []Placed
  OBVIOUS
<1>1. WsTypes /\ Placed /\ [Next]_vars => Placed'
  BY PlacedStep
<1> QED
  BY <1>1, PlacedInit, WsTypesAlways, PTL DEF Spec

LEMMA PlacedHoldsNone == WsTypes /\ Placed => NoFrameHeld
<1> SUFFICES ASSUME WsTypes, Placed, mBuffer = <<>>, packet.bytes # <<>>,
                    packet.bytes = Bytes(packet.bytes[1].frame, stream[packet.bytes[1].frame])
             PROVE  stream[packet.bytes[1].frame].len = 0
  BY DEF NoFrameHeld
<1>1. PICK e, k : Laid(e) /\ Place(e, k)
  BY DEF Placed
<1> DEFINE t == packet.bytes
<1>2. t \in Seq(StreamByte) /\ t # <<>>
  BY DEF WsTypes, Packets
<1>3. /\ \A j \in 1 .. Len(t) : t[j] = [frame |-> k + 1, at |-> j]
      /\ k < Len(stream) /\ k \in 0 .. Len(stream)
      /\ Len(t) = Size(k + 1) => stream[k + 1].len = 0
  BY <1>1 DEF Place
<1>4. t = Bytes(t[1].frame, stream[t[1].frame])
  OBVIOUS
<1> HIDE DEF t
<1>5. 1 \in 1 .. Len(t)
  BY <1>2
<1>6. t[1].frame = k + 1
  <2>1. t[1] = [frame |-> k + 1, at |-> 1]
    BY <1>3, <1>5
  <2> QED
    BY <2>1
<1>7. k + 1 \in 1 .. Len(stream)
  BY <1>3, StreamTyped DEF WsTypes
<1>8. Len(t) = Size(k + 1)
  BY <1>4, <1>6, <1>7, FrameTyped DEF WsTypes
<1> QED
  BY <1>3, <1>6, <1>8 DEF t

(* As long as no frame has an extended length, onMsg gets every frame whole *)
(* and in order, wherever the reads cut the stream.                         *)
THEOREM FramesInOrderAlways == ShortFrames => (Spec => []FramesInOrder)
<1> SUFFICES ASSUME ShortFrames PROVE Spec => []FramesInOrder
  OBVIOUS
<1>1. Placed => FramesInOrder
  BY DEF Placed, Place
<1> QED
  BY <1>1, PlacedAlways, PTL

(* As long as no frame has an extended length, a frame that has arrived     *)
(* completely is held back between two reads only when it has no payload.   *)
THEOREM NoFrameHeldAlways == ShortFrames => (Spec => []NoFrameHeld)
<1> SUFFICES ASSUME ShortFrames PROVE Spec => []NoFrameHeld
  OBVIOUS
<1> QED
  BY PlacedAlways, WsTypesAlways, PlacedHoldsNone, PTL
=============================================================================
