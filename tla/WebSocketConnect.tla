-------------------------- MODULE WebSocketConnect --------------------------
(***************************************************************************)
(* The reading side of a WebSocket connection: handshake, frames and close *)
(* (src/src/network/WebSocketConnect.cpp, WebSocketPacket.cpp).  Writing   *)
(* is that of module TcpSocket.                                            *)
(*                                                                         *)
(* The client sends a request for the handshake that one read returns (the *)
(* parser looks at one buffer only), waits for the answer, and then sends  *)
(* frames, which the reads cut at every byte.  A byte is the number of its *)
(* frame and its place in it.                                              *)
(***************************************************************************)
EXTENDS Integers, Sequences

CONSTANTS
  Streams,    \* what a client may send: sequences of frames
  MaxTries,   \* bound: requests for a handshake that are refused
  MaxRead     \* MESSAGE_BUFFER_SIZE, what one read can return

(* ext is the number of bytes the length takes besides the first two: none  *)
(* up to 125, 2 up to 65535, else 8.                                        *)
Frames == [kind : {"data", "close"}, len : Nat, ext : {0, 2, 8}, masked : BOOLEAN]

ASSUME WsStreamsAssumption == \A fs \in Streams : fs \in Seq(Frames)
(* a close frame is the last thing a client sends *)
ASSUME CloseIsLast ==
  \A fs \in Streams : \A i \in 1 .. Len(fs) : fs[i].kind = "close" => i = Len(fs)
ASSUME WsBoundsAssumption == MaxTries \in Nat /\ MaxRead \in Nat \ {0}

WsHeadSize == 2
WsMaxHeadSize == 14

VARIABLES
  handle,      \* "open", "closing", "closed" once onClose was called
  isHandshake, \* __m_isHandshake
  tries,       \* requests refused; each of them calls onClose too
  stream,      \* the frames the client sends
  unread,      \* their bytes that were not read yet
  mBuffer,     \* the active part of the MessageBuffer
  packet,      \* __m_readPacket: the bytes it was given, and its _wpos;
               \* no bytes stand for NULL
  delivered    \* the bytes of the frames passed to onMsg (history)

vars == <<handle, isHandshake, tries, stream, unread, mBuffer, packet, delivered>>

Byte == [frame : Nat, at : Nat]
NoPacket == [bytes |-> <<>>, wpos |-> 0]

FrameHeadSize(f) == WsHeadSize + f.ext + (IF f.masked THEN 4 ELSE 0)

Bytes(i, f) == [j \in 1 .. FrameHeadSize(f) + f.len |-> [frame |-> i, at |-> j]]

BytesOf(fs) ==
  LET upTo[i \in 0 .. Len(fs)] == IF i = 0 THEN <<>> ELSE upTo[i - 1] \o Bytes(i, fs[i])
  IN  upTo[Len(fs)]

LongestFrame ==
  LET lens == UNION {{fs[i].len : i \in 1 .. Len(fs)} : fs \in Streams}
  IN  IF lens = {} THEN 0 ELSE CHOOSE n \in lens : \A m \in lens : m <= n

(* a length has 8 bytes at most, so there is a longest *)
ASSUME LengthsBounded ==
  /\ LongestFrame \in Nat
  /\ \A fs \in Streams : \A i \in 1 .. Len(fs) : fs[i].len <= LongestFrame

WsTypeOK ==
  /\ handle \in {"open", "closing", "closed"}
  /\ isHandshake \in BOOLEAN
  /\ tries \in 0 .. MaxTries
  /\ stream \in Streams
  /\ unread \in Seq(Byte)
  /\ mBuffer \in Seq(Byte)
  /\ packet \in [bytes : Seq(Byte), wpos : 0 .. WsMaxHeadSize + LongestFrame]
  /\ delivered \in Seq(Seq(Byte))

Init ==
  /\ handle = "open"
  /\ isHandshake = FALSE
  /\ tries = 0
  /\ stream \in Streams
  /\ unread = BytesOf(stream)
  /\ mBuffer = <<>>
  /\ packet = NoPacket
  /\ delivered = <<>>

-----------------------------------------------------------------------------
(* The handshake *)

(* parseHandshake fails: onClose is called and the connection stays open *)
RefuseHandshake ==
  /\ handle = "open"
  /\ ~isHandshake
  /\ tries < MaxTries
  /\ tries' = tries + 1
  /\ UNCHANGED <<handle, isHandshake, stream, unread, mBuffer, packet, delivered>>

(* respondHandshake; on_msgbuffer returns and the rest of the buffer, which *)
(* a client that waits for the answer leaves empty, is dropped              *)
RespondHandshake ==
  /\ handle = "open"
  /\ ~isHandshake
  /\ isHandshake' = TRUE
  /\ UNCHANGED <<handle, tries, stream, unread, mBuffer, packet, delivered>>

-----------------------------------------------------------------------------
(* The packet *)

Least(m, n) == IF m < n THEN m ELSE n

(* What the first two bytes say.  Bytes that are no head can say anything;  *)
(* here they say: data, of length 0.                                        *)
HeadOf(b) ==
  IF b[1].at = 1 /\ b[2] = [b[1] EXCEPT !.at = 2] THEN stream[b[1].frame]
  ELSE [kind |-> "data", len |-> 0, ext |-> 0, masked |-> FALSE]

(* seeded fault: the mask is forgotten *)
CalcHeadSizeUnmasked(b) == WsHeadSize + HeadOf(b).ext

(* calcHeadSize *)
CalcHeadSize(b) ==
  WsHeadSize + HeadOf(b).ext + (IF HeadOf(b).masked THEN 4 ELSE 0)

(* getMarkLen.  The extended length is read at offset WsHeadSize of the 14  *)
(* bytes, in the order of the machine.  Heads are stored at the END of the  *)
(* 14, and the bytes before them are 0; and the four bytes that would be    *)
(* the low half of a length below 2^32 are the high half in network order.  *)
GetMarkLen(b) == IF HeadOf(b).ext = 0 THEN HeadOf(b).len ELSE 0

IsHeadFull(p) == p.wpos >= WsMaxHeadSize

(* seeded fault: a head whose first byte came alone never gets its second *)
FirstBytesTogether(p, n) == IF p.wpos = 0 THEN Least(WsHeadSize, n) ELSE 0

(* how many of the first two bytes n bytes of buffer bring *)
FirstBytes(p, n) == IF p.wpos < WsHeadSize THEN Least(WsHeadSize - p.wpos, n) ELSE 0

(* readFrameHead: the first two bytes give the head size, and put _wpos     *)
(* where the head ends with the 14 bytes.                                   *)
ReadFrameHead(p, b) ==
  LET n == FirstBytes(p, Len(b))
      two == p.bytes \o SubSeq(b, 1, n)
      w == IF n > 0 /\ p.wpos + n = WsHeadSize
             THEN WsMaxHeadSize - CalcHeadSize(two) + WsHeadSize
             ELSE p.wpos + n
      rest == IF w >= WsHeadSize THEN Least(WsMaxHeadSize - w, Len(b) - n) ELSE 0
  IN  [bytes |-> p.bytes \o SubSeq(b, 1, n + rest), wpos |-> w + rest]

(* seeded fault: all that is in the buffer is taken *)
ReadBodyAll(p, b) == [bytes |-> p.bytes \o b, wpos |-> p.wpos + Len(b)]

(* the body bytes the packet still needs *)
ReadBody(p, b) ==
  LET n == Least(GetMarkLen(p.bytes) + WsMaxHeadSize - p.wpos, Len(b))
  IN  [bytes |-> p.bytes \o SubSeq(b, 1, n), wpos |-> p.wpos + n]

(* seeded fault: the test comes before the body is read *)
CompleteBefore(before, after) == before.wpos = GetMarkLen(before.bytes) + WsMaxHeadSize

Complete(before, after) == after.wpos = GetMarkLen(after.bytes) + WsMaxHeadSize

-----------------------------------------------------------------------------
EchoRead(n) ==
  /\ handle = "open"
  /\ isHandshake
  /\ mBuffer = <<>>
  /\ n \in 1 .. Least(MaxRead, Len(unread))
  /\ mBuffer' = SubSeq(unread, 1, n)
  /\ unread' = SubSeq(unread, n + 1, Len(unread))
  /\ UNCHANGED <<handle, isHandshake, tries, stream, packet, delivered>>

(* a round of the loop of on_msgbuffer for a head *)
OnHead ==
  /\ mBuffer # <<>>
  /\ ~IsHeadFull(packet)
  /\ \E p \in {ReadFrameHead(packet, mBuffer)} :
       /\ packet' = p
       /\ mBuffer' = SubSeq(mBuffer, Len(p.bytes) - Len(packet.bytes) + 1, Len(mBuffer))
  /\ UNCHANGED <<handle, isHandshake, tries, stream, unread, delivered>>

(* A round for a body.  A frame of CLOSE_FRAME closes; getOpcode() is four  *)
(* bits, so no frame equals PING_FRAME, 0x89, and pings go to onMsg as all  *)
(* the others do.                                                           *)
OnBody ==
  /\ mBuffer # <<>>
  /\ IsHeadFull(packet)
  /\ \E p \in {ReadBody(packet, mBuffer)} :
       /\ mBuffer' = SubSeq(mBuffer, Len(p.bytes) - Len(packet.bytes) + 1, Len(mBuffer))
       /\ IF Complete(packet, p)
            THEN /\ packet' = NoPacket
                 /\ IF HeadOf(p.bytes).kind = "close"
                      THEN /\ handle' = "closing"
                           /\ UNCHANGED delivered
                      ELSE /\ delivered' = Append(delivered, p.bytes)
                           /\ UNCHANGED handle
            ELSE packet' = p /\ UNCHANGED <<handle, delivered>>
  /\ UNCHANGED <<isHandshake, tries, stream, unread>>

(* the end of the stream, an error, or close() by the application *)
Close ==
  /\ handle = "open"
  /\ mBuffer = <<>>
  /\ handle' = "closing"
  /\ UNCHANGED <<isHandshake, tries, stream, unread, mBuffer, packet, delivered>>

OnUvClose ==
  /\ handle = "closing"
  /\ mBuffer = <<>>
  /\ handle' = "closed"
  /\ UNCHANGED <<isHandshake, tries, stream, unread, mBuffer, packet, delivered>>

-----------------------------------------------------------------------------
ReadStep == (\E n \in 1 .. MaxRead : EchoRead(n)) \/ OnHead \/ OnBody \/ OnUvClose

Next == RefuseHandshake \/ RespondHandshake \/ Close \/ ReadStep

Spec == Init /\ [][Next]_vars

(* the loop runs, and what the client sent arrives *)
FairSpec == Spec /\ WF_vars(ReadStep)

-----------------------------------------------------------------------------
(* onMsg gets every frame whole, byte for byte with its head, once and in   *)
(* order, wherever the reads cut the stream, frames without payload and     *)
(* without mask included; a close frame never gets there.                   *)
FramesInOrder ==
  \A i \in 1 .. Len(delivered) :
    /\ i <= Len(stream)
    /\ stream[i].kind = "data"
    /\ delivered[i] = Bytes(i, stream[i])

(* Between two reads no frame that has arrived completely is held back,     *)
(* unless it has no payload and its head ended the read: the loop ends      *)
(* before the round that would find it complete.  A close frame without a   *)
(* status is such a frame.                                                  *)
NoFrameHeld ==
  (mBuffer = <<>> /\ packet.bytes # <<>>) =>
    LET i == packet.bytes[1].frame
    IN  packet.bytes = Bytes(i, stream[i]) => stream[i].len = 0

(* After the handshake every frame up to the last one with payload is       *)
(* handed over, and a close frame with payload closes the connection,       *)
(* unless it is closed before.                                              *)
Handled(i) == IF stream[i].kind = "data" THEN Len(delivered) >= i ELSE handle # "open"

EveryFrameHandled ==
  isHandshake ~>
    (handle # "open" \/ \A i \in 1 .. Len(stream) :
                          (\E j \in i .. Len(stream) : stream[j].len > 0) => Handled(i))
=============================================================================
