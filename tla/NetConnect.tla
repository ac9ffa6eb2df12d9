----------------------------- MODULE NetConnect -----------------------------
(***************************************************************************)
(* A framed connection (src/src/network/NetConnect.cpp, NetPacket.cpp)     *)
(* between two endpoints, each the TcpSocket of module TcpSocket: what one *)
(* end's kernel accepts, the other end reads in chunks of any size and     *)
(* on_msgbuffer cuts into messages again.                                  *)
(*                                                                         *)
(* A byte is its offset in the stream, so a head is known by the offsets   *)
(* it is made of: getMarkLen() of the HeadSize bytes that begin a packet   *)
(* is the length writeHead() stored in them.                               *)
(***************************************************************************)
EXTENDS TcpSocket

CONSTANTS
  HeadSize,     \* MSG_HEAD_SIZE, 8 in the code
  BufferSize    \* MESSAGE_BUFFER_SIZE, what one read can return

ASSUME HeadSizeAssumption == HeadSize \in Nat \ {0}
ASSUME BufferSizeAssumption == BufferSize \in Nat \ {0}
(* createPacket() leaves room for the head and sendSize() counts it *)
ASSUME FramedSizes == \A size \in Sizes : size >= HeadSize
(* a connection has two ends *)
ASSUME TwoEnds == \E c, d \in Conns : c # d /\ Conns = {c, d}

VARIABLES
  readCount,   \* how many of the peer's accepted bytes have been read
  mBuffer,     \* the active part of the MessageBuffer
  readPacket,  \* the bytes mReadPacket holds (wpos many), <<>> when it is
               \* NULL: a packet is created only when there is a byte for it
  delivered    \* the packets passed to onMsg, each the bytes it holds

readVars == <<readCount, mBuffer, readPacket, delivered>>
netVars == <<vars, readVars>>

Peer(c) == CHOOSE d \in Conns : d # c

NetTypeOK ==
  /\ TypeOK
  /\ readCount \in [Conns -> Nat]
  /\ mBuffer \in [Conns -> Seq(Nat)]
  /\ readPacket \in [Conns -> Seq(Nat)]
  /\ delivered \in [Conns -> Seq(Seq(Nat))]

NetInit ==
  /\ Init
  /\ readCount = [c \in Conns |-> 0]
  /\ mBuffer = [c \in Conns |-> <<>>]
  /\ readPacket = [c \in Conns |-> <<>>]
  /\ delivered = [c \in Conns |-> <<>>]

-----------------------------------------------------------------------------
(* The bytes of a packet, and what a reader makes of the bytes it has *)

Bytes(p) == [j \in 1 .. (p.to - p.from) |-> p.from + j - 1]

IsHeadFull(b) == Len(b) >= HeadSize

(* getMarkLen of received bytes b, for a packet of the connection c *)
MarkLen(c, b) ==
  LET begins(i) == /\ offered[Peer(c)][i].from = b[1]
                   /\ \A j \in 1 .. HeadSize : b[j] = b[1] + j - 1
      heads == {i \in 1 .. Len(offered[Peer(c)]) : begins(i)}
  IN  IF heads = {} THEN 0
      ELSE LET p == offered[Peer(c)][CHOOSE i \in heads : TRUE]
           IN  p.to - p.from - HeadSize

Unread(c) ==
  SubSeq(accepted[Peer(c)], readCount[c] + 1, Len(accepted[Peer(c)]))

Least(m, n) == IF m < n THEN m ELSE n

-----------------------------------------------------------------------------
(* echo_read with nread = k: the whole buffer is free when libuv reads *)
EchoRead(c, k) ==
  /\ handle[c] = "open"
  /\ mBuffer[c] = <<>>
  /\ k \in 1 .. Least(Len(Unread(c)), BufferSize)
  /\ mBuffer' = [mBuffer EXCEPT ![c] = SubSeq(Unread(c), 1, k)]
  /\ readCount' = [readCount EXCEPT ![c] = @ + k]
  /\ UNCHANGED <<vars, readPacket, delivered>>

(* readHead: how much of the buffer goes to a head that is not full *)
HeadBytes(b, n) == Least(HeadSize - Len(b), n)

(* seeded fault: the head is cut off the end of the packet *)
BodyBytesWithoutHead(c, b, n) ==
  IF Len(b) > MarkLen(c, b) THEN 0 ELSE Least(MarkLen(c, b) - Len(b), n)

(* the body bytes the packet takes from n bytes of buffer *)
BodyBytes(c, b, n) == Least(MarkLen(c, b) + HeadSize - Len(b), n)

(* seeded fault: a head that fills up waits for another round *)
ReachesBodyNextRound(before, after) == IsHeadFull(before)

(* the goto read_body: the round that completes the head does the body too *)
ReachesBody(before, after) == IsHeadFull(after)

(* One round of the while loop of on_msgbuffer: rlen bytes join the head,   *)
(* wsize the body.  The loop does not look at the handle: a close() made by *)
(* onMsg does not stop it.                                                  *)
OnMsgBuffer(c) ==
  /\ mBuffer[c] # <<>>
  /\ \E rlen \in {IF IsHeadFull(readPacket[c]) THEN 0
                  ELSE HeadBytes(readPacket[c], Len(mBuffer[c]))} :
     \E head \in {readPacket[c] \o SubSeq(mBuffer[c], 1, rlen)} :
     \E wsize \in {IF ReachesBody(readPacket[c], head)
                     THEN BodyBytes(c, head, Len(mBuffer[c]) - rlen) ELSE 0} :
     \E whole \in {head \o SubSeq(mBuffer[c], rlen + 1, rlen + wsize)} :
       /\ mBuffer' = [mBuffer EXCEPT ![c] = SubSeq(@, rlen + wsize + 1, Len(@))]
       /\ IF ReachesBody(readPacket[c], head) /\ Len(whole) = MarkLen(c, whole) + HeadSize
           THEN /\ delivered' = [delivered EXCEPT ![c] = Append(@, whole)]
                /\ readPacket' = [readPacket EXCEPT ![c] = <<>>]
           ELSE /\ readPacket' = [readPacket EXCEPT ![c] = whole]
                /\ UNCHANGED delivered
  /\ UNCHANGED <<vars, readCount>>

(* ~NetConnect recycles a packet that was not finished *)
NetDestroy(c) ==
  /\ Destroy(c)
  /\ readPacket' = [readPacket EXCEPT ![c] = <<>>]
  /\ UNCHANGED <<readCount, mBuffer, delivered>>

-----------------------------------------------------------------------------
(* The loop runs one handler at a time, so no other callback of this end    *)
(* comes while on_msgbuffer works on a buffer; the application's calls do,  *)
(* made by onMsg.                                                           *)
WriteStep(c) ==
  \/ \E k \in 1 .. Len(pending[c]) : KernelWrite(c, k)
  \/ KernelFail(c)
  \/ mBuffer[c] = <<>> /\ EchoWrite(c)

CloseStep(c) == mBuffer[c] = <<>> /\ OnUvClose(c)

ReadStep(c) ==
  \/ \E k \in 1 .. BufferSize : EchoRead(c, k)
  \/ OnMsgBuffer(c)

EndOfStream(c) == mBuffer[c] = <<>> /\ EchoReadEnd(c) /\ UNCHANGED readVars

EndStep(c) ==
  \/ (AppStep(c) \/ WriteStep(c) \/ CloseStep(c)) /\ UNCHANGED readVars
  \/ EndOfStream(c)
  \/ ReadStep(c)
  \/ mBuffer[c] = <<>> /\ NetDestroy(c)

NetNext == ~aborted /\ \E c \in Conns : EndStep(c)

NetSpec == NetInit /\ [][NetNext]_netVars

(* The loops run; the network moves bytes or reports an error, and a stream *)
(* that failed for writing is reported to its reader as well.               *)
NetFairSpec ==
  NetSpec /\ \A c \in Conns :
    /\ WF_netVars(~aborted /\ WriteStep(c) /\ UNCHANGED readVars)
    /\ WF_netVars(~aborted /\ ReadStep(c))
    /\ WF_netVars(~aborted /\ broken[c] /\ EndOfStream(c))

-----------------------------------------------------------------------------
(* What one end's onMsg has been given is, byte for byte, what the other    *)
(* end sent, in order, from the first message on, however the stream was    *)
(* cut into writes and reads.                                               *)
DeliveredInOrder ==
  \A c \in Conns :
    LET source == offered[Peer(c)]
    IN  /\ Len(delivered[c]) <= Len(source)
        /\ \A i \in 1 .. Len(delivered[c]) : delivered[c][i] = Bytes(source[i])

(* Between two reads the connection never sits on a packet it has received  *)
(* completely, the packet without a body included (the case the comment in  *)
(* on_msgbuffer is about): it would wait for bytes the peer need not send.  *)
NoCompletePacketHeld ==
  \A c \in Conns :
    (mBuffer[c] = <<>> /\ readPacket[c] # <<>>) =>
      ~(IsHeadFull(readPacket[c])
        /\ Len(readPacket[c]) >= MarkLen(c, readPacket[c]) + HeadSize)

(* The connection implements a channel of messages. *)
Channel == INSTANCE MessageChannel WITH
  Ends <- Conns,
  OtherEnd <- Peer,
  sent <- [c \in Conns |-> [i \in 1 .. Len(offered[c]) |-> Bytes(offered[c][i])]],
  got <- delivered,
  life <- handle

ImplementsChannel == Channel!ChanSpec
=============================================================================
