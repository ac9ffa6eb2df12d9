------------------------------ MODULE TcpSocket ------------------------------
(***************************************************************************)
(* The send queue and the life of a TCP connection object, as written in   *)
(* src/src/network/TcpSocket.cpp on top of one libuv stream.               *)
(*                                                                         *)
(* Every connection owns ONE write request (m_write_t), a queue of packets *)
(* (mSendPackets) and the buffers of the batch that request is carrying    *)
(* (mSending: always the first packets of the queue, so its size says      *)
(* which they are).  All of it runs on the loop's thread; what interleaves *)
(* is the application's calls, the kernel taking bytes, libuv's write,     *)
(* read and close callbacks, and the network failing.                      *)
(*                                                                         *)
(* Bytes are named by their offset in the stream of everything ever        *)
(* written to the connection, so a packet is the interval [from, to).      *)
(***************************************************************************)
EXTENDS Integers, Sequences, FiniteSets

CONSTANTS
  Conns,          \* the connection objects
  MaxSendPacket,  \* MAX_SEND_PACKET, 10 in the code
  MaxSendByte,    \* MAX_SEND_BYTE, 1024 in the code
  Sizes,          \* the sizes a packet's sendSize() can have
  MaxPackets      \* bound: packets written to each connection

ASSUME MaxSendPacketAssumption == MaxSendPacket \in Nat \ {0}
ASSUME MaxSendByteAssumption == MaxSendByte \in Nat \ {0}
ASSUME SizesAssumption == Sizes \subseteq Nat
ASSUME MaxPacketsAssumption == MaxPackets \in [Conns -> Nat]

VARIABLES
  handle,       \* the uv_tcp_t: "open", "closing" after uv_close, "onclose"
                \* inside the close callback, "destroyed" once deleted
  sendPackets,  \* mSendPackets
  sending,      \* mSending.size()
  requests,     \* uv_write calls made on m_write_t and not yet called back
  pending,      \* the bytes libuv still has to hand to the kernel for them
  accepted,     \* the bytes the kernel has taken, in order
  broken,       \* the kernel has reported an error for this stream
  offered,      \* every packet handed to write(), in order (history)
  recycled,     \* every packet handed to recyclePacket, in order (history)
  aborted       \* the assertion of uv_close has failed: the process is gone

vars == <<handle, sendPackets, sending, requests, pending, accepted, broken,
          offered, recycled, aborted>>

Packet == [from : Nat, to : Nat]

StreamEnd(c) == IF offered[c] = <<>> THEN 0 ELSE offered[c][Len(offered[c])].to

TypeOK ==
  /\ handle \in [Conns -> {"open", "closing", "onclose", "destroyed"}]
  /\ sendPackets \in [Conns -> Seq(Packet)]
  /\ sending \in [Conns -> Nat]
  /\ requests \in [Conns -> Nat]
  /\ pending \in [Conns -> Seq(Nat)]
  /\ accepted \in [Conns -> Seq(Nat)]
  /\ broken \in [Conns -> BOOLEAN]
  /\ offered \in [Conns -> Seq(Packet)]
  /\ recycled \in [Conns -> Seq(Packet)]
  /\ aborted \in BOOLEAN

Init ==
  /\ handle = [c \in Conns |-> "open"]
  /\ sendPackets = [c \in Conns |-> <<>>]
  /\ sending = [c \in Conns |-> 0]
  /\ requests = [c \in Conns |-> 0]
  /\ pending = [c \in Conns |-> <<>>]
  /\ accepted = [c \in Conns |-> <<>>]
  /\ broken = [c \in Conns |-> FALSE]
  /\ offered = [c \in Conns |-> <<>>]
  /\ recycled = [c \in Conns |-> <<>>]
  /\ aborted = FALSE

-----------------------------------------------------------------------------
(* send_top_msg: a packet joins the batch while fewer than MaxSendPacket    *)
(* packets and fewer than MaxSendByte bytes are in it.                      *)

TakenOneMore(q) ==
  {i \in 1 .. Len(q) : i - 1 <= MaxSendPacket /\ q[i].from - q[1].from < MaxSendByte}

Taken(q) ==
  {i \in 1 .. Len(q) : i - 1 < MaxSendPacket /\ q[i].from - q[1].from < MaxSendByte}

BatchLen(q) == Cardinality(Taken(q))

(* sumsize, the bytes of the batch of n packets at the front of q *)
BatchSize(q, n) == IF n = 0 THEN 0 ELSE q[n].to - q[1].from

BatchBytes(q, n) == [j \in 1 .. BatchSize(q, n) |-> q[1].from + j - 1]

(* uv_write refuses (UV_EBADF, no callback) once uv_close has closed the    *)
(* descriptor; write() drops that result.                                   *)
CanWrite(c) == handle[c] = "open"

(* send_top_msg on queue q, with r requests and the bytes b in libuv *)
SendTopMsg(c, q, r, b) ==
  LET n == BatchLen(q)
      issued == BatchSize(q, n) > 0 /\ CanWrite(c)
  IN  /\ sendPackets' = [sendPackets EXCEPT ![c] = q]
      /\ sending' = [sending EXCEPT ![c] = n]
      /\ requests' = [requests EXCEPT ![c] = IF issued THEN r + 1 ELSE r]
      /\ pending' = [pending EXCEPT ![c] = IF issued THEN b \o BatchBytes(q, n) ELSE b]

IsSendingNever(c) == FALSE

(* isSending *)
IsSending(c) == sending[c] > 0

(* Faults that the runs seed in on_writecomplete: the next batch is sent    *)
(* before the packets are popped, the packets of the whole queue are popped,*)
(* those that were sent are recycled and not popped,                        *)
(* the next batch is put together but not written, it is forgotten.         *)
OnWriteCompleteSendFirst(c) ==
  LET q == sendPackets[c]
      n == BatchLen(q)
  IN  /\ recycled' = [recycled EXCEPT ![c] = @ \o SubSeq(q, 1, sending[c])]
      /\ sendPackets' = [sendPackets EXCEPT ![c] = SubSeq(q, sending[c] + 1, Len(q))]
      /\ sending' = [sending EXCEPT ![c] = n]
      /\ UNCHANGED requests
      /\ pending' = [pending EXCEPT ![c] = BatchBytes(q, n)]

OnWriteCompletePopAll(c) ==
  /\ recycled' = [recycled EXCEPT ![c] = @ \o sendPackets[c]]
  /\ SendTopMsg(c, <<>>, requests[c] - 1, <<>>)

OnWriteCompleteNoPop(c) ==
  /\ recycled' = [recycled EXCEPT ![c] = @ \o SubSeq(sendPackets[c], 1, sending[c])]
  /\ SendTopMsg(c, sendPackets[c], requests[c] - 1, <<>>)

OnWriteCompleteNoWrite(c) ==
  LET q == SubSeq(sendPackets[c], sending[c] + 1, Len(sendPackets[c]))
  IN  /\ recycled' = [recycled EXCEPT ![c] = @ \o SubSeq(sendPackets[c], 1, sending[c])]
      /\ sendPackets' = [sendPackets EXCEPT ![c] = q]
      /\ sending' = [sending EXCEPT ![c] = BatchLen(q)]
      /\ requests' = [requests EXCEPT ![c] = @ - 1]
      /\ UNCHANGED pending

OnWriteCompleteNoNext(c) ==
  LET q == sendPackets[c]
  IN  /\ recycled' = [recycled EXCEPT ![c] = @ \o SubSeq(q, 1, sending[c])]
      /\ sendPackets' = [sendPackets EXCEPT ![c] = SubSeq(q, sending[c] + 1, Len(q))]
      /\ requests' = [requests EXCEPT ![c] = @ - 1]
      /\ sending' = [sending EXCEPT ![c] = 0]
      /\ UNCHANGED pending

(* on_writecomplete: the packets of the batch are recycled, the next batch  *)
(* goes out.                                                                *)
OnWriteComplete(c) ==
  /\ recycled' = [recycled EXCEPT ![c] = @ \o SubSeq(sendPackets[c], 1, sending[c])]
  /\ SendTopMsg(c, SubSeq(sendPackets[c], sending[c] + 1, Len(sendPackets[c])),
                requests[c] - 1, <<>>)

-----------------------------------------------------------------------------
(* The application *)

(* TcpSocket::write, legal until the object is deleted *)
Write(c, size) ==
  LET p == [from |-> StreamEnd(c), to |-> StreamEnd(c) + size]
      q == Append(sendPackets[c], p)
  IN  /\ handle[c] # "destroyed"
      /\ Len(offered[c]) < MaxPackets[c]
      /\ offered' = [offered EXCEPT ![c] = Append(@, p)]
      /\ IF IsSending(c)
           THEN /\ sendPackets' = [sendPackets EXCEPT ![c] = q]
                /\ UNCHANGED <<sending, requests, pending>>
           ELSE SendTopMsg(c, q, requests[c], pending[c])
      /\ UNCHANGED <<handle, accepted, broken, recycled, aborted>>

(* TcpSocketBase::close: uv_close, whose first statement asserts that the   *)
(* handle is not closing already.  Nothing tells the application that it is *)
(* until onClose.                                                           *)
Close(c) ==
  /\ handle[c] # "destroyed"
  /\ IF handle[c] = "open"
       THEN /\ handle' = [handle EXCEPT ![c] = "closing"]
            /\ UNCHANGED aborted
       ELSE /\ aborted' = TRUE
            /\ UNCHANGED handle
  /\ UNCHANGED <<sendPackets, sending, requests, pending, accepted, broken,
                 offered, recycled>>

-----------------------------------------------------------------------------
(* libuv and the kernel *)

(* the kernel takes the next k bytes (a write may be partial) *)
KernelWrite(c, k) ==
  /\ handle[c] = "open"
  /\ ~broken[c]
  /\ k \in 1 .. Len(pending[c])
  /\ accepted' = [accepted EXCEPT ![c] = @ \o SubSeq(pending[c], 1, k)]
  /\ pending' = [pending EXCEPT ![c] = SubSeq(@, k + 1, Len(@))]
  /\ UNCHANGED <<handle, sendPackets, sending, requests, broken, offered,
                 recycled, aborted>>

(* the kernel reports an error: libuv drops the rest of the request, and    *)
(* every later write of this stream fails as well                           *)
KernelFail(c) ==
  /\ handle[c] = "open"
  /\ pending[c] # <<>>
  /\ pending' = [pending EXCEPT ![c] = <<>>]
  /\ broken' = [broken EXCEPT ![c] = TRUE]
  /\ UNCHANGED <<handle, sendPackets, sending, requests, accepted, offered,
                 recycled, aborted>>

(* echo_write: the same whatever the status *)
EchoWrite(c) ==
  /\ handle[c] = "open"
  /\ requests[c] > 0
  /\ pending[c] = <<>>
  /\ OnWriteComplete(c)
  /\ UNCHANGED <<handle, accepted, broken, offered, aborted>>

(* release: the destructor recycles what is queued *)
ReleaseNothing(c) ==
  /\ sendPackets' = [sendPackets EXCEPT ![c] = <<>>]
  /\ sending' = [sending EXCEPT ![c] = 0]
  /\ UNCHANGED recycled

Release(c) ==
  /\ recycled' = [recycled EXCEPT ![c] = @ \o sendPackets[c]]
  /\ sendPackets' = [sendPackets EXCEPT ![c] = <<>>]
  /\ sending' = [sending EXCEPT ![c] = 0]

(* seeded fault: delete right after uv_close, as TcpServer does with a      *)
(* connection it could not accept                                           *)
EchoReadEndDelete(c) ==
  /\ handle[c] = "open"
  /\ handle' = [handle EXCEPT ![c] = "destroyed"]
  /\ Release(c)
  /\ UNCHANGED <<requests, pending, accepted, broken, offered, aborted>>

(* echo_read with nread < 0: end of file or an error *)
EchoReadEnd(c) ==
  /\ handle[c] = "open"
  /\ handle' = [handle EXCEPT ![c] = "closing"]
  /\ UNCHANGED <<sendPackets, sending, requests, pending, accepted, broken,
                 offered, recycled, aborted>>

(* seeded fault: on_writecomplete although nothing was being written *)
OnUvCloseAlwaysCompletes(c) ==
  /\ handle[c] = "closing"
  /\ OnWriteComplete(c)
  /\ handle' = [handle EXCEPT ![c] = "onclose"]
  /\ UNCHANGED <<accepted, broken, offered, aborted>>

(* The closing phase of the loop: an outstanding request is cancelled with  *)
(* its callback first, then on_uv_close runs and calls onClose.             *)
OnUvClose(c) ==
  /\ handle[c] = "closing"
  /\ IF requests[c] > 0
       THEN OnWriteComplete(c)
       ELSE UNCHANGED <<sendPackets, sending, requests, pending, recycled>>
  /\ handle' = [handle EXCEPT ![c] = "onclose"]
  /\ UNCHANGED <<accepted, broken, offered, aborted>>

(* destroyConnect deletes the object *)
Destroy(c) ==
  /\ handle[c] = "onclose"
  /\ handle' = [handle EXCEPT ![c] = "destroyed"]
  /\ Release(c)
  /\ UNCHANGED <<requests, pending, accepted, broken, offered, aborted>>

-----------------------------------------------------------------------------
AppStep(c) == (\E size \in Sizes : Write(c, size)) \/ Close(c)

LoopStep(c) ==
  \/ \E k \in 1 .. Len(pending[c]) : KernelWrite(c, k)
  \/ KernelFail(c)
  \/ EchoWrite(c)
  \/ EchoReadEnd(c)
  \/ OnUvClose(c)
  \/ Destroy(c)

Next == ~aborted /\ \E c \in Conns : AppStep(c) \/ LoopStep(c)

Spec == Init /\ [][Next]_vars

(* While the loop runs, a pending write makes progress (or fails), its      *)
(* callback is made, and a closing handle is closed and deleted.            *)
Progress(c) ==
  \/ \E k \in 1 .. Len(pending[c]) : KernelWrite(c, k)
  \/ KernelFail(c)
  \/ EchoWrite(c)
  \/ OnUvClose(c)
  \/ Destroy(c)

FairSpec == Spec /\ \A c \in Conns : WF_vars(~aborted /\ Progress(c))

-----------------------------------------------------------------------------
(* m_write_t is a member of the connection and every uv_write uses it: a    *)
(* second uv_write before the callback of the first would overwrite the     *)
(* request libuv has queued.                                                *)
OneRequest == \A c \in Conns : requests[c] <= 1

(* The bytes libuv still has to write belong to packets of the batch that   *)
(* are still in the queue: no packet is recycled under a pending write, and *)
(* Write during a batch does not disturb it.                                *)
BatchPinned ==
  \A c \in Conns : pending[c] # <<>> =>
    /\ sending[c] \in 1 .. Len(sendPackets[c])
    /\ \A j \in 1 .. Len(pending[c]) :
         /\ sendPackets[c][1].from <= pending[c][j]
         /\ pending[c][j] < sendPackets[c][sending[c]].to

(* The kernel gets the bytes of the stream in order, without a gap or a     *)
(* repetition, across batches, partial writes, errors and close.            *)
StreamInOrder ==
  \A c \in Conns : \A i \in 1 .. Len(accepted[c]) : accepted[c][i] = i - 1

(* Each packet handed to write() is in the queue or has been recycled,      *)
(* exactly one of the two, and exactly once; nothing is left in the queue   *)
(* of a deleted connection.                                                 *)
RecycledOnce ==
  \A c \in Conns :
    /\ recycled[c] \o sendPackets[c] = offered[c]
    /\ handle[c] = "destroyed" => sendPackets[c] = <<>>

(* libuv never holds a request of a deleted connection: no callback can     *)
(* reach freed memory, even if onClose wrote to the connection.             *)
NoRequestOutlives ==
  \A c \in Conns : handle[c] \in {"onclose", "destroyed"} => requests[c] = 0

(* A queue that is not empty is being written, so the application never has *)
(* to kick it, although isSending() keeps write() from starting a batch.    *)
(* The one exception the code has: a batch of empty packets is put in       *)
(* mSending and never written.                                              *)
EmptyBatch(c) ==
  sending[c] > 0 /\ BatchSize(sendPackets[c], sending[c]) = 0

QueueDrains ==
  \A c \in Conns :
    (handle[c] = "open" /\ sendPackets[c] # <<>>) => (requests[c] > 0 \/ EmptyBatch(c))

(* A batch respects both limits: it ends with the packet that reaches       *)
(* MaxSendByte and never exceeds MaxSendPacket packets.                     *)
BatchWithinLimits ==
  \A c \in Conns :
    sending[c] > 0 =>
      /\ sending[c] <= MaxSendPacket
      /\ BatchSize(sendPackets[c], sending[c] - 1) < MaxSendByte

(* Every packet handed to write() is recycled in the end: sent, or dropped  *)
(* by the failure or the close of the connection, unless the queue is stuck *)
(* behind a batch of empty packets.                                         *)
EventuallyRecycled ==
  \A c \in Conns : \A n \in 1 .. MaxPackets[c] :
    (Len(offered[c]) >= n) ~>
      (Len(recycled[c]) >= n \/ aborted \/ (handle[c] = "open" /\ EmptyBatch(c)))
=============================================================================
