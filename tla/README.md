# jwEngine: a TLA+ model

jwEngine is a small C++/Lua server framework: TCP, HTTP, WebSocket and KCP
servers and clients on libuv, a thread pool for MySQL and Redis commands, timers,
object pools, logging, and an IDL compiler. This directory holds TLA+ modules of
its core logic, TLC configurations that check them, and proofs.

Paths below are relative to the repository root (`src/` is the framework's own
code, `dependencies/` is vendored).

## 1. Inventory

Almost everything runs on one thread, the loop's (`src/common/EventLoop.cpp`,
`uv_run`): libuv calls a handler, the handler calls the application, the
application calls back into the framework. The hard part there is not parallelism
but re-entrancy and lifetime: what the application may do inside a callback, and
what libuv may still call afterwards. Two parts are really concurrent: the thread
pool and the logger.

| component | code | state | operations | talks to |
|---|---|---|---|---|
| TCP connection | `network/TcpSocket` | `mSendPackets`, `mSending`, one `m_write_t`, the `uv_tcp_t` | `write`, `close`, `echo_write`, `echo_read`, `on_uv_close` | libuv below, a framing subclass above |
| framed connection | `network/NetConnect`, `NetPacket`, `BasePacket`, `MessageBuffer` | `mReadPacket`, `mBuffer` | `on_msgbuffer`, `sendMsg`, `on_clsesocket` | TcpSocket; `NetEvent` callbacks |
| accept and connect | `network/TcpServer`, `TcpClient`, `NetServer`, `NetClient` | the listening handle, one request per `connect` | `listen`, `on_new_connection`, `connect`, `shutdown` | creates connections |
| HTTP connection | `network/HttpConnect`, `HttpServer`, `utils/HttpParser`, `common/HttpParam` | `m_readPacket`, `m_content`, `m_residue`, the parser | `on_msgbuffer`, `complete`, `on_writecomplete`, `autoMsg` | TcpSocket, CommonPool |
| WebSocket connection | `network/WebSocketConnect`, `WebSocketPacket` | `__m_isHandshake`, `__m_readPacket` | `on_msgbuffer`, `sendMsg` | TcpSocket |
| KCP sessions | `network/KcpServer`, `KcpClient`, `KcpSession`, `Udp*` | `gSessionid`, the session maps, a timer per session | `onMessage`, `createSession`, `closeSession`, `update` | UDP, ikcp, UTimer |
| thread pool | `common/ThreadPool`, `TQueue` | `_threads`, `_waitTasks`, `_completeTasks`, `_isrun` | `create`, `exit`, `addTask`, `update`, `backfunc` | workers and the main thread |
| database threads | `db/DBThreadPool`, `DB_Interface_*`, `Sql*`, `Redis*` | `m_db` of a worker, the result of a task | `onStart`, `run`, `onEnd`, `process`, `complete` | ThreadPool; MySQL and Redis clients |
| object pools | `common/Objectpool`, `CommonPool`, `PoolObject` | the free list, a flag per object | `createObject`, `reclaimObject`, `destroy` | HTTP connections |
| timers | `common/Timer`, `Heap`, `UTimer` | the heap, `m_time`, `m_repeat` | `start`, `stop`, `update` | application, KCP |
| logger | `common/XLog`, `SpinLock` | `file`, `currsize`, `writeday` | `writeFile` | any thread |
| IDL compiler | `serialization/` | token list, parsed structures | tokenise, parse, generate | a command line tool |
| JSON, CSV, files | `utils/Json*`, `common/CsvParser`, `XFile`, `Tools` | | pure functions, file I/O | |
| Lua bindings | `script/` | | one-line wrappers | everything above |

What makes each correct, and what is hard about it:

* **TCP connection.** One write request is reused for every batch, so a second
  `uv_write` must not happen before the first is called back; the packets whose
  buffers libuv holds must stay in the queue; every packet must be freed exactly
  once whether it is sent, fails or is dropped by a close; a connection must not be
  deleted while libuv can still call it back. `write()` is legal from every
  callback, `close()` races with the end of file the peer causes.
* **Framed connection.** Messages come out whole, in order and once, however TCP
  cuts the stream, the message without a body included; none is held back when all
  its bytes are there.
* **Thread pool.** A task is processed by one worker and reported once; stopping
  workers loses no result; no worker outlives its pool; `exit()` returns. A worker's
  thread starts while its object is still being constructed, and only a sleep of 10 ms
  keeps it from using what is not there yet.
* **Accept/connect.** Each connection object is either given to the application or
  freed, after libuv has finished with it.
* **HTTP.** A handler gets the requests of its connection, in order and whole, however
  the stream was cut; an answer goes to whoever asked, although connection objects are
  used again; a connection that asked for it is closed once its answer is written, and
  none is closed twice.
* **WebSocket.** Frames come out whole, in order and once, and none that has payload is
  held back.
* **Database threads, SQL commands.** MySQL connections are not locked: a worker must
  use its own and the statements prepared on it, while commands wander between workers
  and connections break and come back; a callback is told of its own task's error.
* **KCP.** One session on each side per handshake, in spite of lost, repeated and
  reordered datagrams; messages of different sessions never mix; the maps lead to
  sessions that live. `update()` goes on with the session when `onMsg` returns, whatever
  was closed in it.
* **Object pools, timers, logger.** An object is in the pool at most once; a timer
  is in the heap exactly while it is armed, which the code does not keep for one whose
  `m_time` is 0; no line is written when there is no file.

## 2. Modules

| module | extends | models |
|---|---|---|
| `TcpSocket` | | the send queue and the life of a connection |
| `NetConnect` | `TcpSocket` | two connections, the bytes between them, and the framing |
| `MessageChannel` | | the abstract specification `NetConnect` implements |
| `HttpServer` | | accept, HTTP connections and the pool of their objects |
| `WebSocketConnect` | | the reading side of a WebSocket connection |
| `KcpSessions` | | the sessions of one KCP server and its clients, and the UDP network |
| `ThreadPool` | | the pool, its workers and their database interfaces |
| `Database` | `ThreadPool` | what the workers do with a MySQL task, its command and their connection |
| `Timer` | | the timers and the pointer heap under them |
| `TimerSet` | | the abstract specification `Timer` implements |
| `TcpSocketProofs`, `KcpSessionsProofs` | the module named | theorems |
| `NetConnectProofs` | `NetConnect`, `TcpSocketProofs` | theorems |
| `DatabaseProofs` | `Database` | theorems about `ThreadPool` and about `Database` |
| `Concatenation` | | lemmas about a stream joined of parts by recursion |
| `HttpServerProofs`, `WebSocketConnectProofs`, `TimerProofs` | the module named, `Concatenation` | theorems |
| `MCTcpSocket`, `MCNetConnect`, `MCHttpServer`, `MCWebSocketConnect`, `MCKcpSessions`, `MCTimer` | the module named | the instances TLC checks; `Database` needs no module of its own |

Operators whose comment says "seeded fault" are not part of a specification. Each
is an operation with a plausible mistake in it, kept to show that a property fails
when the code is wrong in that way.

### TcpSocket

State: `sendPackets` is `mSendPackets`; `sending` is `mSending.size()`, which says
everything about `mSending` because its buffers are always those of the first
packets of the queue; `requests` counts `uv_write` calls on `m_write_t` that were
not called back; `pending` are the bytes libuv holds for them and `accepted` the
bytes the kernel took. `handle` is the `uv_tcp_t`. `offered` and `recycled` are
histories. A byte is its offset in the stream of everything written, a packet an
interval of offsets, so that order, loss and repetition are visible without data.

Actions: `Write` and `Close` for the application, at any moment until the object is
deleted (it may call them from `onMsg`, `onClose`, a timer); `KernelWrite` (a part
of the pending bytes) and `KernelFail` for the kernel; `EchoWrite`, `EchoReadEnd`,
`OnUvClose`, `Destroy` for libuv's callbacks. libuv is external and modelled from how this code
uses it: `uv_close` closes the descriptor at once (a later `uv_write` fails without
a callback, and `write()` drops that result), and in the closing phase of the loop
a request that was outstanding is called back before the close callback.

### NetConnect

Adds `readCount` (how much of what the peer's kernel accepted was read), `mBuffer`,
`readPacket` (the bytes in `mReadPacket`) and `delivered` (what `onMsg` was given).
`EchoRead` is one read of any size; `OnMsgBuffer` is one round of the `while` of
`on_msgbuffer`, so that the application's `sendMsg` and `close` inside `onMsg` fall
between rounds. A buffer being worked on excludes the loop's other handlers for that
end. `MarkLen` is defined by what `writeHead` stored: the bytes that begin a packet
have that packet's length, others have none.

### MessageChannel

Two ends; `Send`, `Deliver` (the next message, whole), `Hangup`, `OnClose`, `Delete`.
Messages may be delivered after `close()` but not from `onClose` on, which is what
the loop of `on_msgbuffer` does. Liveness is promised only while both ends are open.

### HttpServer

State: `life`, `enabled`, `owner` of a connection object (an address: it is used again),
`pool` is `objects_` of `Objectpool`. `in[o]` is what an object has read: the active part of
the `MessageBuffer`, `m_readPacket` and the size of its storage, where `m_content` points in it
(0 for NULL) and whether the storage has moved since, the parser (the unit that ended the head it
saw last) and `m_residue`. `out[o]` is the send queue of `TcpSocket`, reduced to what is
promised there. `cut`, `delivered` and `wire` are histories. A request is the units 0 (its
head), 1 and 2 (the halves of the mark that ends the head), 3, 4, ... (its body), and a read
returns any number of units, so that it may end inside the mark. Two places are enough for
that: all the code does with the four bytes is to look for them in one buffer.

Actions: `OnNewConnection` (accept, `createObject` with `zero()`), `EchoRead`, `EchoReadEnd`,
`ReadRequest` and `ReadHeadPart` (the rounds of `on_msgbuffer` with and without the end of a
head, `complete` and the handler's answer included), `KernelWrite`, `EchoWrite`
(`on_writecomplete`, which asks the parser whether to close), and `OnUvClose` with
`reclaimObject`. What looks odd in the model is so in the code:

* `isClose` asks a parser that `zero()` has reset since the request it answers.
* A body that outgrows the packet moves the storage `m_content` and the path point into, so
  that the lookup of the handler may go either way.
* A mark that is cut is not found: the request stays in the packet and becomes the beginning
  of the next one. The parser goes over both and keeps what it saw last; what it does not
  take for a head it refuses.
* `AsInt` is the conversion of the length to `int`. With a negative `m_residue` the loop
  of `on_msgbuffer` goes round for ever: `process` becomes "hangs" and the model ends there. A
  length that wraps to a smaller one ends the body there, and the rest is taken for a head.
* The search for the end of a head runs beyond the bytes that were read, up to the next
  zero byte, so that an end left there by an earlier read, or what lies behind a full
  buffer, sends the loop out of the buffer. That is undefined behaviour: `process` becomes
  "overrun" and the model ends there.

Assumed: the application answers once, in its handler; only a POST has a body; a body has no
head of its own in it.

### WebSocketConnect

State: `isHandshake`, the buffer, and `packet`, the bytes given to `__m_readPacket` with its
`_wpos`, which jumps when the first two bytes tell the size of the head, since a head
is stored at the end of 14 bytes. `EchoRead` is one read, `OnHead` and `OnBody` are the
rounds of `on_msgbuffer`. `RefuseHandshake` is the branch that calls `onClose` and leaves the
connection open. A ping is handed to `onMsg` as the code does: `getOpcode` is four bits and never
equals `PING_FRAME`. `HeadOf` says what the code reads in two bytes; of bytes that are
no head it says "an empty frame", which is one of the things they can say. Assumed: the
request for the handshake comes in one read and the client waits for the answer, as RFC 6455
demands.

### ThreadPool

`main` is where the main thread is, `at[t]` where a worker is in `backfunc`, and
`object[t]` how far its `CThread` object is constructed or destroyed. The
constructor is three steps (`CreateThread`, `InitIsrun`, `InitDb`) since the
`std::thread` it starts runs meanwhile: `_isrun` is declared after `_thread`
and `m_db` is assigned in the derived constructor's body. Until it is written
`_isrun` has any value and `m_db` is garbage. The `sleep_for(10ms)` at the head of
`backfunc` is no synchronisation, so `OnStart`, `TestIsrun`, `Run` and the rest of a worker
are possible in any phase of the construction: while the base class is being made
`onStart` and `onEnd` are the empty ones of `CThread`, and while the derived one is, its `m_db = NULL`
may fall between the assignment and the use in `DBThread::onStart`, or after it. A task that
is given no interface ends the program (`aborted`). `Run` calls `process()`, with
the interface there is at that moment, and `Processed` is its return. `exit()` is `Exit`, then
`Stop` and `Join` for each thread; in the model `Join` takes the thread from
`_threads`, which the code clears at the end (nobody can look in between).
A call of `create(n)` is n times `CreateThread`; calls the main thread could make
in between only add behaviours. A task is the number of its `addTask` call. The
moodycamel queue is external: first in, first out per producer, and a pop of
`_completeTasks` takes from any producer that has something.

### Database

`command[n]` is the `SqlPrepare` of task n, `stmt` the worker and connection a command's `m_stmt`
is of, `session` and `alive` the connection of a worker's interface, `failed` its last error,
`kept` what the task copied of it; `fate` and `given` are histories. `Connect` adds `connect()` to
the pool's `OnStart`; `Prepare` and `Execute` are the two calls of `DBSqlTask::process` (the last
of them is the pool's `Processed`), and the connection may break before either (`Drop`); `AddCommand`
and `Complete` are `addTask` and `update` with their command and callback. Everything else is
the pool's, unchanged. MySQL and its client library are external: prepare connects again when the
first `connect()` had succeeded, execute does not, and a call that fails sets the
connection's error. Assumed: the application adds a command again only after the callback of
its last task, and keeps its commands as long as the pool lives. Redis is not modelled.

### KcpSessions

`sessions` is the list of all `KcpSession` objects ever made, on both sides, so that an
object is known by its place in it and two objects with the same number can be told
apart; `live` turns false at `release`. `map` is `__m_mapSessions` of each side. The
network is the set of datagrams sent: one that is never received is lost, one received
late is reordered, and a set-up datagram or an answer stays after its arrival if
`Duplicates`. The segments ikcp sends stay in any case, since it repeats them.
`CreateSession`, `SendMsg`, `CloseSession`, `Shutdown` are the application's calls;
`AcceptSession`, `ConnectSession`, `Receive`, `Refuse` are the branches of the two
`onMessage`; `Tick` is the timer's `update`. `update` hands one message to `onMsg`,
and `inUpdate` says in whose `onMsg` the application is until `UpdateReturns`. ikcp is
external and reduced to its promise: messages reach `onMsg` in the order of their
numbers and once, where the numbers are counted from the creation of the control block
and a block takes the first segment it gets for a number. A time-out is
`CloseSession` at any moment: the clock (`XTime::iclock`, processor time in 32
bits) is left out. The application may close any session in any callback. If it is the one
whose `onMsg` runs, `update()` goes on with an object that was freed
(`KcpSession.cpp:64-67`); `UpdateReturns` needs a live one, and the model ends there. `Refuse`
does the release and the erasing that follows it in one step.

### Timer

`heap` is `gRootHeap` with the `left`, `right`, `parent` pointers of every `m_node`; the
operators on it follow `Heap.cpp` pointer by pointer, and a path of bits from the
root is the number of the place it leads to. `time` is `m_time`, where 0 says that
the timer is not armed. `turn` counts the callbacks of the running `update()`: each
`Run` is one turn of its loop up to the callback, so between two of them the
application is in that callback and may do anything, and `UpdateReturns` is the way
out. The clock is the processor time `XTime::iclock()` gives, modulo `ClockMod`, and it
may advance between the two readings in one turn. A stopped timer's pointers
are set to NULL, which no one can see, since `heap_insert` clears them.
`armed` and `behind` are histories: the timers that were started, and neither stopped nor
run for the last time since; and those that were stopped or destroyed while armed but had the
`m_time` 0, which `stop()` takes for "not armed", so that it leaves the node in the heap. A deadline is 0 where the
32-bit sum comes out so, and `start(cb, 0)` gives it to a timer before the processor time has reached
its first millisecond. With the first such timer the model ends (`behind = {}` in `TimerNext`).
`Stored` is the conversion of the 64-bit arguments of `start` to the 32 bits of `m_time` and
`m_repeat`. Assumed: the application starts only timers that are not armed (`Restart = FALSE`).

### TimerSet

The same timers without a heap: `SetRun` runs a due timer that no armed one precedes,
`SetReturn` is possible only when none is due or the turns are used up. That `update()`
looks at the root alone is right because of this refinement. "Due" and "precedes" compare
deadlines as numbers, as the code does, so that nothing is promised of the order of two timers
between which the clock wraps; and the promise ends, like the model of the code, with an armed
timer of `m_time` 0 that is stopped.

## 3. Runs

| run | question |
|---|---|
| `tcp_socket` | Do the queue's safety properties hold under every interleaving of writes, partial kernel writes, errors and closes, with packets of zero bytes among them? Is a batch of empty packets the only thing that makes the queue stand still, and is every packet recycled in the end? |
| `net_connect` | With traffic both ways, so that an end closes, reads and writes at once: are messages delivered in order, is none held back, and is every behaviour one of `MessageChannel`, its liveness included? |
| `http_server` | Two connections over objects that are used again, streams of one or two requests cut anywhere: do handlers get the right requests, do answers go to who asked, is the pool sound, and is a connection that asked to be closed given back when it is answered? |
| `http_abort` | Can `uv_close` be called on a handle that is closing? (It can; see section 6.) |
| `websocket` | Are frames with and without payload and mask handed over whole, in order, once and at once, and every one in the end? |
| `websocket_long` | And a frame whose length takes two bytes more? (It is not; see section 6.) |
| `kcp_sessions` | Are messages of two clients and two sessions ever mixed, when datagrams are lost, late, repeated and out of order, and any session is closed in any callback? Do the maps lead to live sessions only, and does the server find all it has? |
| `kcp_live` | Is every message read if both sides stay? |
| `kcp_orphan` | Can `closeSession` close every session there is? (It cannot; see section 6.) |
| `timers` | Six timers, none started while armed: is the heap a heap after any calls, does it hold the armed timers and no other, the one exception apart, and is every step one `TimerSet` allows? |
| `timer_restart` | Is the heap still a tree when an armed timer is started? (It is not; see section 6.) |
| `database` | Two workers and two tasks, with creation, stopping and destruction of the pool at every point and connections that fail and come back: the safety properties of the pool and of the commands; does `exit()` return, and is every task reported? |

The largest are `net_connect` (687 thousand states), `http_server` (436 thousand), `database`
(372 thousand) and `timers` (320 thousand), one to two minutes each.

Bounds. `MAX_SEND_PACKET` is 2 and `MAX_SEND_BYTE` 3 with packets of 0, 1 and 2 bytes
and 5 packets in all: batches end by either limit and by both at once, and
three batches follow each other, with packets queued while one is out. More packets
add nothing but repetition, since only the packets of the current batch and those
behind it matter. One connection is enough for `TcpSocket`: connections share no
state. `NetConnect` has heads of 2 bytes, messages without body and with one byte of it, and reads
of up to 3 bytes, so that a head, a body and two messages are cut at every place. HTTP
has two objects and a pool that keeps one, so that the second connection gets a new
object, one that was used, or runs beside the first, and a full pool deletes. A new
packet holds 4 units, so that a body of 1 fits and a body of 2 does not, and the largest int is
2, so that a length of 3 becomes negative and one of 7 becomes 1. The streams are a `POST` to be kept
alive before a `GET` that asks for the end, and each irregular request alone: a head that is
refused, one that is too long, a body too large for a packet, and the two lengths, which only the first
client sends: what they leave behind meets the second in the object that is used again.
Three frames
show that what is left of one frame is right for the next, whichever of them have
payload, and that a close frame behind others is found. The
pool has two workers because interference needs two, two tasks with two commands, so that
they share a command or not, and each worker two connections, since a statement of the
one must not survive into the other. KCP has two numbers, since one is reused or mixed
up only with another, and up to four objects, so that one number can have two
objects on the client; one message per session suffices to mix streams, two are used
where order and waiting matter (`kcp_live`). Six timers are the fewest for which the last
node of the heap can be lower than the new parent it gets; a clock of 4 values wraps
and gives four different deadlines, 0 among them, an interval of 6 is wider than it, and two turns per `update()` reach the limit (10 in the
code). Timers are symmetric, but for the one that repeats, and so are KCP's clients. `CHECK_DEADLOCK FALSE` is set everywhere: a deleted
connection, a destroyed pool and a spent bound are real ends.

Fairness. `FairSpec`, `NetFairSpec`: the loop runs, so libuv makes the callbacks that
are due, and the network moves pending bytes or reports an error; it never has to
close a connection, except that a broken stream is reported to its reader.
Nothing is assumed of the application. `PoolFairSpec`: threads are scheduled,
`process()` returns, a call of the main thread goes on, and `update()` is called again
and again, as every example in `example/` does. `CreateThread`, `AddTask`, `Exit` are
never forced; `DbFairSpec` is the same with the tasks' steps, and lets the MySQL server fail for
ever. `HttpServer`'s `FairSpec`: for each object, the loop goes on and what the client has sent
arrives; a client never has to close. `WebSocketConnect`'s is the same for one connection.
`KcpFairSpec`: timers tick, callbacks return, and a segment the other end does
not have yet, which ikcp sends again and again, arrives at last (strong fairness). Set-up
datagrams and answers have no fairness, the code sends them once.

## 4. Proofs

`TcpSocketProofs` proves for any number of connections and packets, any sizes and any
limits: `TypeOK`, `OneRequest`, `BatchPinned`, `StreamInOrder`, `RecycledOnce`,
`NoRequestOutlives`, `BatchWithinLimits` and `QueueDrains`, and that without empty packets a
queue is always being written (`NoEmptyBatchAlways`). The assumptions are the four named ones of
`TcpSocket`.
None of these is inductive. The invariant `IInv` adds, for each connection: the packets
offered are the packets recycled followed by the queue, and each begins where the one
before ends (`QueueInv`); there is at most one request, only for a batch that is at
the front of the queue, only while the handle is open or closing (`RequestInv`);
accepted bytes followed by pending ones are consecutive and the pending ones are
the last bytes of the batch (`StreamInv`). The heart is `SendTopMsgEffect`: a batch
started when no request is out begins at the front of the queue and beyond everything
that was accepted. Everything else follows from it, as one lemma per action. A second
invariant, `BatchInv`, bounds the batch.

`NetConnectProofs` proves `NetTypeOK`, `DeliveredInOrder` and `NoCompletePacketHeld` for any sizes
of heads, buffers, messages and batches and any number of messages, and `ChannelRefined`: the two
connections implement the safety part of `MessageChannel` (its fairness is left to the run). Beyond
those of `TcpSocket` its assumptions are that there are two ends, that heads and buffers have
some size and that no packet is smaller than its head. `NetInv` is built on `IInv`,
carried over from the `TcpSocket` under each end. `SourceInv` says that every packet has its head, and
`ReadInv` that what an end has read is the packets delivered, then `readPacket`, then
`mBuffer`, and that the part of a packet in `readPacket` is not the whole of it. From that the
bytes at which `on_msgbuffer` looks for a length are always those `writeHead` stored, wherever
the reads cut the stream.

`DatabaseProofs` proves of `ThreadPool`, for any number of workers and tasks: `PoolTypeOK`,
`ResultsInOrder`, `TaskTakenOnce`, `TakenInOrder` and `DeletedIsFinished`, in whatever phase of
its construction a worker starts to run. `LifeInv` relates the construction of a `CThread`,
its place in `backfunc` and the main thread; `QueueInv` says that `_waitTasks` holds
the latest tasks one after the other; `TakerInv` that the others have one taker each.

Of `Database` it proves `DatabaseIsPool`, that the database threads implement the pool,
so that all of the above holds of them (`DatabaseKeepsPromises`), and `DbTypeOK`, `OwnStatement` and `OutcomeIsOwn` for any
number of workers, tasks, commands and connections. `PlaceInv` says that a task that
left `_waitTasks` is in one place, a worker's hands or one result queue, until it is
reported; with it, and the assumption on the application, two tasks under way never have
one command (`CommandInv`), so that nobody prepares anew what a worker is about
to execute (`StatementInv`), and the error a task keeps is that of its own call
(`OutcomeInv`).

`KcpSessionsProofs` proves `KcpTypeOK`, `MappedIsLive`, `ServerFindsAll` and
`OnePartner` for any number of clients, sessions, objects and messages, with and without
datagrams that arrive twice. `NumberInv`: a number is below the counter, is given to one client,
and nobody else ever hears of it, not even through an answer that is still on its way.
`StreamInv`: a segment on its way carries the number of the object that sent it and goes to that
object's peer, and so do those that have come. Without the first, the twins of a client could
belong to different partners; without the second, a late segment could be of another
conversation.

`HttpServerProofs` proves `HttpTypeOK`, `PoolSound`, `AnswersToAsker` and `RequestsInOrder` for any
number of objects and connections, any limit of the pool and of a packet's storage, any
requests and any cut of their streams. `PoolSound` needs that owners are
connections already accepted (`LifeInv`), so that a new connection has an object of its own.
`AnswersToAsker` needs `QueueInv`: the queue of an object that serves a connection holds the
answers to the last of that connection's delivered requests, and those before it have
left, unless the stream is broken, from when on nothing leaves; a batch that is
written but not yet called back is counted on both sides. An object in the pool has no batch
(`IdleInv`), a connection not yet accepted no answers (`FreshInv`). What the queues and histories
hold does not matter to these proofs (`Typed`).
`RequestsInOrder` needs to know where every unit of a connection's stream is, and that is
`OrderInv`. `Cursor`: some units are done, then come the packet, the buffer and what
is not read yet. `CutKnown`: where a buffer begins or ends inside a mark, its request is in
`cut`, so that a mark the search does not find is always one that two reads share.
`Waiting`: while no head's end was seen, the marks in the packet are cut ones. `UnderWay`: when one was
seen, the packet begins with its request, unless the mark of the one before was cut;
`m_residue` is what the converted length of its body lacks, and `m_content` dangles only if the
packet outgrows its storage; here it is used that storages only grow, so that the one of
an object that served others is never smaller than a new one. `HandedOver`: each request given
to a handler is the one it says, and those left out since the one before were lost,
being unserved or not `Regular`. A body that ends early leaves units that are no head, and `Parses` refuses
them until the connection is closed or a negative length hangs the loop; nothing after it is handed over
as something it is not. That the request is the right one after an object was used again follows from
`zero()` in `OnNewConnection`, in whatever round the connection before was cut off.

`WebSocketConnectProofs` proves `WsTypeOK`, and, if no frame has an extended length
(`ShortFrames`; with one it fails, see section 6), `FramesInOrder` and `NoFrameHeld`, for any number of
frames with and without mask, any payload lengths that fit, and any cut. It assumes that lengths have a bound, as a field of 8 bytes
gives them. `WsTypes` holds for all streams,
the misread ones included: `HeadRule` says that `_wpos` counts the bytes of the packet as if the head
ended with the 14 bytes reserved for it, so that no step writes outside the packet. `Placed`
says where every byte is: in the frames handed over, in the packet, in the buffer or not read.

`TimerProofs` proves `TimerTypeOK`, `CompleteTree`, `InHeapIffArmed` and the refinement of
`TimerSet` (`TimerSetRefined`) for any finite number of timers, any arguments of `start` and any width of the
clock, under the hypothesis that the application starts no timer that is armed (`~Restart`; without
it `CompleteTree` fails, see section 6). None of them is inductive: what
`heap_remove` does to a pointer depends on where the node is, and whether the tree stays
ordered on all of it. The proof describes the heap by a function
`a` from places to nodes: `Shape(h, a)` says that the pointers of `h` are those of the complete
tree with node `a[k]` at place `k`, `Ordered` that no node is later than a child of its, and the
invariant `TimerInv` is that there is such an `a`, whose nodes are the armed timers, all of them live,
and the one that was left behind, if the behaviour has ended with it.
For each operation there is one lemma about pointers and one about the function.
`NodeAtIs`: the path `k` ends at `a[k]`. `SwapShape`: `heap_node_swap` exchanges two
places and mends every pointer, `min` and those of the grandchildren included. `LinkedShape`,
`CutShape` and `PutShape`: one place more, one less, and the last node in another's place. The
loops keep that all is in order but for one node, which may have to go up (`MayRise`)
or down (`MaySink`), the parent of its place being no later than its children. After `i` rounds
the walk up has the node at place `nelts - i` or before, the walk down beyond place `i`, unless all is
in order (`Rising`, `Sinking`): `nelts` rounds are enough. A node put in place of another may have to do
either (`PutOrder`); that is what the walk up after the walk down is for. `RootIs`, that the root
is the earliest of all, gives the refinement.

`Concatenation` has what `HttpServerProofs` and `WebSocketConnectProofs` rest on. Their streams
are joined of parts by a recursive function on 0 .. N, and what such a function gives must be
proved by induction, as it must for the paths and loops of `TimerProofs`. The
library's induction theorems take an operator as a parameter, which the provers cannot
instantiate; here induction is derived for sets of numbers instead, from the order of the
finite sets 1 .. n being well founded. The result about streams is that each part stands at the sum of the
lengths of those before it.

Only model-checked: all liveness, as fairness and ENABLED are out of the prover's reach, the
liveness part of what `NetConnect` implements included. Every safety property of a passing run
has a theorem.

## 5. Not modelled

libuv, moodycamel's queue, ikcp, llhttp, the database clients, sol2, protobuf and
lua-protobuf are vendored, and are most of the repository's lines; where a module needs one,
it is modelled from its use.

Left out of components that are modelled:

* `TcpClient`: its only state is the request of `connect`, and a connection that could not be
  made is leaked, so that nothing can happen to it any more. An `accept` that fails: the
  loop calls `on_new_connection` only when a client waits.
* Socket options, address formatting, the text of HTTP heads and answers, of the WebSocket
  handshake, the type a message carries: no step depends on them.
* HTTP answers that come later than their handler.
* The limits of a batch of HTTP answers, which `TcpSocket` has; the refusal of an object that
  is in the pool already (`Objectpool.h:69`), which `PoolSound` shows to be out of reach as long as libuv calls `onClose` once.
* A `close()` inside the `onMsg` of a WebSocket connection that has bytes left in its buffer, and a second close frame.
* A timer whose callback replaces or destroys the function object (`m_cb`) that runs.
* The clock of KCP's time-outs: one may come at any moment.
* Parameters and results of SQL commands, which are private to a task; the closing of a
  statement by `~SqlPrepare`, which uses a worker's connection from the main thread if the
  application drops a command first. Redis: one blocking call in place of two.
* `CommonPool`'s pools of plain packets: a list.

Not modelled at all: the logger, one function under a spin lock whose state is a file; the
event loop, a wrapper of `uv_run` that is built into every network module; the
Lua bindings, wrappers without logic of their own; JSON, CSV, the IDL compiler, file
and string helpers, sequential functions that unit tests would reach.

## 6. Findings

**An HTTP connection that ends while an answer is out aborts the process** (`http_abort`).
`HttpConnect::on_writecomplete` (`network/HttpConnect.cpp:183`) calls `close()` when the parser says
so, and a parser that was reset after its request always says so; it does not ask whether
the handle is closing. If the client's end of stream is read before the write is called back,
`echo_read` has called `uv_close` already (`TcpSocket.cpp:168`), the closing phase calls the write
back first, and the second `uv_close` runs into `assert(!uv__is_closing(handle))`
(`dependencies/libuv/src/unix/core.c:120`). The same assertion meets any application that calls
`close()` between the end of the stream and `onClose`: `TcpSocketBase::close()`
(`TcpSocket.cpp:24`) is unconditional, and there is no way to ask.

**Frames of 126 bytes and more are misread** (`websocket_long`). The comment above `WebSocketConnect`
(`network/WebSocketConnect.cpp:38`) says that the two bytes after the first two are then the length,
in network order, to be converted. `readFrameHead` stores a head at the end of its 14 bytes, but
`getMarkLen` (`WebSocketPacket.cpp:86`) reads these bytes at offset 2 of the 14, where there are zeros,
and converts nothing: an empty message is handed over, and the payload is taken for frames.

**A timer started twice** (`timer_restart`). `Timer::start` (`common/Timer.cpp:67`) inserts the
node without asking whether it is in the heap. `heap_insert` clears its pointers and links it
again, below itself if it is the only one, and `Heap.h:29` no longer holds. `UTimer`,
with the same interface over libuv, restarts the timer.

**A client session that cannot be closed** (`kcp_orphan`). An answer the network delivers
twice makes `KcpClient::onMessage` (`network/KcpClient.cpp:47`) create a second session
with the same number and overwrite the entry of the first. `closeSession` looks the
number up, so closing either one erases the only entry, and for the other `closeSession`
does nothing, although `onUdpTimeout` goes on to be called for it at every tick.
`KcpEvent.h:15` recommends to close a session there. `Closable` holds without
`Duplicates`.

### Exceptions the models state

In these places the code does something a user may not expect, but no text of the repository
says otherwise. The models follow the code, and the properties name the case as their exception.

* A connection is closed after its first answer even if the head asked to keep it alive: `isClose`
  (`utils/HttpParser.h:24`, `llhttp.h:347-350`) asks a parser that `zero()` has reset, and a reset one
  counts as not to be kept. `AnsweredIsReleased` claims only the closing that was asked for.
* A `Content-Length` that does not fit an `int` (`HttpConnect.cpp:112`): where it becomes negative the loop never
  ends, where it wraps the handler gets the beginning of the body. `Regular` excludes both.
* A head whose end mark two reads share is not recognised, and its request and the next one become
  one. `Regular` excludes these two; the requests behind them are not affected unless the connection is closed.
* `stop()` and the destructor leave a timer with `m_time` 0 in the heap (`Timer.cpp:71`), and the destructor frees its node there.
  `InHeapIffArmed` and `TimerSet` say so.
* A KCP session that is closed in its own `onMsg` is used after it was freed
  (`KcpSession.cpp:64-67`). The model ends there, and `EveryMessageRead` excludes it.
* A worker may start before its object is constructed (`ThreadPool.cpp:13`); it may then end at once, or
  take a task without an interface, which ends the program. `EveryTaskReported` allows that for such a worker only.
* A batch of empty packets is never called back (`TcpSocket.cpp:275`): `QueueDrains`. A WebSocket frame without payload at the
  end of a read waits for the next byte (`WebSocketConnect.cpp:174`): `NoFrameHeld`.

## 7. Plan

1. `TcpClient` and the shutdown of listening handles, if the code comes to give back what it
   leaks; Redis tasks.
2. HTTP answers that come after their handler has returned, from a task of the pool: the
   composition of `HttpServer` and `Database`.
