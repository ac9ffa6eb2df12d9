-------------------------------- MODULE Timer --------------------------------
(***************************************************************************)
(* The timers of src/common/Timer.cpp and the pointer heap they are kept   *)
(* in, src/common/Heap.cpp.  Everything runs on one thread.  The           *)
(* application may create, start, stop and destroy timers outside update() *)
(* and inside the callback of a timer, that timer's own included.          *)
(*                                                                         *)
(* The clock is XTime::iclock(): milliseconds of processor time in an      *)
(* unsigned 32 bit number, here modulo ClockMod, so it wraps.              *)
(*                                                                         *)
(* m_time 0 means "not armed" to stop(), but an armed timer may have it: a *)
(* deadline can come out as 0 where the clock wraps, and start(cb, 0) gives *)
(* it while the clock still reads 0.  stop() and the destructor leave the  *)
(* node of such a timer in the heap.  That is part of the model, which     *)
(* ends there: update() would run the stopped timer or read a freed node.  *)
(***************************************************************************)
EXTENDS Naturals, FiniteSets

CONSTANTS
    Timers,         \* the Timer objects
    NULL,           \* a null pointer
    Starts,         \* the [timeout, repeat] arguments start() is called with, per timer
    ClockMod,       \* number of values of the clock, 2^32 in the code
    MaxTurns,       \* the 10 of update()
    Restart         \* does the application start timers that are armed?

ASSUME TimersAssumption == IsFiniteSet(Timers)
ASSUME NullAssumption == NULL \notin Timers
ASSUME ClockAssumption == ClockMod \in Nat \ {0} /\ MaxTurns \in Nat \ {0}
ASSUME StartAssumption ==
    /\ Starts \in [Timers -> SUBSET [timeout : Nat, repeat : Nat]]
    /\ Restart \in BOOLEAN

VARIABLES
    heap,           \* gRootHeap and the m_node of every timer
    now,            \* what iclock() returns
    time,           \* m_time
    repeat,         \* m_repeat
    live,           \* between constructor and destructor
    turn,           \* callbacks update() has made so far, 0 outside update()
    armed,          \* timers started, that have since neither been stopped, nor
                    \* destroyed, nor run for the last time (history)
    behind          \* armed timers that were stopped or destroyed with m_time 0
                    \* (history)

vars == <<heap, now, time, repeat, live, turn, armed, behind>>

-----------------------------------------------------------------------------
(* The heap: pointers left, right and parent of each node, the root min    *)
(* and the number of elements.  The nodes of the tree are numbered as in   *)
(* an array, 2k and 2k + 1 being the children of k; the bits of a number   *)
(* are the path heap_insert and heap_remove take from the root.            *)

EmptyHeap ==
    [min |-> NULL, nelts |-> 0, left |-> [t \in Timers |-> NULL],
     right |-> [t \in Timers |-> NULL], parent |-> [t \in Timers |-> NULL]]

(* The node at the end of path k, NULL if the path leaves the tree. *)
NodeAt(h, k) ==
    LET at[i \in 1..k] ==
          IF i = 1 THEN h.min
          ELSE LET p == at[i \div 2]
               IN  IF p = NULL THEN NULL
                   ELSE IF i % 2 = 1 THEN h.right[p] ELSE h.left[p]
    IN  at[k]

(* Make node the one at the end of path k. *)
Link(h, k, node) ==
    IF k = 1 THEN [h EXCEPT !.min = node]
    ELSE IF k % 2 = 1 THEN [h EXCEPT !.right[NodeAt(h, k \div 2)] = node]
    ELSE [h EXCEPT !.left[NodeAt(h, k \div 2)] = node]

(* Let whoever points down to node old point to node new. *)
Replace(h, old, new) ==
    LET up == h.parent[old]
    IN  IF up = NULL THEN [h EXCEPT !.min = new]
        ELSE IF h.left[up] = old THEN [h EXCEPT !.left[up] = new]
        ELSE [h EXCEPT !.right[up] = new]

(* seeded fault: the children keep their old parent *)
AdoptNone(h, node) == h

(* Let the children of node know their parent. *)
Adopt(h, node) ==
    [h EXCEPT !.parent = [t \in Timers |->
        IF t \in {h.left[node], h.right[node]} THEN node ELSE h.parent[t]]]

(* heap_node_swap: p and its child c change places. *)
Swap(h, p, c) ==
    LET leftChild == h.left[p] = c
        top == Replace(h, p, c)
        moved == [top EXCEPT
                    !.left[c] = IF leftChild THEN p ELSE h.left[p],
                    !.right[c] = IF leftChild THEN h.right[p] ELSE p,
                    !.parent[c] = h.parent[p],
                    !.left[p] = h.left[c],
                    !.right[p] = h.right[c]]
    IN  Adopt(Adopt(moved, c), p)

Less(tm, a, b) == tm[a] < tm[b]

(* The loops that walk up and down, at most once per element. *)
SiftUp(h, node, tm) ==
    LET up[i \in 0..h.nelts] ==
          IF i = 0 THEN h
          ELSE LET g == up[i - 1]
                   p == g.parent[node]
               IN  IF p # NULL /\ Less(tm, node, p) THEN Swap(g, p, node) ELSE g
    IN  up[h.nelts]

Smallest(h, node, tm) ==
    LET lower(best, c) == IF c # NULL /\ Less(tm, c, best) THEN c ELSE best
    IN  lower(lower(node, h.left[node]), h.right[node])

SiftDown(h, node, tm) ==
    LET down[i \in 0..h.nelts] ==
          IF i = 0 THEN h
          ELSE LET g == down[i - 1]
                   s == Smallest(g, node, tm)
               IN  IF s # node THEN Swap(g, node, s) ELSE g
    IN  down[h.nelts]

(* heap_insert clears the pointers of the node.  In the model heap_remove  *)
(* does so too, since nothing reads them between the two.                  *)
Clear(h, node) ==
    [h EXCEPT !.left[node] = NULL, !.right[node] = NULL, !.parent[node] = NULL]

HeapInsert(h, node, tm) ==
    LET k == h.nelts + 1
        clean == Clear(h, node)
        linked == [Link(clean, k, node) EXCEPT
                     !.parent[node] = IF k = 1 THEN NULL ELSE NodeAt(clean, k \div 2),
                     !.nelts = k]
    IN  SiftUp(linked, node, tm)

(* The last node takes the place of node and moves down or up from there. *)
PutInPlace(h, last, node) ==
    Replace(Adopt([h EXCEPT !.left[last] = h.left[node],
                            !.right[last] = h.right[node],
                            !.parent[last] = h.parent[node]], last), node, last)

(* seeded fault: no walk up after the walk down *)
SettleDown(h, node, tm) == SiftDown(h, node, tm)

(* The last node may be lower than its new parent, since it can come from  *)
(* another branch.                                                         *)
Settle(h, node, tm) == SiftUp(SiftDown(h, node, tm), node, tm)

HeapRemove(h, node, tm) ==
    LET last == NodeAt(h, h.nelts)
        cut == [Link(h, h.nelts, NULL) EXCEPT !.nelts = h.nelts - 1]
        replaced == PutInPlace(cut, last, node)
    IN  IF h.nelts = 0 THEN h
        ELSE IF last = node THEN Clear(cut, node)
        ELSE Clear(Settle(replaced, last, tm), node)

-----------------------------------------------------------------------------
(* The timers. *)

TimerInit ==
    /\ heap = EmptyHeap
    /\ now = 0
    /\ time = [t \in Timers |-> 0]
    /\ repeat = [t \in Timers |-> 0]
    /\ live = [t \in Timers |-> FALSE]
    /\ turn = 0
    /\ armed = {}
    /\ behind = {}

(* What is stored of a 64 bit number in m_time or m_repeat. *)
Stored(n) == n % ClockMod
Deadline(delay, clock) == Stored(delay + clock)

Create(t) ==
    /\ ~live[t]
    /\ live' = [live EXCEPT ![t] = TRUE]
    /\ time' = [time EXCEPT ![t] = 0]
    /\ repeat' = [repeat EXCEPT ![t] = 0]
    /\ UNCHANGED <<heap, now, turn, armed, behind>>

Start(t) ==
    /\ live[t]
    /\ Restart \/ t \notin armed
    /\ \E s \in Starts[t] :
          /\ time' = [time EXCEPT ![t] = Deadline(s.timeout, now)]
          /\ repeat' = [repeat EXCEPT ![t] = Stored(s.repeat)]
          /\ heap' = HeapInsert(heap, t, time')
    /\ armed' = armed \cup {t}
    /\ UNCHANGED <<now, live, turn, behind>>

(* The histories where t is stopped or destroyed. *)
Forget(t) ==
    /\ armed' = armed \ {t}
    /\ behind' = IF t \in armed /\ time[t] = 0 THEN behind \cup {t} ELSE behind

(* seeded fault: stop() resets m_time and leaves the node in the heap *)
DisarmOnly(t) ==
    /\ time' = [time EXCEPT ![t] = 0]
    /\ Forget(t)
    /\ UNCHANGED heap

(* stop() *)
Disarm(t) ==
    /\ time' = [time EXCEPT ![t] = 0]
    /\ heap' = IF time[t] = 0 THEN heap ELSE HeapRemove(heap, t, time')
    /\ Forget(t)

Stop(t) ==
    /\ live[t]
    /\ Disarm(t)
    /\ UNCHANGED <<now, repeat, live, turn>>

Destroy(t) ==
    /\ live[t]
    /\ Disarm(t)
    /\ live' = [live EXCEPT ![t] = FALSE]
    /\ UNCHANGED <<now, repeat, turn>>

RootIsDue == heap.min # NULL /\ now >= time[heap.min]

(* seeded fault: <= for < *)
OneTurnMore == turn <= MaxTurns

TurnLeft == turn < MaxTurns

(* One turn of the loop in update(), up to the callback; update() is       *)
(* entered by the first.  The clock is read twice.                         *)
Run ==
    /\ TurnLeft
    /\ RootIsDue
    /\ LET t == heap.min
           removed == HeapRemove(heap, t, time)
       IN  \E clock \in {now, (now + 1) % ClockMod} :
             /\ now' = clock
             /\ IF repeat[t] > 0
                THEN /\ time' = [time EXCEPT ![t] = Deadline(repeat[t], clock)]
                     /\ heap' = HeapInsert(removed, t, time')
                     /\ UNCHANGED armed
                ELSE /\ time' = [time EXCEPT ![t] = 0]
                     /\ heap' = removed
                     /\ armed' = armed \ {t}
    /\ turn' = turn + 1
    /\ UNCHANGED <<repeat, live, behind>>

(* The last callback returns and the loop of update() ends. *)
UpdateReturns ==
    /\ turn > 0
    /\ ~TurnLeft \/ ~RootIsDue
    /\ turn' = 0
    /\ UNCHANGED <<heap, now, time, repeat, live, armed, behind>>

(* Processor time passes. *)
Tick ==
    /\ now' = (now + 1) % ClockMod
    /\ UNCHANGED <<heap, time, repeat, live, turn, armed, behind>>

TimerNext ==
    /\ behind = {}
    /\ \/ \E t \in Timers : Create(t) \/ Start(t) \/ Stop(t) \/ Destroy(t)
       \/ Run \/ UpdateReturns \/ Tick

TimerSpec == TimerInit /\ [][TimerNext]_vars

-----------------------------------------------------------------------------
(* Properties *)

(* The nodes of the tree. *)
InHeap == {NodeAt(heap, k) : k \in 1..heap.nelts}

(* Type invariant: pointers point to nodes, times and intervals fit the    *)
(* clock, update() makes no more than MaxTurns callbacks.                  *)
TimerTypeOK ==
    /\ heap \in [min : Timers \cup {NULL}, nelts : 0..Cardinality(Timers),
                 left : [Timers -> Timers \cup {NULL}],
                 right : [Timers -> Timers \cup {NULL}],
                 parent : [Timers -> Timers \cup {NULL}]]
    /\ now \in 0..(ClockMod - 1)
    /\ time \in [Timers -> 0..(ClockMod - 1)]
    /\ repeat \in [Timers -> 0..(ClockMod - 1)]
    /\ live \in [Timers -> BOOLEAN]
    /\ turn \in 0..MaxTurns
    /\ armed \subseteq Timers
    /\ behind \subseteq Timers

(* What Heap.h says of the heap: it is a complete binary tree (every place *)
(* up to nelts holds a node, each a different one, and the tree ends       *)
(* there), and parent and child pointers agree, after any sequence of      *)
(* start, stop, delete and update.                                         *)
CompleteTree ==
    LET n == heap.nelts
    IN  /\ NULL \notin InHeap
        /\ Cardinality(InHeap) = n
        /\ n = 0 => heap.min = NULL
        /\ \A k \in 1..n :
              LET t == NodeAt(heap, k)
              IN  /\ heap.parent[t] =
                        IF k = 1 THEN NULL ELSE NodeAt(heap, k \div 2)
                  /\ 2 * k > n => heap.left[t] = NULL
                  /\ 2 * k + 1 > n => heap.right[t] = NULL

(* A timer is in the heap exactly while it is armed, however stop(), the   *)
(* destructor and update() interleave and whatever they make of the heap   *)
(* on the way, with one exception: stop() and the destructor leave the     *)
(* node of an armed timer whose m_time is 0, and the deleted timer's too.  *)
InHeapIffArmed == InHeap = {t \in armed : live[t]} \cup behind

(* update() runs due timers, the earliest first, leaves none that is due   *)
(* unless its turns are used up, and runs none that was stopped or         *)
(* deleted: every step is one of TimerSet, which knows no heap.  Due and   *)
(* earliest are what the code compares, the readings of a clock that       *)
(* wraps: TimerSet says what that leaves open.                             *)
Promise == INSTANCE TimerSet
ImplementsTimerSet == Promise!SetSpec

=============================================================================
