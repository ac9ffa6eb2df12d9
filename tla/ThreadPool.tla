----------------------------- MODULE ThreadPool -----------------------------
(***************************************************************************)
(* The worker pool of src/src/common/ThreadPool.cpp with the workers the   *)
(* program has, the database threads of src/src/db/DBThreadPool.cpp.       *)
(*                                                                         *)
(* The main thread adds tasks, creates and stops workers and calls         *)
(* update(), which makes one completion callback; each worker takes tasks  *)
(* from _waitTasks, processes them with its own database interface and     *)
(* pushes them on _completeTasks.  Both queues are moodycamel's            *)
(* ConcurrentQueue: first in, first out for the elements of one producer,  *)
(* no order between producers.  The main thread alone adds tasks, so a     *)
(* task is known by the number of its addTask call.                        *)
(***************************************************************************)
EXTENDS Integers, Sequences, FiniteSets

CONSTANTS
  Threads,  \* the CThread objects that create() may make
  MaxTasks  \* bound: calls of addTask

ASSUME MaxTasksAssumption == MaxTasks \in Nat

VARIABLES
  main,           \* where the main thread is: "app" between calls, "construct"
                  \* in createThread, "stop" and "join" in exit
  pool,           \* "alive", "destroying" in ~ThreadPool, "destroyed"
  threads,        \* _threads; exit() is modelled as taking its head away
  object,         \* each CThread: "none", "base" while CThread's constructor
                  \* runs, "derived" while DBThread's does, "built", "deleted"
  at,             \* where its std::thread is in backfunc
  isrun,          \* _isrun
  db,             \* m_db: "garbage", "null", "open", "closed"
  holds,          \* the task backfunc has in its hands, 0 for none
  waitTasks,      \* _waitTasks
  completeTasks,  \* _completeTasks, by producer
  added,          \* how many tasks were added
  taken,          \* the tasks each worker took, in order (history)
  completed,      \* the tasks of each worker complete() was called for (history)
  aborted         \* the process died

poolVars == <<main, pool, threads, object, at, isrun, db, holds, waitTasks,
              completeTasks, added, taken, completed, aborted>>

Task == 1 .. MaxTasks

PoolTypeOK ==
  /\ main \in {"app", "construct", "stop", "join"}
  /\ pool \in {"alive", "destroying", "destroyed"}
  /\ threads \in Seq(Threads)
  /\ object \in [Threads -> {"none", "base", "derived", "built", "deleted"}]
  /\ at \in [Threads ->
       {"none", "asleep", "test", "pop", "work", "process", "push", "end", "ended"}]
  /\ isrun \in [Threads -> BOOLEAN]
  /\ db \in [Threads -> {"garbage", "null", "open", "closed"}]
  /\ holds \in [Threads -> Task \cup {0}]
  /\ waitTasks \in Seq(Task)
  /\ completeTasks \in [Threads -> Seq(Task)]
  /\ added \in 0 .. MaxTasks
  /\ taken \in [Threads -> Seq(Task)]
  /\ completed \in [Threads -> Seq(Task)]
  /\ aborted \in BOOLEAN

PoolInit ==
  /\ main = "app"
  /\ pool = "alive"
  /\ threads = <<>>
  /\ object = [t \in Threads |-> "none"]
  /\ at = [t \in Threads |-> "none"]
  /\ isrun = [t \in Threads |-> FALSE]
  /\ db = [t \in Threads |-> "garbage"]
  /\ holds = [t \in Threads |-> 0]
  /\ waitTasks = <<>>
  /\ completeTasks = [t \in Threads |-> <<>>]
  /\ added = 0
  /\ taken = [t \in Threads |-> <<>>]
  /\ completed = [t \in Threads |-> <<>>]
  /\ aborted = FALSE

mainVars == <<main, pool, threads, object>>
taskVars == <<holds, waitTasks, completeTasks, added, taken, completed>>

-----------------------------------------------------------------------------
(* The main thread *)

(* createThread: CThread's constructor starts the std::thread, and only     *)
(* then initialises the member declared after it, _isrun.  Which object it  *)
(* is does not matter, so that they are taken in one order.                 *)
CreateThread(t) ==
  /\ main = "app" /\ pool = "alive"
  /\ object[t] = "none" /\ t = CHOOSE u \in Threads : object[u] = "none"
  /\ main' = "construct"
  /\ object' = [object EXCEPT ![t] = "base"]
  /\ at' = [at EXCEPT ![t] = "asleep"]
  /\ UNCHANGED <<pool, threads, isrun, db, taskVars, aborted>>

InitIsrun(t) ==
  /\ object[t] = "base"
  /\ object' = [object EXCEPT ![t] = "derived"]
  /\ isrun' = [isrun EXCEPT ![t] = TRUE]
  /\ UNCHANGED <<main, pool, threads, at, db, taskVars, aborted>>

(* the body of DBThread's constructor, and create()'s push_back *)
InitDb(t) ==
  /\ object[t] = "derived"
  /\ object' = [object EXCEPT ![t] = "built"]
  /\ db' = [db EXCEPT ![t] = "null"]
  /\ threads' = Append(threads, t)
  /\ main' = "app"
  /\ UNCHANGED <<pool, at, isrun, taskVars, aborted>>

AddTask ==
  /\ main = "app" /\ pool = "alive"
  /\ added < MaxTasks
  /\ added' = added + 1
  /\ waitTasks' = Append(waitTasks, added + 1)
  /\ UNCHANGED <<mainVars, at, isrun, db, holds, completeTasks, taken,
                 completed, aborted>>

(* update: at most one completion a call, from whichever producer's queue   *)
(* the dequeue comes to                                                     *)
Update(t) ==
  /\ main = "app" /\ pool = "alive"
  /\ completeTasks[t] # <<>>
  /\ completeTasks' = [completeTasks EXCEPT ![t] = Tail(@)]
  /\ completed' = [completed EXCEPT ![t] = Append(@, Head(completeTasks[t]))]
  /\ UNCHANGED <<mainVars, at, isrun, db, holds, waitTasks, added, taken, aborted>>

(* exit on a pool with threads (without, it does nothing) *)
Exit ==
  /\ main = "app" /\ pool = "alive"
  /\ threads # <<>>
  /\ main' = "stop"
  /\ UNCHANGED <<pool, threads, object, at, isrun, db, taskVars, aborted>>

(* ~DBThreadPool, then ~ThreadPool, which calls exit() *)
DestroyPool ==
  /\ main = "app" /\ pool = "alive"
  /\ IF threads = <<>>
       THEN pool' = "destroyed" /\ UNCHANGED main
       ELSE pool' = "destroying" /\ main' = "stop"
  /\ UNCHANGED <<threads, object, at, isrun, db, taskVars, aborted>>

(* seeded fault: stop() joins without telling the worker *)
StopSilently ==
  /\ main = "stop"
  /\ main' = "join"
  /\ UNCHANGED <<pool, threads, object, at, isrun, db, taskVars, aborted>>

(* stop *)
Stop ==
  /\ main = "stop"
  /\ isrun' = [isrun EXCEPT ![Head(threads)] = FALSE]
  /\ main' = "join"
  /\ UNCHANGED <<pool, threads, object, at, db, taskVars, aborted>>

(* seeded fault: the worker is detached and not joined *)
JoinDetached ==
  /\ main = "join"
  /\ object' = [object EXCEPT ![Head(threads)] = "deleted"]
  /\ threads' = Tail(threads)
  /\ main' = IF Tail(threads) = <<>> THEN "app" ELSE "stop"
  /\ UNCHANGED <<pool, at, isrun, db, taskVars, aborted>>

(* join returns, deleteThread.  In ~ThreadPool deleteThread is pure: the    *)
(* derived pool, whose destructor does not call exit(), is gone.            *)
Join ==
  /\ main = "join"
  /\ at[Head(threads)] = "ended"
  /\ IF pool = "destroying"
       THEN aborted' = TRUE /\ UNCHANGED <<object, threads, main>>
       ELSE /\ object' = [object EXCEPT ![Head(threads)] = "deleted"]
            /\ threads' = Tail(threads)
            /\ main' = IF Tail(threads) = <<>> THEN "app" ELSE "stop"
            /\ UNCHANGED aborted
  /\ UNCHANGED <<pool, at, isrun, db, taskVars>>

-----------------------------------------------------------------------------
(* A worker: backfunc.  The 10 ms it sleeps first are no synchronisation:   *)
(* it may go on in any phase of its object's construction.                  *)

(* DBThread::onStart opens the interface (a failed connect is ignored).     *)
(* While CThread's constructor runs it is the empty CThread::onStart, and   *)
(* while DBThread's does, m_db = NULL may fall between the assignment of    *)
(* m_db and its use.                                                        *)
OnStart(t) ==
  /\ at[t] = "asleep"
  /\ \/ /\ at' = [at EXCEPT ![t] = "test"]
        /\ db' = IF object[t] = "base" THEN db ELSE [db EXCEPT ![t] = "open"]
        /\ UNCHANGED aborted
     \/ object[t] = "derived" /\ aborted' = TRUE /\ UNCHANGED <<at, db>>
  /\ UNCHANGED <<mainVars, isrun, taskVars>>

(* Before CThread's constructor has initialised it _isrun has any value. *)
TestIsrun(t) ==
  /\ at[t] = "test"
  /\ \E runs \in IF object[t] = "base" THEN BOOLEAN ELSE {isrun[t]} :
       at' = [at EXCEPT ![t] = IF runs THEN "pop" ELSE "end"]
  /\ UNCHANGED <<mainVars, isrun, db, taskVars, aborted>>

(* tryPop on _waitTasks; idle is where the worker goes when there is        *)
(* nothing, rest what the pop leaves in the queue                           *)
Pop(t, idle, rest) ==
  /\ at[t] = "pop"
  /\ IF waitTasks = <<>>
       THEN at' = [at EXCEPT ![t] = idle] /\ UNCHANGED <<holds, waitTasks, taken>>
       ELSE /\ holds' = [holds EXCEPT ![t] = Head(waitTasks)]
            /\ taken' = [taken EXCEPT ![t] = Append(@, Head(waitTasks))]
            /\ waitTasks' = rest
            /\ at' = [at EXCEPT ![t] = "work"]
  /\ UNCHANGED <<mainVars, isrun, db, completeTasks, added, completed, aborted>>

(* seeded faults: the task is copied and not removed, a worker that finds   *)
(* nothing ends                                                             *)
PopWaitTaskCopy(t) == Pop(t, "test", waitTasks)
PopWaitTaskOrEnd(t) == Pop(t, "end", Tail(waitTasks))

(* popWaitTask; the worker sleeps 1 ms when there is nothing *)
PopWaitTask(t) == Pop(t, "test", Tail(waitTasks))

(* run: the task is given m_db and process() is called, which uses it       *)
(* whatever becomes of m_db meanwhile; without an interface the program     *)
(* dies                                                                     *)
Run(t) ==
  /\ at[t] = "work"
  /\ IF db[t] = "open"
       THEN at' = [at EXCEPT ![t] = "process"] /\ UNCHANGED aborted
       ELSE aborted' = TRUE /\ UNCHANGED at
  /\ UNCHANGED <<mainVars, isrun, db, taskVars>>

(* process() returns *)
Processed(t) ==
  /\ at[t] = "process"
  /\ at' = [at EXCEPT ![t] = "push"]
  /\ UNCHANGED <<mainVars, isrun, db, taskVars, aborted>>

Push(t, queue) ==
  /\ at[t] = "push"
  /\ completeTasks' = [completeTasks EXCEPT ![t] = queue]
  /\ holds' = [holds EXCEPT ![t] = 0]
  /\ at' = [at EXCEPT ![t] = "test"]
  /\ UNCHANGED <<mainVars, isrun, db, waitTasks, added, taken, completed, aborted>>

(* seeded faults: a worker told to stop throws its result away; the task is *)
(* moved to the queue after its pointer was given up                        *)
PushCompleteIfRunning(t) ==
  Push(t, IF isrun[t] THEN Append(completeTasks[t], holds[t]) ELSE completeTasks[t])
PushCompleteMoved(t) == Push(t, Append(completeTasks[t], 0))

PushComplete(t) == Push(t, Append(completeTasks[t], holds[t]))

(* onEnd deletes the interface.  A pointer nobody wrote is deleted too,     *)
(* unless it happens to be NULL; while CThread's constructor runs onEnd is  *)
(* the empty CThread::onEnd.                                                *)
OnEnd(t) ==
  /\ at[t] = "end"
  /\ at' = [at EXCEPT ![t] = "ended"]
  /\ db' = [db EXCEPT ![t] = IF @ = "open" THEN "closed" ELSE @]
  /\ aborted' \in {FALSE, db[t] = "garbage" /\ object[t] # "base"}
  /\ UNCHANGED <<mainVars, isrun, taskVars>>

-----------------------------------------------------------------------------
WorkerStep(t) ==
  \/ OnStart(t) \/ TestIsrun(t) \/ PopWaitTask(t) \/ Run(t) \/ Processed(t)
  \/ PushComplete(t) \/ OnEnd(t)

MainStep ==
  \/ \E t \in Threads : CreateThread(t) \/ InitIsrun(t) \/ InitDb(t) \/ Update(t)
  \/ AddTask \/ Exit \/ DestroyPool \/ Stop \/ Join

PoolNext == ~aborted /\ (MainStep \/ \E t \in Threads : WorkerStep(t))

PoolSpec == PoolInit /\ [][PoolNext]_poolVars

(* Workers are scheduled and their tasks return; a call the main thread is  *)
(* in goes on; and the application keeps calling update(), as every program *)
(* of src/example does from its loop.                                       *)
PoolFairSpec ==
  /\ PoolSpec
  /\ \A t \in Threads :
       /\ WF_poolVars(~aborted /\ WorkerStep(t))
       /\ WF_poolVars(~aborted /\ (InitIsrun(t) \/ InitDb(t)))
       /\ WF_poolVars(~aborted /\ Update(t))
  /\ WF_poolVars(~aborted /\ (Stop \/ Join))

-----------------------------------------------------------------------------
InHand(t) == IF holds[t] = 0 THEN <<>> ELSE <<holds[t]>>

(* A worker's results are reported once each and in the order it took the   *)
(* tasks, and stopping the worker loses none: what it took has been         *)
(* reported, or is on _completeTasks, or is in its hands.                   *)
ResultsInOrder ==
  \A t \in Threads : completed[t] \o completeTasks[t] \o InHand(t) = taken[t]

(* Every task added is still waiting or was taken by exactly one worker.    *)
TaskTakenOnce ==
  \A n \in 1 .. added :
    LET waits == {i \in 1 .. Len(waitTasks) : waitTasks[i] = n}
        takers == {t \in Threads : \E i \in 1 .. Len(taken[t]) : taken[t][i] = n}
    IN  Cardinality(waits) + Cardinality(takers) = 1

(* Workers take tasks in the order of the addTask calls: whatever one took  *)
(* it took after everything added earlier was taken.                        *)
TakenInOrder ==
  \A t \in Threads :
    /\ \A i, j \in 1 .. Len(taken[t]) : i < j => taken[t][i] < taken[t][j]
    /\ \A i \in 1 .. Len(taken[t]), j \in 1 .. Len(waitTasks) : taken[t][i] < waitTasks[j]

(* No CThread is deleted under its std::thread or with an interface in      *)
(* m_db, so no worker outlives the pool it pops from.                       *)
DeletedIsFinished ==
  /\ \A t \in Threads : object[t] = "deleted" => at[t] = "ended" /\ db[t] # "open"
  /\ pool = "destroyed" => \A t \in Threads : at[t] \in {"none", "ended"}

(* exit() returns, if tasks do. *)
ExitReturns == (main \in {"stop", "join"}) ~> (main = "app" \/ aborted)

(* As long as nobody calls exit() or destroys the pool, a task added to a   *)
(* pool is reported, if the pool has a worker that slept until its object   *)
(* was built.  One that did not may end at once, or have no interface when  *)
(* it takes a task; then the program dies, and never otherwise.             *)
Sound(t) == object[t] = "built" /\ (at[t] = "asleep" \/ db[t] = "open")
DiedOfStart == aborted /\ \E t \in Threads : at[t] # "none" /\ ~Sound(t)
Reported(n) == \E t \in Threads : \E i \in 1 .. Len(completed[t]) : completed[t][i] = n
EveryTaskReported ==
  \A n \in Task :
    [](main \notin {"stop", "join"} /\ pool = "alive") =>
      ((added >= n /\ \E t \in Threads : Sound(t)) ~> (Reported(n) \/ DiedOfStart))
=============================================================================
