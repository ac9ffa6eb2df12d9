--------------------------- MODULE DatabaseProofs ---------------------------
(***************************************************************************)
(* Theorems about ThreadPool and about Database, for any number of workers *)
(* and of tasks.  First the pool on its own: its safety properties hold.   *)
(* Then the database threads: Database is a ThreadPool, so that whatever   *)
(* is proved of the pool holds of them, and it has two properties of its   *)
(* own.                                                                    *)
(***************************************************************************)
EXTENDS Database, FiniteSetTheorems, SequenceTheorems, TLAPS

-----------------------------------------------------------------------------
(* The pool *)

(* The life of a CThread: which calls of the main thread it is subject to   *)
(* and where its std::thread can be meanwhile.                              *)
Listed(t) == \E i \in 1 .. Len(threads) : threads[i] = t

ThreadInv(t) ==
  /\ object[t] = "none" <=> at[t] = "none"
  /\ object[t] \in {"base", "derived"} => main = "construct" /\ pool = "alive"
  /\ object[t] = "built" => Listed(t)
  /\ object[t] = "deleted" => at[t] = "ended"
  /\ at[t] \in {"none", "ended"} => db[t] # "open"
  /\ at[t] \in {"work", "process", "push"} <=> holds[t] # 0

OneInConstruction ==
  \A t, u \in Threads :
    object[t] \in {"base", "derived"} /\ object[u] \in {"base", "derived"} => t = u

MainInv ==
  /\ main \in {"stop", "join"} => threads # <<>>
  /\ pool = "destroyed" => main = "app" /\ threads = <<>>

LifeInv == (\A t \in Threads : ThreadInv(t)) /\ OneInConstruction /\ MainInv

(* _waitTasks holds the last tasks added, one after the other. *)
QueueInv ==
  /\ Len(waitTasks) <= added
  /\ \A i \in 1 .. Len(waitTasks) : waitTasks[i] = added - Len(waitTasks) + i
  /\ \A t \in Threads :
       /\ \A i \in 1 .. Len(taken[t]) : taken[t][i] <= added - Len(waitTasks)
       /\ \A i, j \in 1 .. Len(taken[t]) : i < j => taken[t][i] < taken[t][j]

PoolInv == PoolTypeOK /\ LifeInv /\ ResultsInOrder /\ QueueInv

(* Facts about sequences, in the form the steps below use *)
LEMMA AppendOf ==
  ASSUME NEW S, NEW s \in Seq(S), NEW e \in S
  PROVE  /\ Append(s, e) \in Seq(S) /\ Append(s, e) # <<>>
         /\ Len(s) \in Nat /\ Len(Append(s, e)) = Len(s) + 1
         /\ Append(s, e)[Len(s) + 1] = e
         /\ \A i \in 1 .. Len(s) : Append(s, e)[i] = s[i]
OBVIOUS

LEMMA TailOf ==
  ASSUME NEW S, NEW s \in Seq(S), s # <<>>
  PROVE  /\ Head(s) \in S /\ Head(s) = s[1] /\ Tail(s) \in Seq(S)
         /\ Len(s) \in Nat \ {0} /\ Len(Tail(s)) = Len(s) - 1
         /\ \A i \in 1 .. Len(Tail(s)) : Tail(s)[i] = s[i + 1]
OBVIOUS

LEMMA AppendAsConcat ==
  ASSUME NEW S, NEW s \in Seq(S), NEW e \in S
  PROVE  s \o <<e>> = Append(s, e)
OBVIOUS

LEMMA ConcatEmpty ==
  ASSUME NEW S, NEW s \in Seq(S)
  PROVE  s \o <<>> = s
OBVIOUS

LEMMA FirstTask == PoolTypeOK /\ waitTasks # <<>> => Head(waitTasks) \in Task /\ Head(waitTasks) # 0
<1> SUFFICES ASSUME PoolTypeOK, waitTasks # <<>>
             PROVE  Head(waitTasks) \in Task /\ Head(waitTasks) # 0
  OBVIOUS
<1>1. waitTasks \in Seq(Task)
  BY DEF PoolTypeOK
<1>2. Head(waitTasks) \in Task
  BY <1>1, TailOf
<1> QED
  BY <1>2 DEF Task

LEMMA PoolInitInv == PoolInit => PoolInv
<1> SUFFICES ASSUME PoolInit PROVE PoolInv
  OBVIOUS
<1>1. PoolTypeOK
  <2>1. /\ waitTasks \in Seq(Task) /\ threads \in Seq(Threads)
        /\ completeTasks \in [Threads -> Seq(Task)]
        /\ taken \in [Threads -> Seq(Task)]
        /\ completed \in [Threads -> Seq(Task)]
    BY DEF PoolInit
  <2>2. added \in 0 .. MaxTasks /\ holds \in [Threads -> Task \cup {0}]
    BY MaxTasksAssumption DEF PoolInit
  <2> QED
    BY <2>1, <2>2 DEF PoolInit, PoolTypeOK
<1>2. LifeInv
  BY DEF PoolInit, LifeInv, ThreadInv, OneInConstruction, MainInv
<1>3. ResultsInOrder
  BY DEF PoolInit, ResultsInOrder, InHand
<1>4. QueueInv
  BY DEF PoolInit, QueueInv
<1> QED
  BY <1>1, <1>2, <1>3, <1>4 DEF PoolInv

LEMMA PoolTypeStep == PoolTypeOK /\ LifeInv /\ [PoolNext]_poolVars => PoolTypeOK'
<1> SUFFICES ASSUME PoolTypeOK, LifeInv, [PoolNext]_poolVars PROVE PoolTypeOK'
  OBVIOUS
<1> USE DEF mainVars, taskVars
<1>1. ASSUME NEW t \in Threads, CreateThread(t) \/ InitIsrun(t) \/ InitDb(t) PROVE PoolTypeOK'
  <2>1. ASSUME CreateThread(t) PROVE PoolTypeOK'
    BY <2>1 DEF PoolTypeOK, CreateThread
  <2>2. ASSUME InitIsrun(t) PROVE PoolTypeOK'
    BY <2>2 DEF PoolTypeOK, InitIsrun
  <2>3. ASSUME InitDb(t) PROVE PoolTypeOK'
    BY <2>3 DEF PoolTypeOK, InitDb
  <2> QED
    BY <1>1, <2>1, <2>2, <2>3
<1>2. ASSUME NEW t \in Threads, Update(t) PROVE PoolTypeOK'
  <2>1. Tail(completeTasks[t]) \in Seq(Task) /\ Head(completeTasks[t]) \in Task
    BY <1>2 DEF PoolTypeOK, Update
  <2>2. Append(completed[t], Head(completeTasks[t])) \in Seq(Task)
    BY <2>1 DEF PoolTypeOK
  <2> QED
    BY <1>2, <2>1, <2>2 DEF PoolTypeOK, Update
<1>3. CASE AddTask
  <2>1. added + 1 \in Task /\ added + 1 \in 0 .. MaxTasks
    BY <1>3, MaxTasksAssumption DEF PoolTypeOK, AddTask, Task
  <2>2. Append(waitTasks, added + 1) \in Seq(Task)
    BY <2>1 DEF PoolTypeOK
  <2> QED
    BY <1>3, <2>1, <2>2 DEF PoolTypeOK, AddTask
<1>4. CASE Exit \/ DestroyPool \/ Stop
  BY <1>4 DEF PoolTypeOK, Exit, DestroyPool, Stop
<1>5. CASE Join
  <2>1. threads # <<>> /\ Head(threads) \in Threads /\ Tail(threads) \in Seq(Threads)
    BY <1>5 DEF PoolTypeOK, LifeInv, MainInv, Join
  <2> QED
    BY <1>5, <2>1 DEF PoolTypeOK, Join
<1>6. ASSUME NEW t \in Threads, \/ OnStart(t) \/ TestIsrun(t) \/ Run(t)
                               \/ Processed(t) \/ OnEnd(t) PROVE PoolTypeOK'
  <2>1. ASSUME OnStart(t) PROVE PoolTypeOK'
    BY <2>1 DEF PoolTypeOK, OnStart
  <2>2. ASSUME TestIsrun(t) PROVE PoolTypeOK'
    BY <2>2 DEF PoolTypeOK, TestIsrun
  <2>3. ASSUME Run(t) PROVE PoolTypeOK'
    BY <2>3 DEF PoolTypeOK, Run
  <2>5. ASSUME Processed(t) PROVE PoolTypeOK'
    BY <2>5 DEF PoolTypeOK, Processed
  <2>4. ASSUME OnEnd(t) PROVE PoolTypeOK'
    BY <2>4 DEF PoolTypeOK, OnEnd
  <2> QED
    BY <1>6, <2>1, <2>2, <2>3, <2>4, <2>5
<1>7. ASSUME NEW t \in Threads, PopWaitTask(t) PROVE PoolTypeOK'
  <2>1. CASE waitTasks = <<>>
    BY <1>7, <2>1 DEF PoolTypeOK, PopWaitTask, Pop
  <2>2. CASE waitTasks # <<>>
    <3>1. Tail(waitTasks) \in Seq(Task) /\ Head(waitTasks) \in Task
      BY <2>2 DEF PoolTypeOK
    <3>2. Append(taken[t], Head(waitTasks)) \in Seq(Task)
      BY <3>1 DEF PoolTypeOK
    <3> QED
      BY <1>7, <2>2, <3>1, <3>2, ZenonT(40) DEF PoolTypeOK, PopWaitTask, Pop
  <2> QED
    BY <2>1, <2>2
<1>8. ASSUME NEW t \in Threads, PushComplete(t) PROVE PoolTypeOK'
  <2>1. holds[t] \in Task
    BY <1>8 DEF PoolTypeOK, LifeInv, ThreadInv, PushComplete, Push
  <2>2. Append(completeTasks[t], holds[t]) \in Seq(Task)
    BY <2>1 DEF PoolTypeOK
  <2> QED
    BY <1>8, <2>2 DEF PoolTypeOK, PushComplete, Push
<1>9. CASE UNCHANGED poolVars
  BY <1>9 DEF PoolTypeOK, poolVars
<1> QED
  BY <1>1, <1>2, <1>3, <1>4, <1>5, <1>6, <1>7, <1>8, <1>9 DEF PoolNext, MainStep, WorkerStep

LEMMA LifeStep == PoolTypeOK /\ LifeInv /\ [PoolNext]_poolVars => LifeInv'
<1> SUFFICES ASSUME PoolTypeOK, LifeInv, [PoolNext]_poolVars PROVE LifeInv'
  OBVIOUS
<1> USE DEF mainVars, taskVars
<1>1. \A t \in Threads : ThreadInv(t) /\ (UNCHANGED threads => Listed(t)' = Listed(t))
  BY DEF LifeInv, Listed
(* a worker's step leaves what the main thread does alone *)
<1>2. ASSUME UNCHANGED mainVars, \A u \in Threads : ThreadInv(u)' PROVE LifeInv'
  BY <1>2 DEF LifeInv, OneInConstruction, MainInv
<1>3. ASSUME UNCHANGED <<mainVars, at, db, holds>> PROVE LifeInv'
  BY <1>1, <1>2, <1>3 DEF ThreadInv
<1>4. ASSUME NEW t \in Threads, CreateThread(t) PROVE LifeInv'
  <2>1. ASSUME NEW u \in Threads PROVE ThreadInv(u)'
    <3>1. CASE u = t
      BY <1>4, <1>1, <3>1 DEF PoolTypeOK, ThreadInv, CreateThread
    <3>2. CASE u # t
      BY <1>4, <1>1, <2>1, <3>2 DEF PoolTypeOK, ThreadInv, CreateThread
    <3> QED
      BY <3>1, <3>2
  <2>2. OneInConstruction'
    <3>1. main = "app" /\ object' = [object EXCEPT ![t] = "base"]
      BY <1>4 DEF CreateThread
    <3> QED
      BY <1>1, <3>1 DEF PoolTypeOK, ThreadInv, OneInConstruction
  <2>3. MainInv'
    BY <1>4 DEF LifeInv, MainInv, CreateThread
  <2> QED
    BY <2>1, <2>2, <2>3 DEF LifeInv
<1>5. ASSUME NEW t \in Threads, InitIsrun(t) PROVE LifeInv'
  <2>1. ASSUME NEW u \in Threads PROVE ThreadInv(u)'
    <3>1. CASE u = t
      BY <1>5, <1>1, <3>1 DEF PoolTypeOK, ThreadInv, InitIsrun
    <3>2. CASE u # t
      BY <1>5, <1>1, <2>1, <3>2 DEF PoolTypeOK, ThreadInv, InitIsrun
    <3> QED
      BY <3>1, <3>2
  <2>2. OneInConstruction'
    BY <1>5 DEF PoolTypeOK, LifeInv, OneInConstruction, InitIsrun
  <2>3. MainInv'
    BY <1>5 DEF LifeInv, MainInv, InitIsrun
  <2> QED
    BY <2>1, <2>2, <2>3 DEF LifeInv
<1>6. ASSUME NEW t \in Threads, InitDb(t) PROVE LifeInv'
  <2>1. /\ threads' = Append(threads, t) /\ threads' # <<>>
        /\ Len(threads') = Len(threads) + 1
        /\ threads'[Len(threads) + 1] = t
        /\ \A i \in 1 .. Len(threads) : threads'[i] = threads[i]
        /\ Len(threads) \in Nat
    <3>1. threads \in Seq(Threads) /\ threads' = Append(threads, t)
      BY <1>6 DEF PoolTypeOK, InitDb
    <3> QED
      BY <3>1, AppendOf
  <2>2. ASSUME NEW u \in Threads, u = t \/ Listed(u) PROVE Listed(u)'
    BY <2>1, <2>2 DEF Listed
  <2>3. ASSUME NEW u \in Threads PROVE ThreadInv(u)'
    <3>1. CASE u = t
      BY <1>6, <1>1, <2>2, <3>1 DEF PoolTypeOK, ThreadInv, InitDb
    <3>2. CASE u # t
      <4>1. object[u] \notin {"base", "derived"}
        BY <1>6, <2>3, <3>2 DEF LifeInv, OneInConstruction, InitDb
      <4> QED
        BY <1>6, <1>1, <2>2, <2>3, <3>2, <4>1 DEF PoolTypeOK, ThreadInv, InitDb
    <3> QED
      BY <3>1, <3>2
  <2>4. OneInConstruction'
    BY <1>6 DEF PoolTypeOK, LifeInv, OneInConstruction, InitDb
  <2>5. MainInv'
    <3>1. main' = "app" /\ pool' = pool /\ main = "construct"
      BY <1>6, <1>1 DEF InitDb, ThreadInv
    <3> QED
      BY <3>1 DEF LifeInv, MainInv
  <2> QED
    BY <2>3, <2>4, <2>5 DEF LifeInv
<1>7. CASE Exit \/ DestroyPool
  <2>1. ASSUME NEW u \in Threads PROVE ThreadInv(u)'
    BY <1>7, <1>1, <2>1 DEF ThreadInv, Exit, DestroyPool
  <2>2. OneInConstruction' /\ MainInv'
    BY <1>7 DEF LifeInv, OneInConstruction, MainInv, Exit, DestroyPool
  <2> QED
    BY <2>1, <2>2 DEF LifeInv
<1>8. CASE Stop
  <2>1. ASSUME NEW u \in Threads PROVE ThreadInv(u)'
    BY <1>8, <1>1, <2>1 DEF ThreadInv, Stop
  <2>2. OneInConstruction' /\ MainInv'
    BY <1>8 DEF LifeInv, OneInConstruction, MainInv, Stop
  <2> QED
    BY <2>1, <2>2 DEF LifeInv
<1>9. CASE Join
  <2>1. CASE pool = "destroying"
    BY <1>3, <1>9, <2>1 DEF Join
  <2>2. CASE pool # "destroying"
    <3> DEFINE h == Head(threads)
    <3>1. threads # <<>> /\ h \in Threads /\ h = threads[1] /\ at[h] = "ended"
      BY <1>9 DEF PoolTypeOK, LifeInv, MainInv, Join
    <3>2. /\ threads' = Tail(threads) /\ Len(threads') = Len(threads) - 1
          /\ \A i \in 1 .. Len(threads') : threads'[i] = threads[i + 1]
      <4>1. threads \in Seq(Threads) /\ threads' = Tail(threads)
        BY <1>9, <2>2 DEF PoolTypeOK, Join
      <4> QED
        BY <3>1, <4>1, TailOf
    <3>3. object' = [object EXCEPT ![h] = "deleted"] /\ UNCHANGED <<pool, at, db, holds>>
      BY <1>9, <2>2 DEF Join
    <3> HIDE DEF h
    <3>4. ASSUME NEW u \in Threads, Listed(u), u # h PROVE Listed(u)'
      <4>1. PICK i \in 1 .. Len(threads) : threads[i] = u
        BY <3>4 DEF Listed
      <4>2. i - 1 \in 1 .. Len(threads') /\ (i - 1) + 1 = i
        BY <3>1, <3>2, <3>4, <4>1 DEF PoolTypeOK
      <4> QED
        BY <3>2, <4>1, <4>2 DEF Listed
    <3>5. ASSUME NEW u \in Threads PROVE ThreadInv(u)'
      <4>1. object[u] \notin {"base", "derived"}
        BY <1>9, <1>1 DEF ThreadInv, Join
      <4>2. CASE u = h
        BY <1>1, <3>1, <3>3, <4>2 DEF PoolTypeOK, ThreadInv
      <4>3. CASE u # h
        BY <1>1, <3>3, <3>4, <4>1, <4>3 DEF PoolTypeOK, ThreadInv
      <4> QED
        BY <4>2, <4>3
    <3>6. OneInConstruction'
      BY <3>1, <3>3 DEF PoolTypeOK, LifeInv, OneInConstruction
    <3>7. MainInv'
      BY <1>9, <2>2 DEF LifeInv, MainInv, Join
    <3> QED
      BY <3>5, <3>6, <3>7 DEF LifeInv
  <2> QED
    BY <2>1, <2>2
<1>10. ASSUME NEW t \in Threads, OnStart(t) PROVE LifeInv'
  <2>8. ASSUME NEW u \in Threads PROVE ThreadInv(u)'
    <3>1. CASE u = t
      BY <1>10, <1>1, <2>8, <3>1 DEF PoolTypeOK, ThreadInv, OnStart
    <3>2. CASE u # t
      BY <1>10, <1>1, <2>8, <3>2 DEF PoolTypeOK, ThreadInv, OnStart
    <3> QED
      BY <3>1, <3>2
  <2> QED
    BY <1>10, <1>2, <2>8 DEF OnStart
<1>11. ASSUME NEW t \in Threads, TestIsrun(t) PROVE LifeInv'
  <2>8. ASSUME NEW u \in Threads PROVE ThreadInv(u)'
    <3>1. CASE u = t
      BY <1>11, <1>1, <2>8, <3>1 DEF PoolTypeOK, ThreadInv, TestIsrun
    <3>2. CASE u # t
      BY <1>11, <1>1, <2>8, <3>2 DEF PoolTypeOK, ThreadInv, TestIsrun
    <3> QED
      BY <3>1, <3>2
  <2> QED
    BY <1>11, <1>2, <2>8 DEF TestIsrun
<1>12. ASSUME NEW t \in Threads, PopWaitTask(t) PROVE LifeInv'
  <2>1. waitTasks # <<>> => Head(waitTasks) # 0
    BY FirstTask
  <2>8. ASSUME NEW u \in Threads PROVE ThreadInv(u)'
    <3>1. CASE u = t
      BY <1>12, <1>1, <2>8, <3>1, <2>1, ZenonT(40) DEF PoolTypeOK, ThreadInv, PopWaitTask, Pop
    <3>2. CASE u # t
      BY <1>12, <1>1, <2>8, <3>2 DEF PoolTypeOK, ThreadInv, PopWaitTask, Pop
    <3> QED
      BY <3>1, <3>2
  <2> QED
    BY <1>12, <1>2, <2>8 DEF PopWaitTask, Pop
<1>13. ASSUME NEW t \in Threads, Run(t) PROVE LifeInv'
  <2>8. ASSUME NEW u \in Threads PROVE ThreadInv(u)'
    <3>1. CASE u = t
      BY <1>13, <1>1, <2>8, <3>1 DEF PoolTypeOK, ThreadInv, Run
    <3>2. CASE u # t
      BY <1>13, <1>1, <2>8, <3>2 DEF PoolTypeOK, ThreadInv, Run
    <3> QED
      BY <3>1, <3>2
  <2> QED
    BY <1>13, <1>2, <2>8 DEF Run
<1>14. ASSUME NEW t \in Threads, PushComplete(t) PROVE LifeInv'
  <2>8. ASSUME NEW u \in Threads PROVE ThreadInv(u)'
    <3>1. CASE u = t
      BY <1>14, <1>1, <2>8, <3>1 DEF PoolTypeOK, ThreadInv, PushComplete, Push
    <3>2. CASE u # t
      BY <1>14, <1>1, <2>8, <3>2 DEF PoolTypeOK, ThreadInv, PushComplete, Push
    <3> QED
      BY <3>1, <3>2
  <2> QED
    BY <1>14, <1>2, <2>8 DEF PushComplete, Push
<1>15. ASSUME NEW t \in Threads, OnEnd(t) PROVE LifeInv'
  <2>8. ASSUME NEW u \in Threads PROVE ThreadInv(u)'
    <3>1. CASE u = t
      BY <1>15, <1>1, <2>8, <3>1 DEF PoolTypeOK, ThreadInv, OnEnd
    <3>2. CASE u # t
      BY <1>15, <1>1, <2>8, <3>2 DEF PoolTypeOK, ThreadInv, OnEnd
    <3> QED
      BY <3>1, <3>2
  <2> QED
    BY <1>15, <1>2, <2>8 DEF OnEnd
<1>16. ASSUME NEW t \in Threads, Processed(t) PROVE LifeInv'
  <2>8. ASSUME NEW u \in Threads PROVE ThreadInv(u)'
    <3>1. CASE u = t
      BY <1>16, <1>1, <2>8, <3>1 DEF PoolTypeOK, ThreadInv, Processed
    <3>2. CASE u # t
      BY <1>16, <1>1, <2>8, <3>2 DEF PoolTypeOK, ThreadInv, Processed
    <3> QED
      BY <3>1, <3>2
  <2> QED
    BY <1>16, <1>2, <2>8 DEF Processed
<1>17. ASSUME NEW t \in Threads, Update(t) PROVE LifeInv'
  BY <1>3, <1>17 DEF Update
<1>18. CASE AddTask \/ UNCHANGED poolVars
  BY <1>3, <1>18 DEF AddTask, poolVars
<1> QED
  BY <1>4, <1>5, <1>6, <1>7, <1>8, <1>9, <1>10, <1>11, <1>12, <1>13,
     <1>14, <1>15, <1>16, <1>17, <1>18 DEF PoolNext, MainStep, WorkerStep

LEMMA ResultsStep ==
  PoolTypeOK /\ LifeInv /\ ResultsInOrder /\ [PoolNext]_poolVars => ResultsInOrder'
<1> SUFFICES ASSUME PoolTypeOK, LifeInv, ResultsInOrder, [PoolNext]_poolVars, NEW u \in Threads
             PROVE  (completed[u] \o completeTasks[u] \o InHand(u) = taken[u])'
  BY DEF ResultsInOrder
<1> USE DEF mainVars, taskVars
<1> DEFINE Results(t) == completed[t] \o completeTasks[t] \o InHand(t)
<1>1. Results(u) = taken[u]
  BY DEF ResultsInOrder
<1>2. /\ completed[u] \in Seq(Task) /\ completeTasks[u] \in Seq(Task)
      /\ InHand(u) \in Seq(Task) /\ taken[u] \in Seq(Task)
  BY DEF PoolTypeOK, InHand
<1>3. ASSUME UNCHANGED <<completed[u], completeTasks[u], holds[u], taken[u]>>
      PROVE  (Results(u) = taken[u])'
  BY <1>1, <1>3 DEF InHand
<1>4. ASSUME NEW t \in Threads, Update(t) PROVE (Results(u) = taken[u])'
  <2>1. CASE u = t
    <3> DEFINE q == completeTasks[u]
               d == completed[u]
    <3>1. /\ q \in Seq(Task) /\ q # <<>> /\ d \in Seq(Task)
          /\ completed'[u] = Append(d, Head(q)) /\ completeTasks'[u] = Tail(q)
          /\ holds' = holds /\ taken' = taken
      BY <1>2, <1>4, <2>1 DEF PoolTypeOK, Update
    <3>2. Append(d, Head(q)) \o Tail(q) = d \o q
      <4> HIDE DEF d, q
      <4>1. /\ Append(d, Head(q)) \in Seq(Task) /\ Tail(q) \in Seq(Task)
            /\ Len(q) \in Nat \ {0} /\ Len(d) \in Nat
            /\ Len(Tail(q)) = Len(q) - 1 /\ Len(Append(d, Head(q))) = Len(d) + 1
            /\ \A i \in 1 .. Len(q) - 1 : Tail(q)[i] = q[i + 1]
            /\ Head(q) = q[1]
        BY <3>1
      <4> DEFINE a == Append(d, Head(q)) \o Tail(q)
                 b == d \o q
      <4>2. a \in Seq(Task) /\ b \in Seq(Task) /\ Len(a) = Len(d) + Len(q) /\ Len(b) = Len(d) + Len(q)
        BY <3>1, <4>1
      <4>3. ASSUME NEW i \in 1 .. Len(d) + Len(q) PROVE a[i] = b[i]
        <5>1. CASE i <= Len(d)
          BY <3>1, <4>1, <5>1
        <5>2. CASE i = Len(d) + 1
          BY <3>1, <4>1, <5>2
        <5>3. CASE i > Len(d) + 1
          <6>1. i - (Len(d) + 1) \in 1 .. Len(q) - 1 /\ (i - (Len(d) + 1)) + 1 = i - Len(d)
            BY <4>1, <5>3
          <6>2. a[i] = Tail(q)[i - (Len(d) + 1)]
            BY <3>1, <4>1, <5>3
          <6>3. b[i] = q[i - Len(d)]
            BY <3>1, <4>1, <5>3
          <6> QED
            BY <4>1, <6>1, <6>2, <6>3
        <5> QED
          BY <4>1, <5>1, <5>2, <5>3
      <4> HIDE DEF a, b
      <4>4. a = b
        BY <4>2, <4>3, SeqEqual
      <4> QED
        BY <4>4 DEF a, b
    <3> QED
      BY <1>1, <3>1, <3>2 DEF InHand
  <2>2. CASE u # t
    BY <1>3, <1>4, <2>2 DEF PoolTypeOK, Update
  <2> QED
    BY <2>1, <2>2
<1>5. ASSUME NEW t \in Threads, PopWaitTask(t) PROVE (Results(u) = taken[u])'
  <2>1. CASE u = t /\ waitTasks # <<>>
    <3> DEFINE n == Head(waitTasks)
    <3>1. n \in Task /\ n # 0
      BY <2>1, FirstTask
    <3>2. InHand(u) = <<>> /\ InHand(u)' = <<n>>
      BY <1>5, <2>1, <3>1, ZenonT(40) DEF PoolTypeOK, LifeInv, ThreadInv, PopWaitTask, Pop, InHand
    <3>3. /\ completed' = completed /\ completeTasks' = completeTasks
          /\ taken'[u] = Append(taken[u], n)
      BY <1>5, <2>1 DEF PoolTypeOK, PopWaitTask, Pop
    <3> HIDE DEF n
    <3> DEFINE r == completed[u] \o completeTasks[u]
    <3>4. r \in Seq(Task)
      BY <1>2
    <3>5. r \o InHand(u) = taken[u] /\ (Results(u))' = r \o <<n>>
      BY <1>1, <3>2, <3>3
    <3> HIDE DEF r, Results
    <3>6. taken[u] = r
      BY <3>2, <3>4, <3>5, ConcatEmpty
    <3>7. r \o <<n>> = Append(r, n)
      BY <3>1, <3>4, AppendAsConcat
    <3> QED
      BY <3>3, <3>5, <3>6, <3>7
  <2>2. CASE u # t \/ waitTasks = <<>>
    BY <1>3, <1>5, <2>2 DEF PoolTypeOK, PopWaitTask, Pop
  <2> QED
    BY <2>1, <2>2
<1>6. ASSUME NEW t \in Threads, PushComplete(t) PROVE (Results(u) = taken[u])'
  <2>1. CASE u = t
    <3> DEFINE n == holds[u]
               d == completed[u]
               q == completeTasks[u]
    <3>1. n \in Task /\ InHand(u) = <<n>> /\ InHand(u)' = <<>>
      BY <1>6, <2>1 DEF PoolTypeOK, LifeInv, ThreadInv, PushComplete, Push, InHand
    <3>2. completed' = completed /\ taken' = taken /\ completeTasks'[u] = Append(q, n)
      BY <1>6, <2>1 DEF PoolTypeOK, PushComplete, Push
    <3>3. d \o Append(q, n) \o <<>> = d \o q \o <<n>>
      <4>1. d \in Seq(Task) /\ q \in Seq(Task)
        BY <1>2
      <4> HIDE DEF n, d, q
      <4>2. Append(q, n) \in Seq(Task) /\ d \o q \in Seq(Task) /\ d \o Append(q, n) \in Seq(Task)
        BY <3>1, <4>1
      <4>3. d \o Append(q, n) = Append(d \o q, n)
        BY <3>1, <4>1, <4>2
      <4> QED
        BY <3>1, <4>1, <4>2, <4>3
    <3> QED
      BY <1>1, <3>1, <3>2, <3>3
  <2>2. CASE u # t
    BY <1>3, <1>6, <2>2 DEF PoolTypeOK, PushComplete, Push
  <2> QED
    BY <2>1, <2>2
<1>7. CASE AddTask \/ Exit \/ DestroyPool \/ Stop \/ Join
  BY <1>3, <1>7 DEF AddTask, Exit, DestroyPool, Stop, Join
<1>8. ASSUME NEW t \in Threads,
             \/ CreateThread(t) \/ InitIsrun(t) \/ InitDb(t)
             \/ OnStart(t) \/ TestIsrun(t) \/ Run(t) \/ Processed(t) \/ OnEnd(t)
      PROVE  (Results(u) = taken[u])'
  BY <1>3, <1>8 DEF CreateThread, InitIsrun, InitDb, OnStart, TestIsrun, Run, Processed, OnEnd
<1>9. CASE UNCHANGED poolVars
  BY <1>3, <1>9 DEF poolVars
<1> QED
  BY <1>4, <1>5, <1>6, <1>7, <1>8, <1>9 DEF PoolNext, MainStep, WorkerStep

LEMMA QueueStep == PoolTypeOK /\ QueueInv /\ [PoolNext]_poolVars => QueueInv'
<1> SUFFICES ASSUME PoolTypeOK, QueueInv, [PoolNext]_poolVars PROVE QueueInv'
  OBVIOUS
<1> USE DEF mainVars, taskVars
<1> DEFINE w == waitTasks
           k == Len(waitTasks)
<1>1. /\ w \in Seq(Task) /\ k \in Nat /\ added \in Nat /\ k <= added
      /\ \A i \in 1 .. k : w[i] = added - k + i
  BY MaxTasksAssumption DEF PoolTypeOK, QueueInv
<1>2. ASSUME UNCHANGED <<waitTasks, added, taken>> PROVE QueueInv'
  BY <1>2 DEF QueueInv
<1>3. CASE AddTask
  <2>1. added + 1 \in Task
    BY <1>3, <1>1, MaxTasksAssumption DEF AddTask, Task
  <2>2. waitTasks' = Append(w, added + 1) /\ added' = added + 1 /\ taken' = taken
    BY <1>3 DEF AddTask
  <2>3. /\ Len(waitTasks') = k + 1 /\ waitTasks'[k + 1] = added + 1
        /\ \A i \in 1 .. k : waitTasks'[i] = w[i]
    BY <1>1, <2>1, <2>2, AppendOf
  <2> HIDE DEF w, k
  <2>4. added' - Len(waitTasks') = added - k
    <3>1. \A a, m \in Nat : (a + 1) - (m + 1) = a - m
      OBVIOUS
    <3> QED
      BY <1>1, <2>2, <2>3, <3>1
  <2>5. Len(waitTasks') <= added'
    BY <1>1, <2>2, <2>3
  <2>6. ASSUME NEW i \in 1 .. Len(waitTasks')
        PROVE  waitTasks'[i] = added' - Len(waitTasks') + i
    <3>1. CASE i \in 1 .. k
      BY <1>1, <2>3, <2>4, <3>1
    <3>2. CASE i = k + 1
      BY <1>1, <2>3, <2>4, <3>2
    <3> QED
      BY <1>1, <2>3, <3>1, <3>2
  <2> QED
    BY <2>2, <2>4, <2>5, <2>6 DEF QueueInv, k
<1>4. ASSUME NEW t \in Threads, PopWaitTask(t) PROVE QueueInv'
  <2>1. CASE waitTasks = <<>>
    BY <1>2, <1>4, <2>1 DEF PopWaitTask, Pop
  <2>2. CASE waitTasks # <<>>
    <3> DEFINE n == Head(waitTasks)
               s == taken[t]
    <3>1. /\ waitTasks' = Tail(w) /\ added' = added
          /\ taken' = [taken EXCEPT ![t] = Append(s, n)]
      BY <1>4, <2>2 DEF PopWaitTask, Pop
    <3>2. /\ n \in Task /\ n = w[1] /\ k # 0
          /\ Len(waitTasks') = k - 1
          /\ \A i \in 1 .. Len(waitTasks') : waitTasks'[i] = w[i + 1]
      BY <1>1, <2>2, <3>1, TailOf
    <3>3. n = added - k + 1
      <4> HIDE DEF w, k, n
      <4> QED
        BY <1>1, <3>2
    <3>4. s \in Seq(Task) /\ taken \in [Threads -> Seq(Task)]
      BY DEF PoolTypeOK
    <3>5. /\ Len(s) \in Nat /\ Len(Append(s, n)) = Len(s) + 1
          /\ Append(s, n)[Len(s) + 1] = n
          /\ \A i \in 1 .. Len(s) : Append(s, n)[i] = s[i] /\ s[i] \in Task
      BY <3>2, <3>4, AppendOf
    <3>6. /\ \A u \in Threads : u # t => taken'[u] = taken[u]
          /\ taken'[t] = Append(s, n)
      BY <3>1, <3>4
    <3>7. \A i \in 1 .. Len(s) : s[i] <= added - k
      BY DEF QueueInv
    <3>8. \A i, j \in 1 .. Len(s) : i < j => s[i] < s[j]
      BY DEF QueueInv
    <3>9. \A u \in Threads :
            /\ \A i \in 1 .. Len(taken[u]) : taken[u][i] <= added - k /\ taken[u][i] \in Task
            /\ \A i, j \in 1 .. Len(taken[u]) : i < j => taken[u][i] < taken[u][j]
      BY SMTT(30) DEF QueueInv, PoolTypeOK
    <3> HIDE DEF w, k, n, s
    <3>10. added' - Len(waitTasks') = added - k + 1 /\ Len(waitTasks') <= added'
      <4>1. \A a, m \in Nat : m <= a => a - (m - 1) = a - m + 1 /\ m - 1 <= a
        OBVIOUS
      <4> QED
        BY <1>1, <3>1, <3>2, <4>1
    <3>11. ASSUME NEW i \in 1 .. Len(waitTasks')
           PROVE  waitTasks'[i] = added' - Len(waitTasks') + i
      <4>1. i + 1 \in 1 .. k /\ i \in Nat
        BY <1>1, <3>2, <3>11
      <4>2. waitTasks'[i] = added - k + (i + 1)
        BY <1>1, <3>2, <3>11, <4>1
      <4>3. \A a, m \in Nat : a - m + (i + 1) = (a - m + 1) + i
        BY <4>1
      <4> QED
        BY <1>1, <3>10, <4>2, <4>3
    <3>12. ASSUME NEW u \in Threads
           PROVE  /\ \A i \in 1 .. Len(taken'[u]) : taken'[u][i] <= added - k + 1
                  /\ \A i, j \in 1 .. Len(taken'[u]) : i < j => taken'[u][i] < taken'[u][j]
      <4>1. CASE u = t
        <5>1. \A i \in 1 .. Len(s) : s[i] < n /\ s[i] \in Nat
          BY <1>1, <3>3, <3>5, <3>7 DEF Task
        <5>2. \A i \in 1 .. Len(taken'[t]) : i \in 1 .. Len(s) \/ i = Len(s) + 1
          BY <3>5, <3>6
        <5>3. \A i \in 1 .. Len(taken'[t]) : taken'[t][i] <= n
          <6>1. n \in Nat /\ n <= n
            BY <1>1, <3>3
          <6> QED
            BY <3>5, <3>6, <5>1, <5>2, <6>1
        <5>4. ASSUME NEW i \in 1 .. Len(taken'[t]), NEW j \in 1 .. Len(taken'[t]), i < j
              PROVE  taken'[t][i] < taken'[t][j]
          <6>1. i \in 1 .. Len(s)
            BY <3>5, <3>6, <5>4
          <6>2. CASE j \in 1 .. Len(s)
            BY <3>5, <3>6, <3>8, <5>4, <6>1, <6>2
          <6>3. CASE j = Len(s) + 1
            BY <3>5, <3>6, <5>1, <6>1, <6>3
          <6> QED
            BY <5>2, <6>2, <6>3
        <5> QED
          BY <3>3, <4>1, <5>3, <5>4
      <4>2. CASE u # t
        <5>1. taken'[u] = taken[u]
          BY <3>6, <4>2
        <5>2. \A i \in 1 .. Len(taken[u]) : taken[u][i] <= added - k + 1
          BY <1>1, <3>9 DEF Task
        <5> QED
          BY <3>9, <5>1, <5>2
      <4> QED
        BY <4>1, <4>2
    <3> QED
      BY <3>10, <3>11, <3>12 DEF QueueInv
  <2> QED
    BY <2>1, <2>2
<1>5. ASSUME NEW t \in Threads,
             \/ CreateThread(t) \/ InitIsrun(t) \/ InitDb(t) \/ Update(t) \/ PushComplete(t)
             \/ OnStart(t) \/ TestIsrun(t) \/ Run(t) \/ Processed(t) \/ OnEnd(t)
      PROVE  QueueInv'
  BY <1>2, <1>5 DEF CreateThread, InitIsrun, InitDb, Update, PushComplete, Push, OnStart,
                    TestIsrun, Run, Processed, OnEnd
<1>6. CASE Exit \/ DestroyPool \/ Stop \/ Join \/ UNCHANGED poolVars
  BY <1>2, <1>6 DEF Exit, DestroyPool, Stop, Join, poolVars
<1> QED
  BY <1>3, <1>4, <1>5, <1>6 DEF PoolNext, MainStep, WorkerStep

LEMMA PoolInvariance == PoolSpec => []PoolInv
<1>1. PoolInit => PoolInv
  BY PoolInitInv
<1>2. PoolInv /\ [PoolNext]_poolVars => PoolInv'
  BY PoolTypeStep, LifeStep, ResultsStep, QueueStep DEF PoolInv
<1> QED
  BY <1>1, <1>2, PTL DEF PoolSpec

(* Every variable of the pool keeps its type. *)
THEOREM PoolTypeCorrect == PoolSpec => []PoolTypeOK
BY PoolInvariance, PTL DEF PoolInv

(* What a worker took is reported once, in order, and never lost. *)
THEOREM ResultsInOrderAlways == PoolSpec => []ResultsInOrder
BY PoolInvariance, PTL DEF PoolInv

(* Workers take the tasks in the order of the addTask calls. *)
THEOREM TakenInOrderAlways == PoolSpec => []TakenInOrder
<1>1. PoolInv => TakenInOrder
  <2> SUFFICES ASSUME PoolTypeOK, QueueInv, NEW t \in Threads
               PROVE  /\ \A i, j \in 1 .. Len(taken[t]) : i < j => taken[t][i] < taken[t][j]
                      /\ \A i \in 1 .. Len(taken[t]), j \in 1 .. Len(waitTasks) :
                           taken[t][i] < waitTasks[j]
    BY DEF PoolInv, TakenInOrder
  <2>1. \A i, j \in 1 .. Len(taken[t]) : i < j => taken[t][i] < taken[t][j]
    BY DEF QueueInv
  <2>2. ASSUME NEW i \in 1 .. Len(taken[t]), NEW j \in 1 .. Len(waitTasks)
        PROVE  taken[t][i] < waitTasks[j]
    <3> DEFINE k == Len(waitTasks)
               x == taken[t][i]
               y == waitTasks[j]
    <3>1. k \in Nat /\ added \in Nat /\ j \in 1 .. k
      BY MaxTasksAssumption DEF PoolTypeOK
    <3>2. x \in Task /\ x <= added - k /\ y = added - k + j
      BY DEF PoolTypeOK, QueueInv
    <3>3. x \in Nat
      BY <3>2 DEF Task
    <3> HIDE DEF k, x, y
    <3>4. x < y
      BY <3>1, <3>2, <3>3
    <3> QED
      BY <3>4 DEF x, y
  <2> QED
    BY <2>1, <2>2
<1> QED
  BY <1>1, PoolInvariance, PTL

(* No CThread is deleted under its thread, no interface is left open, and   *)
(* no worker outlives the pool.                                             *)
THEOREM DeletedIsFinishedAlways == PoolSpec => []DeletedIsFinished
<1>1. PoolInv => DeletedIsFinished
  <2> SUFFICES ASSUME PoolTypeOK, LifeInv PROVE DeletedIsFinished
    BY DEF PoolInv
  <2>1. ASSUME NEW t \in Threads, object[t] = "deleted" PROVE at[t] = "ended" /\ db[t] # "open"
    BY <2>1 DEF LifeInv, ThreadInv
  <2>2. ASSUME NEW t \in Threads, pool = "destroyed" PROVE at[t] \in {"none", "ended"}
    <3>1. ~Listed(t) /\ main = "app"
      BY <2>2 DEF LifeInv, MainInv, Listed
    <3>2. object[t] \in {"none", "deleted"}
      BY <3>1 DEF PoolTypeOK, LifeInv, ThreadInv
    <3> QED
      BY <3>2 DEF LifeInv, ThreadInv
  <2> QED
    BY <2>1, <2>2 DEF DeletedIsFinished
<1> QED
  BY <1>1, PoolInvariance, PTL

(* Each task that left _waitTasks has one taker. *)
Took(t, n) == \E i \in 1 .. Len(taken[t]) : taken[t][i] = n

TakerInv ==
  \A n \in 1 .. added - Len(waitTasks) :
    \E t \in Threads : Took(t, n) /\ \A u \in Threads : Took(u, n) => u = t

LEMMA TakerInit == PoolInit => TakerInv
<1> SUFFICES ASSUME PoolInit PROVE TakerInv
  OBVIOUS
<1>1. added - Len(waitTasks) = 0
  <2>1. added = 0 /\ waitTasks = <<>>
    BY DEF PoolInit
  <2>2. Len(waitTasks) = 0
    BY <2>1
  <2>3. 0 - 0 = 0
    OBVIOUS
  <2> QED
    BY <2>1, <2>2, <2>3
<1>2. 1 .. added - Len(waitTasks) = {}
  BY <1>1
<1> QED
  BY <1>2 DEF TakerInv

LEMMA TakerStep == PoolTypeOK /\ QueueInv /\ TakerInv /\ [PoolNext]_poolVars => TakerInv'
<1> SUFFICES ASSUME PoolTypeOK, QueueInv, TakerInv, [PoolNext]_poolVars PROVE TakerInv'
  OBVIOUS
<1> USE DEF mainVars, taskVars
<1> DEFINE w == waitTasks
           k == Len(waitTasks)
<1>1. /\ w \in Seq(Task) /\ k \in Nat /\ added \in Nat /\ k <= added
      /\ \A i \in 1 .. k : w[i] = added - k + i
  BY MaxTasksAssumption DEF PoolTypeOK, QueueInv
<1>2. ASSUME UNCHANGED taken, added' - Len(waitTasks') = added - Len(waitTasks)
      PROVE  TakerInv'
  BY <1>2 DEF TakerInv, Took
<1>3. CASE AddTask
  <2>1. added + 1 \in Task
    BY <1>3, <1>1, MaxTasksAssumption DEF AddTask, Task
  <2>2. waitTasks' = Append(w, added + 1) /\ added' = added + 1 /\ taken' = taken
    BY <1>3 DEF AddTask
  <2>3. Len(waitTasks') = k + 1
    BY <1>1, <2>1, <2>2, AppendOf
  <2>4. \A a, m \in Nat : (a + 1) - (m + 1) = a - m
    OBVIOUS
  <2>5. added' - Len(waitTasks') = added - k
    BY <1>1, <2>2, <2>3, <2>4
  <2> QED
    BY <1>2, <2>2, <2>5
<1>4. ASSUME NEW t \in Threads, PopWaitTask(t) PROVE TakerInv'
  <2>1. CASE waitTasks = <<>>
    BY <1>2, <1>4, <2>1 DEF PopWaitTask, Pop
  <2>2. CASE waitTasks # <<>>
    <3> DEFINE n == Head(waitTasks)
               s == taken[t]
               d == added - k
    <3>1. /\ waitTasks' = Tail(w) /\ added' = added
          /\ taken' = [taken EXCEPT ![t] = Append(s, n)]
      BY <1>4, <2>2 DEF PopWaitTask, Pop
    <3>2. n \in Task /\ n = w[1] /\ k # 0 /\ Len(waitTasks') = k - 1
      BY <1>1, <2>2, <3>1, TailOf
    <3>3. n = d + 1 /\ d \in Nat
      <4> HIDE DEF w, k, n
      <4> QED
        BY <1>1, <3>2
    <3>4. s \in Seq(Task) /\ taken \in [Threads -> Seq(Task)]
      BY DEF PoolTypeOK
    <3>5. /\ Len(s) \in Nat /\ Len(Append(s, n)) = Len(s) + 1
          /\ Append(s, n)[Len(s) + 1] = n
          /\ \A i \in 1 .. Len(s) : Append(s, n)[i] = s[i]
      BY <3>2, <3>4, AppendOf
    <3>6. /\ \A u \in Threads : u # t => taken'[u] = taken[u]
          /\ taken'[t] = Append(s, n)
      BY <3>1, <3>4
    <3>7. added' - Len(waitTasks') = d + 1
      <4>1. \A a, m \in Nat : m <= a => a - (m - 1) = (a - m) + 1
        OBVIOUS
      <4> QED
        BY <1>1, <3>1, <3>2, <4>1
    <3>8. \A u \in Threads : \A i \in 1 .. Len(taken[u]) : taken[u][i] <= d
      BY DEF QueueInv
    <3>9. \A u \in Threads : \A m : Took(u, m) => m <= d
      BY <3>8 DEF Took
    <3>10. \A m \in 1 .. d :
             \E v \in Threads : Took(v, m) /\ \A u \in Threads : Took(u, m) => u = v
      BY DEF TakerInv
    <3> HIDE DEF w, k, n, s, d
    <3>11. \A u \in Threads : \A m : Took(u, m)' <=> (Took(u, m) \/ (u = t /\ m = n))
      <4> SUFFICES ASSUME NEW u \in Threads, NEW m
                   PROVE  Took(u, m)' <=> (Took(u, m) \/ (u = t /\ m = n))
        OBVIOUS
      <4>1. CASE u # t
        BY <3>6, <4>1 DEF Took
      <4>2. CASE u = t
        <5>1. Took(u, m) => Took(u, m)'
          BY <3>5, <3>6, <4>2 DEF Took, s
        <5>2. m = n => Took(u, m)'
          BY <3>5, <3>6, <4>2 DEF Took
        <5>3. Took(u, m)' => Took(u, m) \/ m = n
          <6> SUFFICES ASSUME NEW i \in 1 .. Len(taken'[t]), taken'[t][i] = m
                       PROVE  Took(t, m) \/ m = n
            BY <4>2 DEF Took
          <6>1. CASE i \in 1 .. Len(s)
            BY <3>5, <3>6, <6>1 DEF Took, s
          <6>2. CASE i = Len(s) + 1
            BY <3>5, <3>6, <6>2
          <6> QED
            BY <3>5, <3>6, <6>1, <6>2
        <5> QED
          BY <4>2, <5>1, <5>2, <5>3
      <4> QED
        BY <4>1, <4>2
    <3>12. ASSUME NEW m \in 1 .. d + 1
           PROVE  \E v \in Threads : Took(v, m)' /\ \A u \in Threads : Took(u, m)' => u = v
      <4>1. CASE m \in 1 .. d
        <5>1. PICK v \in Threads : Took(v, m) /\ \A u \in Threads : Took(u, m) => u = v
          BY <3>10, <4>1
        <5>2. m # n
          BY <3>3, <4>1
        <5> QED
          BY <3>11, <5>1, <5>2
      <4>2. CASE m = d + 1
        <5>1. \A u \in Threads : ~Took(u, m)
          BY <3>3, <3>9, <4>2
        <5> QED
          BY <1>4, <3>3, <3>11, <4>2, <5>1
      <4> QED
        BY <3>3, <4>1, <4>2
    <3> QED
      BY <3>7, <3>12 DEF TakerInv
  <2> QED
    BY <2>1, <2>2
<1>5. ASSUME NEW t \in Threads,
             \/ CreateThread(t) \/ InitIsrun(t) \/ InitDb(t) \/ Update(t) \/ PushComplete(t)
             \/ OnStart(t) \/ TestIsrun(t) \/ Run(t) \/ Processed(t) \/ OnEnd(t)
      PROVE  TakerInv'
  BY <1>2, <1>5 DEF CreateThread, InitIsrun, InitDb, Update, PushComplete, Push, OnStart,
                    TestIsrun, Run, Processed, OnEnd
<1>6. CASE Exit \/ DestroyPool \/ Stop \/ Join \/ UNCHANGED poolVars
  BY <1>2, <1>6 DEF Exit, DestroyPool, Stop, Join, poolVars
<1> QED
  BY <1>3, <1>4, <1>5, <1>6 DEF PoolNext, MainStep, WorkerStep

(* Every task added waits or was taken by exactly one worker. *)
THEOREM TaskTakenOnceAlways == PoolSpec => []TaskTakenOnce
<1>1. PoolInv /\ TakerInv => TaskTakenOnce
  <2> SUFFICES ASSUME PoolTypeOK, QueueInv, TakerInv, NEW n \in 1 .. added
               PROVE  Cardinality({i \in 1 .. Len(waitTasks) : waitTasks[i] = n})
                      + Cardinality({t \in Threads : Took(t, n)}) = 1
    BY DEF PoolInv, TaskTakenOnce, Took
  <2> DEFINE k == Len(waitTasks)
             d == added - k
             waits == {i \in 1 .. k : waitTasks[i] = n}
             takers == {t \in Threads : Took(t, n)}
  <2>1. /\ k \in Nat /\ added \in Nat /\ k <= added
        /\ \A i \in 1 .. k : waitTasks[i] = d + i
    BY MaxTasksAssumption DEF PoolTypeOK, QueueInv
  <2>2. \A t \in Threads : Took(t, n) => n <= d
    BY DEF QueueInv, Took
  <2>3. CASE n <= d
    <3>1. n \in 1 .. d
      BY <2>1, <2>3
    <3>2. PICK t \in Threads : Took(t, n) /\ \A u \in Threads : Took(u, n) => u = t
      BY <3>1 DEF TakerInv
    <3>3. takers = {t}
      BY <3>2
    <3>4. waits = {}
      <4> HIDE DEF k
      <4> QED
        BY <2>1, <2>3
    <3>5. Cardinality(takers) = 1 /\ Cardinality(waits) = 0
      BY <3>3, <3>4, FS_Singleton, FS_EmptySet
    <3> QED
      BY <3>5
  <2>4. CASE n > d
    <3>1. takers = {}
      <4>1. d \in Nat /\ n \in Nat
        BY <2>1
      <4> HIDE DEF d
      <4> QED
        BY <2>2, <2>4, <4>1
    <3>2. waits = {n - d}
      <4> HIDE DEF k
      <4>1. d \in Nat /\ n - d \in 1 .. k /\ d + (n - d) = n
        BY <2>1, <2>4
      <4>2. \A i \in 1 .. k : d + i = n <=> i = n - d
        BY <2>1, <2>4
      <4> QED
        BY <2>1, <4>1, <4>2
    <3>3. Cardinality(takers) = 0 /\ Cardinality(waits) = 1
      BY <3>1, <3>2, FS_Singleton, FS_EmptySet
    <3> QED
      BY <3>3
  <2>5. d \in Int /\ n \in Int
    BY <2>1
  <2> HIDE DEF d
  <2> QED
    BY <2>3, <2>4, <2>5
<1>2. PoolInv /\ TakerInv /\ [PoolNext]_poolVars => TakerInv'
  BY TakerStep DEF PoolInv
<1> QED
  BY <1>1, <1>2, TakerInit, PoolInvariance, PTL DEF PoolSpec

-----------------------------------------------------------------------------
(* The database threads *)

LEMMA DbStepIsPoolStep == [DbNext]_vars => [PoolNext]_poolVars
<1> SUFFICES ASSUME [DbNext]_vars PROVE [PoolNext]_poolVars
  OBVIOUS
<1>1. CASE UNCHANGED vars
  BY <1>1 DEF vars
<1>2. ASSUME ~aborted, NEW c \in Commands, AddCommand(c) PROVE PoolNext
  BY <1>2 DEF AddCommand, PoolNext, MainStep
<1>3. ASSUME ~aborted, NEW t \in Threads, Complete(t) PROVE PoolNext
  BY <1>3 DEF Complete, Report, PoolNext, MainStep
<1>4. ASSUME ~aborted, NEW t \in Threads, Connect(t) PROVE PoolNext
  BY <1>4 DEF Connect, PoolNext, WorkerStep
<1>5. ASSUME ~aborted, NEW t \in Threads, Prepare(t) \/ Execute(t) PROVE [PoolNext]_poolVars
  BY <1>5 DEF Prepare, PrepareIn, Execute, Call, PoolNext, WorkerStep
<1>6. ASSUME NEW t \in Threads, Drop(t) PROVE UNCHANGED poolVars
  BY <1>6 DEF Drop
<1>7. ASSUME ~aborted, NEW t \in Threads,
             \/ TestIsrun(t) \/ PopWaitTask(t) \/ Run(t) \/ PushComplete(t) \/ OnEnd(t)
             \/ CreateThread(t) \/ InitIsrun(t) \/ InitDb(t)
      PROVE  PoolNext
  BY <1>7 DEF PoolNext, MainStep, WorkerStep
<1>8. CASE ~aborted /\ (Exit \/ DestroyPool \/ Stop \/ Join)
  BY <1>8 DEF PoolNext, MainStep
<1> QED
  BY <1>1, <1>2, <1>3, <1>4, <1>5, <1>6, <1>7, <1>8 DEF DbNext, DbMainStep, DbWorkerStep

(* The database threads are workers of the pool: what ThreadPool promises,  *)
(* they promise. *)
THEOREM DatabaseIsPool == DbSpec => PoolSpec
<1>1. DbInit => PoolInit
  BY DEF DbInit
<1> QED
  BY <1>1, DbStepIsPoolStep, PTL DEF DbSpec, PoolSpec

-----------------------------------------------------------------------------
(* Where a task that left _waitTasks is, and that it is in one place *)
Left == added - Len(waitTasks)

PlaceInv ==
  /\ \A t \in Threads : holds[t] # 0 => holds[t] <= Left /\ given[holds[t]] = "none"
  /\ \A t, u \in Threads : holds[t] # 0 /\ holds[t] = holds[u] => t = u
  /\ \A t \in Threads : \A i \in 1 .. Len(completeTasks[t]) :
       LET n == completeTasks[t][i]
       IN  n <= Left /\ given[n] = "none" /\ \A u \in Threads : holds[u] # n
  /\ \A t, u \in Threads :
       \A i \in 1 .. Len(completeTasks[t]), j \in 1 .. Len(completeTasks[u]) :
         completeTasks[t][i] = completeTasks[u][j] => t = u /\ i = j
  /\ \A n \in Task : given[n] # "none" => n <= Left

OutcomeInv ==
  /\ OutcomeIsOwn
  /\ \A n \in Task : fate[n] # "none" => fate[n] = IF kept[n] THEN "error" ELSE "ok"
  /\ \A t \in Threads : at[t] = "push" => fate[holds[t]] # "none"
  /\ \A t \in Threads : \A i \in 1 .. Len(completeTasks[t]) : fate[completeTasks[t][i]] # "none"

(* Two tasks with one command are never both under way. *)
CommandInv ==
  \A n, m \in 1 .. added :
    n # m /\ command[n] = command[m] => given[n] # "none" \/ given[m] # "none"

StatementInv == OwnStatement /\ \A t \in Threads : prepared[t] => at[t] = "process"

(* The bound on connections stops their dropping, so there is always one    *)
(* more for a worker that lost its connection. *)
LinkInv == \A t \in Threads : ~alive[t] => session[t] < MaxSessions

DbInv == DbTypeOK /\ LinkInv /\ PlaceInv /\ OutcomeInv /\ CommandInv /\ StatementInv

LEMMA DbInitInv == DbInit => DbInv
<1> SUFFICES ASSUME DbInit PROVE DbInv
  OBVIOUS
<1>1. PoolInit /\ PoolTypeOK
  BY PoolInitInv DEF DbInit, PoolInv
<1>2. DbTypeOK
  <2>1. command \in Seq(Commands) /\ Len(command) = added
    BY <1>1 DEF DbInit, PoolInit
  <2>2. 0 \in 0 .. MaxSessions
    BY MaxSessionsAssumption
  <2> QED
    BY <1>1, <2>1, <2>2 DEF DbInit, DbTypeOK, NoStmt, Outcome
<1>3. PlaceInv
  BY <1>1 DEF DbInit, PoolInit, PlaceInv
<1>4. OutcomeInv
  BY <1>1 DEF DbInit, PoolInit, OutcomeInv, OutcomeIsOwn
<1>5. CommandInv
  BY <1>1 DEF PoolInit, CommandInv
<1>6. StatementInv
  BY DEF DbInit, StatementInv, OwnStatement
<1>7. LinkInv
  BY MaxSessionsAssumption DEF DbInit, LinkInv
<1> QED
  BY <1>2, <1>3, <1>4, <1>5, <1>6, <1>7 DEF DbInv

LEMMA HeldTask ==
  ASSUME PoolInv, DbTypeOK, PlaceInv, NEW t \in Threads,
         at[t] \in {"work", "process", "push"}
  PROVE  /\ holds[t] \in Task /\ holds[t] \in 1 .. added
         /\ command[holds[t]] \in Commands /\ given[holds[t]] = "none"
<1>1. holds[t] \in Task
  BY DEF PoolInv, PoolTypeOK, LifeInv, ThreadInv
<1>2. holds[t] \in Nat /\ holds[t] >= 1 /\ holds[t] # 0
  BY <1>1 DEF Task
<1>3. holds[t] <= added - Len(waitTasks) /\ given[holds[t]] = "none"
  BY <1>2 DEF PlaceInv, Left
<1>4. added \in Nat /\ Len(waitTasks) \in Nat
  BY DEF PoolInv, PoolTypeOK
<1>5. holds[t] \in 1 .. added
  BY <1>2, <1>3, <1>4
<1>6. command \in Seq(Commands) /\ Len(command) = added
  BY DEF DbTypeOK
<1> QED
  BY <1>1, <1>3, <1>5, <1>6

(* What prepare() and execute() change, whichever ends process() *)
Ended(t) ==
  /\ at' = [at EXCEPT ![t] = "push"]
  /\ prepared' = [prepared EXCEPT ![t] = FALSE]
  /\ \E ok \in BOOLEAN :
       /\ kept' = [kept EXCEPT ![holds[t]] = ~ok]
       /\ fate' = [fate EXCEPT ![holds[t]] = IF ok THEN "ok" ELSE "error"]

WentOn(t) ==
  /\ at' = at
  /\ prepared' = [prepared EXCEPT ![t] = TRUE]
  /\ UNCHANGED <<kept, fate>>

LEMMA CallEffect ==
  ASSUME NEW t \in Threads, NEW ok \in BOOLEAN, NEW last \in BOOLEAN, Call(t, ok, last)
  PROVE  /\ UNCHANGED <<holds, waitTasks, completeTasks, added, command, given>>
         /\ failed' = [failed EXCEPT ![t] = ~ok]
         /\ Ended(t) \/ WentOn(t)
BY DEF Call, Processed, mainVars, taskVars, poolVars, Ended, WentOn

LEMMA ProcessEffect ==
  ASSUME NEW t \in Threads, Prepare(t) \/ Execute(t)
  PROVE  /\ at[t] = "process"
         /\ UNCHANGED <<holds, waitTasks, completeTasks, added, command, given>>
         /\ Ended(t) \/ WentOn(t)
         /\ \E ok \in BOOLEAN : failed' = [failed EXCEPT ![t] = ~ok]
<1>1. CASE Prepare(t)
  <2>1. PICK ok \in BOOLEAN : Call(t, ok, ~ok)
    BY <1>1 DEF Prepare, PrepareIn
  <2> QED
    BY <2>1, <1>1, CallEffect DEF Prepare
<1>2. CASE Execute(t)
  <2>1. PICK ok \in BOOLEAN : Call(t, ok, TRUE)
    BY <1>2 DEF Execute
  <2> QED
    BY <2>1, <1>2, CallEffect DEF Execute
<1> QED
  BY <1>1, <1>2

(* What the pool's other actions leave alone *)
Quiet ==
  /\ UNCHANGED <<holds, waitTasks, completeTasks, added, dbVars>>
  /\ \A u \in Threads : (at[u] = "process" => at'[u] = "process") /\ (at'[u] = "push" => at[u] = "push")

LEMMA QuietSteps ==
  ASSUME DbTypeOK,
         \/ Exit \/ DestroyPool \/ Stop \/ Join
         \/ \E t \in Threads : \/ CreateThread(t) \/ InitIsrun(t) \/ InitDb(t)
                               \/ TestIsrun(t) \/ Run(t) \/ OnEnd(t),
         PoolInv, UNCHANGED dbVars
  PROVE  Quiet
<1> USE DEF mainVars, taskVars
<1>1. CASE Exit \/ DestroyPool \/ Stop \/ Join
  BY <1>1 DEF Exit, DestroyPool, Stop, Join, Quiet
<1>2. ASSUME NEW t \in Threads, CreateThread(t) PROVE Quiet
  <2>1. at[t] = "none"
    BY <1>2 DEF CreateThread, PoolInv, LifeInv, ThreadInv
  <2> QED
    BY <1>2, <2>1 DEF CreateThread, Quiet, PoolInv, PoolTypeOK
<1>3. ASSUME NEW t \in Threads, InitIsrun(t) \/ InitDb(t) PROVE Quiet
  BY <1>3 DEF InitIsrun, InitDb, Quiet
<1>4. ASSUME NEW t \in Threads, TestIsrun(t) \/ Run(t) \/ OnEnd(t) PROVE Quiet
  BY <1>4 DEF TestIsrun, Run, OnEnd, Quiet, PoolInv, PoolTypeOK
<1> QED
  BY <1>1, <1>2, <1>3, <1>4

LEMMA ConnectEffect ==
  ASSUME NEW t \in Threads, Connect(t), PoolInv
  PROVE  /\ UNCHANGED <<holds, waitTasks, completeTasks, added>>
         /\ at' \in {at, [at EXCEPT ![t] = "test"]} /\ at[t] = "asleep"
         /\ \E s \in {0, 1} : session' = [session EXCEPT ![t] = s]
         /\ \E ok \in BOOLEAN : alive' = [alive EXCEPT ![t] = ok]
         /\ \E bad \in BOOLEAN : failed' = [failed EXCEPT ![t] = bad]
         /\ UNCHANGED <<command, stmt, prepared, kept, fate, given>>
<1>1. PICK ok \in BOOLEAN :
        /\ session' = [session EXCEPT ![t] = IF ok THEN 1 ELSE 0]
        /\ alive' = [alive EXCEPT ![t] = ok]
        /\ failed' = [failed EXCEPT ![t] = db'[t] = "open" /\ ~ok]
  BY DEF Connect
<1>2. (db'[t] = "open" /\ ~ok) \in BOOLEAN /\ (IF ok THEN 1 ELSE 0) \in {0, 1}
  OBVIOUS
<1> QED
  BY <1>1, <1>2 DEF Connect, OnStart, mainVars, taskVars

LEMMA DbTypeStep ==
  ASSUME PoolInv, DbTypeOK, PlaceInv, LinkInv, [DbNext]_vars
  PROVE  DbTypeOK'
<1>1. PoolTypeOK'
  BY PoolTypeStep, DbStepIsPoolStep DEF PoolInv
<1>2. CASE Quiet \/ UNCHANGED vars
  BY <1>1, <1>2 DEF Quiet, vars, dbVars, poolVars, DbTypeOK
<1>3. ASSUME NEW t \in Threads, PopWaitTask(t) \/ PushComplete(t), UNCHANGED dbVars PROVE DbTypeOK'
  BY <1>1, <1>3 DEF PopWaitTask, Pop, PushComplete, Push, dbVars, DbTypeOK
<1>4. ASSUME NEW c \in Commands, AddCommand(c) PROVE DbTypeOK'
  <2>1. command' \in Seq(Commands) /\ Len(command') = added'
    BY <1>4 DEF AddCommand, AddTask, DbTypeOK
  <2> QED
    BY <1>1, <1>4, <2>1 DEF AddCommand, DbTypeOK
<1>5. ASSUME NEW t \in Threads, Complete(t) PROVE DbTypeOK'
  <2>1. added' = added /\ command' = command
    BY <1>5 DEF Complete, Report, Update
  <2>2. given' \in [Task -> Outcome]
    BY <1>5 DEF Complete, Report, DbTypeOK, Outcome
  <2> QED
    BY <1>1, <1>5, <2>1, <2>2 DEF Complete, Report, DbTypeOK
<1>6. ASSUME NEW t \in Threads, Connect(t) PROVE DbTypeOK'
  <2>1. 0 \in 0 .. MaxSessions /\ 1 \in 0 .. MaxSessions
    BY MaxSessionsAssumption
  <2>2. PICK k \in {0, 1} : session' = [session EXCEPT ![t] = k]
    BY <1>6, ConnectEffect
  <2>3. added' = added /\ UNCHANGED <<command, stmt, prepared, kept, fate, given>>
    BY <1>6, ConnectEffect
  <2>4. session' \in [Threads -> 0 .. MaxSessions]
    BY <2>1, <2>2 DEF DbTypeOK
  <2>5. alive' \in [Threads -> BOOLEAN] /\ failed' \in [Threads -> BOOLEAN]
    <3>1. PICK ok \in BOOLEAN : alive' = [alive EXCEPT ![t] = ok]
      BY <1>6, ConnectEffect
    <3>2. PICK bad \in BOOLEAN : failed' = [failed EXCEPT ![t] = bad]
      BY <1>6, ConnectEffect
    <3> QED
      BY <3>1, <3>2 DEF DbTypeOK
  <2> QED
    BY <1>1, <2>3, <2>4, <2>5 DEF DbTypeOK
<1>7. ASSUME NEW t \in Threads, Drop(t) PROVE DbTypeOK'
  BY <1>1, <1>7 DEF Drop, poolVars, DbTypeOK
<1>8. ASSUME NEW t \in Threads, Prepare(t) \/ Execute(t) PROVE DbTypeOK'
  <2>1. PoolTypeOK' /\ added' = added /\ command' = command /\ given' = given
        /\ prepared' \in [Threads -> BOOLEAN] /\ failed' \in [Threads -> BOOLEAN]
    BY <1>1, <1>8, ProcessEffect DEF DbTypeOK, Ended, WentOn
  <2>2. kept' \in [Task -> BOOLEAN] /\ fate' \in [Task -> Outcome]
    BY <1>8, ProcessEffect DEF DbTypeOK, Ended, WentOn, Outcome
  <2>3. CASE Execute(t)
    BY <2>1, <2>2, <2>3 DEF Execute, DbTypeOK
  <2>4. CASE Prepare(t)
    <3>1. PICK again \in BOOLEAN :
            /\ again => ~alive[t] /\ session[t] > 0
            /\ session' = [session EXCEPT ![t] = IF again THEN @ + 1 ELSE @]
            /\ alive' = [alive EXCEPT ![t] = @ \/ again]
            /\ stmt' = [stmt EXCEPT ![command[holds[t]]] = Current(t)']
      BY <2>4 DEF Prepare, PrepareIn
    <3>2. command[holds[t]] \in Commands /\ session[t] \in 0 .. MaxSessions
      BY <1>8, ProcessEffect, HeldTask DEF DbTypeOK
    <3>3. again => session[t] + 1 \in 0 .. MaxSessions
      BY <3>1, <3>2, MaxSessionsAssumption DEF LinkInv
    <3>4. session' \in [Threads -> 0 .. MaxSessions] /\ alive' \in [Threads -> BOOLEAN]
      BY <3>1, <3>2, <3>3 DEF DbTypeOK
    <3>5. Current(t)' \in [worker : SUBSET Threads, session : 0 .. MaxSessions]
      BY <3>4 DEF Current
    <3>6. stmt' \in [Commands -> [worker : SUBSET Threads, session : 0 .. MaxSessions]]
      BY <3>1, <3>5 DEF DbTypeOK
    <3> QED
      BY <2>1, <2>2, <3>4, <3>6 DEF DbTypeOK
  <2> QED
    BY <1>8, <2>3, <2>4
<1> QED
  BY <1>2, <1>3, <1>4, <1>5, <1>6, <1>7, <1>8, QuietSteps DEF DbNext, DbMainStep, DbWorkerStep

LEMMA LinkStep ==
  ASSUME PoolInv, DbTypeOK, PlaceInv, LinkInv, [DbNext]_vars
  PROVE  LinkInv'
<1>1. CASE UNCHANGED dbVars \/ UNCHANGED vars
  BY <1>1 DEF LinkInv, vars, dbVars
<1>2. ASSUME NEW c \in Commands, AddCommand(c) PROVE LinkInv'
  BY <1>2 DEF AddCommand, LinkInv
<1>3. ASSUME NEW t \in Threads, Complete(t) \/ Execute(t) PROVE LinkInv'
  BY <1>3 DEF Complete, Report, Execute, LinkInv
<1>4. ASSUME NEW t \in Threads, Connect(t) PROVE LinkInv'
  <2>1. PICK ok \in BOOLEAN : /\ session' = [session EXCEPT ![t] = IF ok THEN 1 ELSE 0]
                              /\ alive' = [alive EXCEPT ![t] = ok]
    BY <1>4 DEF Connect
  <2> QED
    BY <2>1, MaxSessionsAssumption DEF LinkInv, DbTypeOK
<1>5. ASSUME NEW t \in Threads, Drop(t) PROVE LinkInv'
  BY <1>5 DEF Drop, LinkInv, DbTypeOK
<1>6. ASSUME NEW t \in Threads, Prepare(t) PROVE LinkInv'
  <2>1. PICK again \in BOOLEAN :
          /\ session' = [session EXCEPT ![t] = IF again THEN @ + 1 ELSE @]
          /\ alive' = [alive EXCEPT ![t] = @ \/ again]
    BY <1>6 DEF Prepare, PrepareIn
  <2> QED
    BY <2>1 DEF LinkInv, DbTypeOK
<1> QED
  BY <1>1, <1>2, <1>3, <1>4, <1>5, <1>6 DEF DbNext, DbMainStep, DbWorkerStep

LEMMA QueuedTask ==
  ASSUME PoolInv, NEW t \in Threads, NEW i \in 1 .. Len(completeTasks[t])
  PROVE  completeTasks[t][i] \in Task /\ completeTasks[t][i] # 0
<1>1. completeTasks[t] \in Seq(Task)
  BY DEF PoolInv, PoolTypeOK
<1>2. completeTasks[t][i] \in Task
  BY <1>1
<1> QED
  BY <1>2 DEF Task

LEMMA QueuedPlace ==
  ASSUME PlaceInv, NEW t \in Threads, NEW i \in 1 .. Len(completeTasks[t])
  PROVE  /\ completeTasks[t][i] <= Left /\ given[completeTasks[t][i]] = "none"
         /\ \A u \in Threads : holds[u] # completeTasks[t][i]
         /\ \A u \in Threads : \A j \in 1 .. Len(completeTasks[u]) :
              completeTasks[t][i] = completeTasks[u][j] => t = u /\ i = j
BY DEF PlaceInv

LEMMA PlaceStep ==
  ASSUME PoolInv, DbTypeOK, PlaceInv, [DbNext]_vars
  PROVE  PlaceInv'
<1> USE DEF mainVars, taskVars
<1>1. ASSUME UNCHANGED <<holds, completeTasks, given>>, Left' = Left PROVE PlaceInv'
  BY <1>1 DEF PlaceInv
<1>2. CASE Quiet \/ UNCHANGED vars
  BY <1>1, <1>2 DEF Quiet, vars, poolVars, dbVars, Left
<1>3. ASSUME NEW c \in Commands, AddCommand(c) PROVE PlaceInv'
  <2>1. added \in Nat /\ waitTasks \in Seq(Task) /\ added + 1 \in Task
    BY <1>3, MaxTasksAssumption DEF PoolInv, PoolTypeOK, AddCommand, AddTask, Task
  <2>2. added' = added + 1 /\ Len(waitTasks') = Len(waitTasks) + 1 /\ Len(waitTasks) \in Nat
    BY <1>3, <2>1, AppendOf DEF AddCommand, AddTask
  <2>3. \A a, m \in Nat : (a + 1) - (m + 1) = a - m
    OBVIOUS
  <2>4. Left' = Left
    BY <2>1, <2>2, <2>3 DEF Left
  <2> QED
    BY <1>1, <1>3, <2>4 DEF AddCommand, AddTask
<1>4. ASSUME NEW t \in Threads, Connect(t) \/ Drop(t) \/ Prepare(t) \/ Execute(t) PROVE PlaceInv'
  BY <1>1, <1>4, ConnectEffect, ProcessEffect DEF Drop, poolVars, Left
<1>5. ASSUME NEW t \in Threads, PopWaitTask(t), UNCHANGED dbVars PROVE PlaceInv'
  <2>1. CASE waitTasks = <<>>
    BY <1>1, <1>5, <2>1 DEF PopWaitTask, Pop, dbVars, Left
  <2>2. CASE waitTasks # <<>>
    <3> DEFINE n == Head(waitTasks)
    <3>1. /\ waitTasks' = Tail(waitTasks) /\ added' = added /\ completeTasks' = completeTasks
          /\ holds' = [holds EXCEPT ![t] = n] /\ given' = given
      BY <1>5, <2>2 DEF PopWaitTask, Pop, dbVars
    <3>2. waitTasks \in Seq(Task) /\ added \in Nat /\ holds \in [Threads -> Task \cup {0}]
      BY DEF PoolInv, PoolTypeOK
    <3>3. /\ n \in Task /\ n = waitTasks[1] /\ Len(waitTasks) \in Nat \ {0}
          /\ Len(waitTasks') = Len(waitTasks) - 1
      BY <2>2, <3>1, <3>2, TailOf
    <3>4. n = added - Len(waitTasks) + 1
      <4>1. 1 \in 1 .. Len(waitTasks)
        BY <3>3
      <4> QED
        BY <3>3, <4>1 DEF PoolInv, QueueInv
    <3>5. Left \in Int /\ n = Left + 1 /\ Left' = Left + 1
      <4>1. \A a, k \in Int : a - (k - 1) = (a - k) + 1
        OBVIOUS
      <4> QED
        BY <3>1, <3>2, <3>3, <3>4, <4>1 DEF Left
    <3>6. \A k \in Task \cup {0} : k <= Left => k <= Left' /\ k # n
      <4> HIDE DEF n
      <4> QED
        BY <3>5 DEF Task
    <3>7. given[n] = "none" /\ n <= Left' /\ n # 0
      <4>1. ~(n <= Left)
        <5> HIDE DEF n
        <5> QED
          BY <3>5
      <4>2. given[n] = "none"
        BY <3>3, <4>1 DEF PlaceInv
      <4> HIDE DEF n
      <4> QED
        BY <3>3, <3>5, <4>2 DEF Task
    <3>8. \A u \in Threads : /\ holds[u] \in Task \cup {0}
                             /\ completeTasks[u] \in Seq(Task)
                             /\ \A i \in 1 .. Len(completeTasks[u]) : completeTasks[u][i] \in Task
      BY DEF PoolInv, PoolTypeOK
    <3>9. holds'[t] = n /\ \A u \in Threads : u # t => holds'[u] = holds[u]
      BY <3>1, <3>2
    <3> HIDE DEF n
    <3>10. \A u \in Threads : holds'[u] # 0 => holds'[u] <= Left' /\ given'[holds'[u]] = "none"
      BY <3>1, <3>6, <3>7, <3>8, <3>9 DEF PlaceInv
    <3>11. \A u, v \in Threads : holds'[u] # 0 /\ holds'[u] = holds'[v] => u = v
      BY <3>6, <3>8, <3>9 DEF PlaceInv
    <3>12. \A u \in Threads : \A i \in 1 .. Len(completeTasks'[u]) :
             /\ completeTasks'[u][i] <= Left' /\ given'[completeTasks'[u][i]] = "none"
             /\ \A v \in Threads : holds'[v] # completeTasks'[u][i]
      BY <3>1, <3>6, <3>8, <3>9 DEF PlaceInv
    <3>13. \A k \in Task : given'[k] # "none" => k <= Left'
      BY <3>1, <3>6 DEF PlaceInv
    <3> QED
      BY <3>1, <3>10, <3>11, <3>12, <3>13 DEF PlaceInv
  <2> QED
    BY <2>1, <2>2
<1>6. ASSUME NEW t \in Threads, PushComplete(t), UNCHANGED dbVars PROVE PlaceInv'
  <2> DEFINE n == holds[t]
             q == completeTasks[t]
  <2>1. /\ holds' = [holds EXCEPT ![t] = 0] /\ completeTasks' = [completeTasks EXCEPT ![t] = Append(q, n)]
        /\ waitTasks' = waitTasks /\ added' = added /\ given' = given
    BY <1>6 DEF PushComplete, Push, dbVars
  <2>2. /\ n \in Task /\ n # 0 /\ q \in Seq(Task)
        /\ holds \in [Threads -> Task \cup {0}] /\ completeTasks \in [Threads -> Seq(Task)]
    BY <1>6 DEF PoolInv, PoolTypeOK, LifeInv, ThreadInv, PushComplete, Push
  <2>3. Left' = Left
    BY <2>1 DEF Left
  <2>4. /\ holds'[t] = 0 /\ completeTasks'[t] = Append(q, n)
        /\ \A u \in Threads : u # t => holds'[u] = holds[u] /\ completeTasks'[u] = completeTasks[u]
    BY <2>1, <2>2
  <2>5. /\ Len(completeTasks'[t]) = Len(q) + 1 /\ Len(q) \in Nat
        /\ completeTasks'[t][Len(q) + 1] = n
        /\ \A i \in 1 .. Len(q) : completeTasks'[t][i] = q[i]
    BY <2>2, <2>4, AppendOf
  <2>6. \A i \in 1 .. Len(q) + 1 : i \in 1 .. Len(q) \/ i = Len(q) + 1
    BY <2>5
  <2>7. n <= Left /\ given[n] = "none" /\ \A u \in Threads : u # t => holds[u] # n
    BY <2>2 DEF PlaceInv
  <2>8. \A u \in Threads : \A i \in 1 .. Len(completeTasks[u]) : completeTasks[u][i] # n
    BY DEF PlaceInv
  <2>9. \A u \in Threads : \A i \in 1 .. Len(completeTasks'[u]) :
          \/ /\ i \in 1 .. Len(completeTasks[u]) /\ completeTasks'[u][i] = completeTasks[u][i]
          \/ u = t /\ i = Len(q) + 1 /\ completeTasks'[u][i] = n
    BY <2>4, <2>5, <2>6
  <2> HIDE DEF n
  <2>10. \A u \in Threads : holds'[u] # 0 => holds'[u] <= Left' /\ given'[holds'[u]] = "none"
    BY <2>1, <2>3, <2>4 DEF PlaceInv
  <2>11. \A u, v \in Threads : holds'[u] # 0 /\ holds'[u] = holds'[v] => u = v
    BY <2>4 DEF PlaceInv
  <2>12. \A u \in Threads : \A i \in 1 .. Len(completeTasks'[u]) :
           /\ completeTasks'[u][i] <= Left' /\ given'[completeTasks'[u][i]] = "none"
           /\ \A v \in Threads : holds'[v] # completeTasks'[u][i]
    <3> SUFFICES ASSUME NEW u \in Threads, NEW i \in 1 .. Len(completeTasks'[u])
                 PROVE  /\ completeTasks'[u][i] <= Left' /\ given'[completeTasks'[u][i]] = "none"
                        /\ \A v \in Threads : holds'[v] # completeTasks'[u][i]
      OBVIOUS
    <3>1. CASE completeTasks'[u][i] = n
      BY <2>1, <2>2, <2>3, <2>4, <2>7, <3>1
    <3>2. CASE i \in 1 .. Len(completeTasks[u]) /\ completeTasks'[u][i] = completeTasks[u][i]
      <4>1. completeTasks[u][i] # 0
        BY <3>2, QueuedTask
      <4> QED
        BY <2>1, <2>3, <2>4, <3>2, <4>1, QueuedPlace
    <3> QED
      BY <2>9, <3>1, <3>2
  <2>13. \A u, v \in Threads :
           \A i \in 1 .. Len(completeTasks'[u]), j \in 1 .. Len(completeTasks'[v]) :
             completeTasks'[u][i] = completeTasks'[v][j] => u = v /\ i = j
    <3> DEFINE Old(u, i) == i \in 1 .. Len(completeTasks[u]) /\ completeTasks'[u][i] = completeTasks[u][i]
               New(u, i) == u = t /\ i = Len(q) + 1 /\ completeTasks'[u][i] = n
    <3> SUFFICES ASSUME NEW u \in Threads, NEW v \in Threads,
                        NEW i \in 1 .. Len(completeTasks'[u]), NEW j \in 1 .. Len(completeTasks'[v]),
                        completeTasks'[u][i] = completeTasks'[v][j]
                 PROVE  u = v /\ i = j
      OBVIOUS
    <3>1. CASE Old(u, i) /\ Old(v, j)
      <4>1. completeTasks[u][i] = completeTasks[v][j]
        BY <3>1
      <4> QED
        BY <3>1, <4>1 DEF PlaceInv
    <3>2. ~(Old(u, i) /\ New(v, j)) /\ ~(New(u, i) /\ Old(v, j))
      BY <2>8
    <3>3. (Old(u, i) \/ New(u, i)) /\ (Old(v, j) \/ New(v, j))
      BY <2>9
    <3> QED
      BY <3>1, <3>2, <3>3
  <2> QED
    BY <2>1, <2>3, <2>10, <2>11, <2>12, <2>13 DEF PlaceInv
<1>7. ASSUME NEW t \in Threads, Complete(t) PROVE PlaceInv'
  <2> DEFINE q == completeTasks[t]
             n == Head(q)
  <2>1. /\ holds' = holds /\ completeTasks' = [completeTasks EXCEPT ![t] = Tail(q)] /\ q # <<>>
        /\ waitTasks' = waitTasks /\ added' = added
        /\ \E o \in {"ok", "error"} : given' = [given EXCEPT ![n] = o]
    BY <1>7 DEF Complete, Report, Update
  <2>2. /\ q \in Seq(Task) /\ completeTasks \in [Threads -> Seq(Task)]
        /\ holds \in [Threads -> Task \cup {0}] /\ given \in [Task -> Outcome]
    BY DEF PoolInv, PoolTypeOK, DbTypeOK
  <2>3. Left' = Left
    BY <2>1 DEF Left
  <2>4. /\ n \in Task /\ n = q[1] /\ Len(q) \in Nat \ {0} /\ Len(Tail(q)) = Len(q) - 1
        /\ \A i \in 1 .. Len(Tail(q)) : Tail(q)[i] = q[i + 1]
    BY <2>1, <2>2, TailOf
  <2>5. 1 \in 1 .. Len(q) /\ \A i \in 1 .. Len(Tail(q)) : i + 1 \in 1 .. Len(q) /\ i + 1 # 1
    <3> HIDE DEF q
    <3> QED
      BY <2>4
  <2>6. n <= Left /\ \A u \in Threads : holds[u] # n
    BY <2>4, <2>5 DEF PlaceInv
  <2>7. \A u \in Threads : \A i \in 1 .. Len(completeTasks'[u]) :
          \E j \in 1 .. Len(completeTasks[u]) :
            /\ completeTasks'[u][i] = completeTasks[u][j] /\ <<u, j>> # <<t, 1>>
            /\ j = IF u = t THEN i + 1 ELSE i
    <3> SUFFICES ASSUME NEW u \in Threads, NEW i \in 1 .. Len(completeTasks'[u])
                 PROVE  \E j \in 1 .. Len(completeTasks[u]) :
                          /\ completeTasks'[u][i] = completeTasks[u][j] /\ <<u, j>> # <<t, 1>>
                          /\ j = IF u = t THEN i + 1 ELSE i
      OBVIOUS
    <3>1. CASE u = t
      <4>1. completeTasks'[u] = Tail(q)
        BY <2>1, <2>2, <3>1
      <4> QED
        BY <2>4, <2>5, <3>1, <4>1
    <3>2. CASE u # t
      BY <2>1, <2>2, <3>2
    <3> QED
      BY <3>1, <3>2
  <2>8. \A u \in Threads : \A i \in 1 .. Len(completeTasks'[u]) :
          completeTasks'[u][i] # n /\ completeTasks'[u][i] \in Task
    <3> SUFFICES ASSUME NEW u \in Threads, NEW i \in 1 .. Len(completeTasks'[u])
                 PROVE  completeTasks'[u][i] # n /\ completeTasks'[u][i] \in Task
      OBVIOUS
    <3>1. PICK j \in 1 .. Len(completeTasks[u]) :
            completeTasks'[u][i] = completeTasks[u][j] /\ <<u, j>> # <<t, 1>>
      BY <2>7
    <3>2. completeTasks[u][j] # completeTasks[t][1]
      BY <2>5, <3>1, QueuedPlace
    <3> QED
      BY <2>4, <3>1, <3>2, QueuedTask
  <2>9. \A k \in Task : k # n => given'[k] = given[k]
    BY <2>1, <2>2
  <2> HIDE DEF n
  <2>10. \A u \in Threads : holds'[u] # 0 => holds'[u] <= Left' /\ given'[holds'[u]] = "none"
    BY <2>1, <2>2, <2>3, <2>6, <2>9 DEF PlaceInv
  <2>11. \A u, v \in Threads : holds'[u] # 0 /\ holds'[u] = holds'[v] => u = v
    BY <2>1 DEF PlaceInv
  <2>12. \A u \in Threads : \A i \in 1 .. Len(completeTasks'[u]) :
           /\ completeTasks'[u][i] <= Left' /\ given'[completeTasks'[u][i]] = "none"
           /\ \A v \in Threads : holds'[v] # completeTasks'[u][i]
    <3> SUFFICES ASSUME NEW u \in Threads, NEW i \in 1 .. Len(completeTasks'[u])
                 PROVE  /\ completeTasks'[u][i] <= Left' /\ given'[completeTasks'[u][i]] = "none"
                        /\ \A v \in Threads : holds'[v] # completeTasks'[u][i]
      OBVIOUS
    <3>1. PICK j \in 1 .. Len(completeTasks[u]) : completeTasks'[u][i] = completeTasks[u][j]
      BY <2>7
    <3>2. given'[completeTasks'[u][i]] = given[completeTasks[u][j]]
      BY <2>8, <2>9, <3>1
    <3> QED
      BY <2>1, <2>3, <3>1, <3>2, QueuedPlace
  <2>13. \A u, v \in Threads :
           \A i \in 1 .. Len(completeTasks'[u]), j \in 1 .. Len(completeTasks'[v]) :
             completeTasks'[u][i] = completeTasks'[v][j] => u = v /\ i = j
    <3> SUFFICES ASSUME NEW u \in Threads, NEW v \in Threads,
                        NEW i \in 1 .. Len(completeTasks'[u]), NEW j \in 1 .. Len(completeTasks'[v]),
                        completeTasks'[u][i] = completeTasks'[v][j]
                 PROVE  u = v /\ i = j
      OBVIOUS
    <3>1. PICK k \in 1 .. Len(completeTasks[u]) :
            completeTasks'[u][i] = completeTasks[u][k] /\ k = IF u = t THEN i + 1 ELSE i
      BY <2>7
    <3>2. PICK m \in 1 .. Len(completeTasks[v]) :
            completeTasks'[v][j] = completeTasks[v][m] /\ m = IF v = t THEN j + 1 ELSE j
      BY <2>7
    <3>3. u = v /\ k = m
      <4>1. completeTasks[u][k] = completeTasks[v][m]
        BY <3>1, <3>2
      <4>2. \A w \in Threads : \A l \in 1 .. Len(completeTasks[w]) :
              completeTasks[u][k] = completeTasks[w][l] => u = w /\ k = l
        BY QueuedPlace
      <4> QED
        BY <4>1, <4>2
    <3>4. i \in Int /\ j \in Int
      OBVIOUS
    <3> QED
      BY <3>1, <3>2, <3>3, <3>4
  <2>14. \A k \in Task : given'[k] # "none" => k <= Left'
    BY <2>3, <2>6, <2>9 DEF PlaceInv
  <2> QED
    BY <2>10, <2>11, <2>12, <2>13, <2>14 DEF PlaceInv
<1> QED
  BY <1>2, <1>3, <1>4, <1>5, <1>6, <1>7, QuietSteps DEF DbNext, DbMainStep, DbWorkerStep

LEMMA OutcomeStep ==
  ASSUME PoolInv, DbTypeOK, PlaceInv, OutcomeInv, [DbNext]_vars
  PROVE  OutcomeInv'
<1> USE DEF mainVars, taskVars
<1>1. ASSUME UNCHANGED <<completeTasks, holds, kept, fate, given>>,
             \A u \in Threads : at'[u] = "push" => at[u] = "push"
      PROVE  OutcomeInv'
  BY <1>1 DEF OutcomeInv, OutcomeIsOwn
<1>2. CASE Quiet \/ UNCHANGED vars
  BY <1>1, <1>2 DEF Quiet, vars, poolVars, dbVars
<1>3. ASSUME NEW c \in Commands, AddCommand(c) PROVE OutcomeInv'
  BY <1>1, <1>3 DEF AddCommand, AddTask
<1>4. ASSUME NEW t \in Threads, Connect(t) \/ Drop(t) PROVE OutcomeInv'
  BY <1>1, <1>4, ConnectEffect DEF Drop, poolVars, PoolInv, PoolTypeOK
<1>5. ASSUME NEW t \in Threads, Prepare(t) \/ Execute(t) PROVE OutcomeInv'
  <2> DEFINE n == holds[t]
  <2>1. /\ at[t] = "process" /\ n \in Task /\ given[n] = "none"
        /\ UNCHANGED <<holds, completeTasks, given>>
    BY <1>5, ProcessEffect, HeldTask
  <2>2. CASE WentOn(t)
    BY <1>1, <2>1, <2>2 DEF WentOn
  <2>3. CASE Ended(t)
    <3> HIDE DEF n
    <3>1. PICK ok \in BOOLEAN : /\ kept' = [kept EXCEPT ![n] = ~ok]
                                /\ fate' = [fate EXCEPT ![n] = IF ok THEN "ok" ELSE "error"]
      BY <2>3 DEF Ended, n
    <3>2. /\ fate'[n] \in {"ok", "error"} /\ fate'[n] = IF kept'[n] THEN "error" ELSE "ok"
          /\ \A k \in Task : k # n => fate'[k] = fate[k] /\ kept'[k] = kept[k]
      BY <2>1, <3>1 DEF DbTypeOK
    <3>3. OutcomeIsOwn'
      BY <2>1, <3>2 DEF OutcomeInv, OutcomeIsOwn
    <3>4. \A k \in Task : fate'[k] # "none" => fate'[k] = IF kept'[k] THEN "error" ELSE "ok"
      BY <3>2 DEF OutcomeInv
    <3>5. \A k \in Task : fate[k] # "none" => fate'[k] # "none"
      BY <3>2
    <3>6. ASSUME NEW u \in Threads, at'[u] = "push" PROVE fate'[holds'[u]] # "none"
      <4>1. CASE u = t
        BY <2>1, <3>2, <4>1 DEF n
      <4>2. CASE u # t
        <5>1. at[u] = "push"
          BY <2>3, <3>6, <4>2 DEF Ended, PoolInv, PoolTypeOK
        <5>2. holds[u] \in Task
          BY <5>1, HeldTask
        <5> QED
          BY <2>1, <3>5, <5>1, <5>2 DEF OutcomeInv
      <4> QED
        BY <4>1, <4>2
    <3>7. ASSUME NEW u \in Threads, NEW i \in 1 .. Len(completeTasks'[u])
          PROVE  fate'[completeTasks'[u][i]] # "none"
      <4>1. i \in 1 .. Len(completeTasks[u]) /\ completeTasks'[u][i] = completeTasks[u][i]
        BY <2>1
      <4> QED
        BY <3>5, <4>1, QueuedTask DEF OutcomeInv
    <3> QED
      BY <3>3, <3>4, <3>6, <3>7 DEF OutcomeInv
  <2> QED
    BY <1>5, <2>2, <2>3, ProcessEffect
<1>6. ASSUME NEW t \in Threads, PopWaitTask(t), UNCHANGED dbVars PROVE OutcomeInv'
  <2>1. /\ completeTasks' = completeTasks /\ UNCHANGED <<kept, fate, given>>
        /\ \A u \in Threads : at'[u] = "push" => at[u] = "push" /\ holds'[u] = holds[u]
    BY <1>6 DEF PopWaitTask, Pop, dbVars, PoolInv, PoolTypeOK
  <2> QED
    BY <2>1 DEF OutcomeInv, OutcomeIsOwn
<1>7. ASSUME NEW t \in Threads, PushComplete(t), UNCHANGED dbVars PROVE OutcomeInv'
  <2> DEFINE n == holds[t]
             q == completeTasks[t]
  <2>1. /\ completeTasks' = [completeTasks EXCEPT ![t] = Append(q, n)]
        /\ UNCHANGED <<kept, fate, given>>
        /\ \A u \in Threads : at'[u] = "push" => at[u] = "push" /\ holds'[u] = holds[u]
        /\ at[t] = "push"
    BY <1>7 DEF PushComplete, Push, dbVars, PoolInv, PoolTypeOK
  <2>2. n \in Task /\ q \in Seq(Task) /\ completeTasks \in [Threads -> Seq(Task)] /\ fate[n] # "none"
    BY <2>1, HeldTask DEF PoolInv, PoolTypeOK, OutcomeInv
  <2>3. ASSUME NEW u \in Threads, NEW i \in 1 .. Len(completeTasks'[u])
        PROVE  fate'[completeTasks'[u][i]] # "none"
    <3>1. CASE u # t
      BY <2>1, <2>2, <3>1 DEF OutcomeInv
    <3>2. CASE u = t
      <4>1. completeTasks'[u] = Append(q, n)
        BY <2>1, <2>2, <3>2
      <4>2. /\ Len(Append(q, n)) = Len(q) + 1 /\ Len(q) \in Nat /\ Append(q, n)[Len(q) + 1] = n
            /\ \A j \in 1 .. Len(q) : Append(q, n)[j] = q[j]
        BY <2>2, AppendOf
      <4>3. i \in 1 .. Len(q) \/ i = Len(q) + 1
        BY <4>1, <4>2
      <4> QED
        BY <2>1, <2>2, <3>2, <4>1, <4>2, <4>3 DEF OutcomeInv
    <3> QED
      BY <3>1, <3>2
  <2> QED
    BY <2>1, <2>3 DEF OutcomeInv, OutcomeIsOwn
<1>8. ASSUME NEW t \in Threads, Complete(t) PROVE OutcomeInv'
  <2> DEFINE q == completeTasks[t]
             n == Head(q)
  <2>1. /\ q # <<>> /\ completeTasks' = [completeTasks EXCEPT ![t] = Tail(q)]
        /\ UNCHANGED <<at, holds, kept, fate>>
        /\ given' = [given EXCEPT ![n] = IF kept[n] THEN "error" ELSE "ok"]
    BY <1>8 DEF Complete, Report, Update
  <2>2. q \in Seq(Task) /\ completeTasks \in [Threads -> Seq(Task)] /\ given \in [Task -> Outcome]
    BY DEF PoolInv, PoolTypeOK, DbTypeOK
  <2>3. /\ n \in Task /\ n = q[1] /\ Len(q) \in Nat \ {0} /\ Len(Tail(q)) = Len(q) - 1
        /\ \A i \in 1 .. Len(Tail(q)) : Tail(q)[i] = q[i + 1]
    BY <2>1, <2>2, TailOf
  <2>4. 1 \in 1 .. Len(q) /\ \A i \in 1 .. Len(Tail(q)) : i + 1 \in 1 .. Len(q)
    <3> HIDE DEF q
    <3> QED
      BY <2>3
  <2>5. fate[n] # "none"
    BY <2>3, <2>4 DEF OutcomeInv
  <2>6. OutcomeIsOwn'
    <3> HIDE DEF n
    <3> QED
      BY <2>1, <2>2, <2>3, <2>5 DEF OutcomeInv, OutcomeIsOwn
  <2>7. ASSUME NEW u \in Threads, NEW i \in 1 .. Len(completeTasks'[u])
        PROVE  fate'[completeTasks'[u][i]] # "none"
    <3>1. CASE u # t
      BY <2>1, <2>2, <3>1 DEF OutcomeInv
    <3>2. CASE u = t
      <4>1. completeTasks'[u] = Tail(q)
        BY <2>1, <2>2, <3>2
      <4> QED
        BY <2>1, <2>3, <2>4, <3>2, <4>1 DEF OutcomeInv
    <3> QED
      BY <3>1, <3>2
  <2> QED
    BY <2>1, <2>6, <2>7 DEF OutcomeInv
<1> QED
  BY <1>2, <1>3, <1>4, <1>5, <1>6, <1>7, <1>8, QuietSteps DEF DbNext, DbMainStep, DbWorkerStep

LEMMA CommandStep ==
  ASSUME PoolInv, DbTypeOK, PlaceInv, CommandInv, [DbNext]_vars
  PROVE  CommandInv'
<1> USE DEF mainVars, taskVars
<1>1. CASE UNCHANGED <<added, command, given>>
  BY <1>1 DEF CommandInv
<1>2. ASSUME NEW c \in Commands, AddCommand(c) PROVE CommandInv'
  <2>1. command \in Seq(Commands) /\ Len(command) = added /\ added \in Nat
    BY DEF DbTypeOK, PoolTypeOK
  <2>2. /\ command' = Append(command, c) /\ added' = added + 1 /\ given' = given
        /\ \A n \in 1 .. added : command[n] = c => given[n] # "none"
    BY <1>2 DEF AddCommand, AddTask
  <2>3. /\ command'[added + 1] = c /\ \A n \in 1 .. added : command'[n] = command[n]
        /\ \A n \in 1 .. added' : n \in 1 .. added \/ n = added + 1
    BY <2>1, <2>2
  <2>4. ASSUME NEW n \in 1 .. added', NEW m \in 1 .. added', n # m, command'[n] = command'[m]
        PROVE  given'[n] # "none" \/ given'[m] # "none"
    <3>1. CASE n \in 1 .. added /\ m \in 1 .. added
      BY <2>2, <2>3, <2>4, <3>1 DEF CommandInv
    <3>2. CASE n = added + 1 /\ m \in 1 .. added
      BY <2>2, <2>3, <2>4, <3>2
    <3>3. CASE m = added + 1 /\ n \in 1 .. added
      BY <2>2, <2>3, <2>4, <3>3
    <3> QED
      BY <2>3, <2>4, <3>1, <3>2, <3>3
  <2> QED
    BY <2>4 DEF CommandInv
<1>3. ASSUME NEW t \in Threads, Complete(t) PROVE CommandInv'
  <2>1. /\ added' = added /\ command' = command
        /\ \E o \in {"ok", "error"} : given' = [given EXCEPT ![Head(completeTasks[t])] = o]
    BY <1>3 DEF Complete, Report, Update
  <2>2. \A n \in Task : given[n] # "none" => given'[n] # "none"
    BY <2>1 DEF DbTypeOK
  <2>3. \A n \in 1 .. added : n \in Task
    BY MaxTasksAssumption DEF DbTypeOK, PoolTypeOK, Task
  <2> QED
    BY <2>1, <2>2, <2>3 DEF CommandInv
<1>4. ASSUME NEW t \in Threads, Connect(t) \/ Drop(t) \/ Prepare(t) \/ Execute(t) PROVE CommandInv'
  BY <1>1, <1>4, ConnectEffect, ProcessEffect DEF Drop, poolVars
<1>5. ASSUME NEW t \in Threads, PopWaitTask(t) \/ PushComplete(t), UNCHANGED dbVars PROVE CommandInv'
  BY <1>1, <1>5 DEF PopWaitTask, Pop, PushComplete, Push, dbVars
<1>6. CASE Quiet \/ UNCHANGED vars
  BY <1>1, <1>6 DEF Quiet, vars, poolVars, dbVars
<1> QED
  BY <1>2, <1>3, <1>4, <1>5, <1>6, QuietSteps DEF DbNext, DbMainStep, DbWorkerStep

LEMMA StatementStep ==
  ASSUME PoolInv, DbTypeOK, PlaceInv, CommandInv, StatementInv, [DbNext]_vars
  PROVE  StatementInv'
<1> USE DEF mainVars, taskVars
<1>1. ASSUME UNCHANGED <<command, stmt, prepared>>,
             \A u \in Threads :
               prepared[u] => at'[u] = "process" /\ holds'[u] = holds[u] /\ session'[u] = session[u]
      PROVE  StatementInv'
  BY <1>1 DEF StatementInv, OwnStatement, Current
<1>2. CASE Quiet \/ UNCHANGED vars
  BY <1>1, <1>2 DEF Quiet, vars, poolVars, dbVars, StatementInv
<1>3. ASSUME NEW c \in Commands, AddCommand(c) PROVE StatementInv'
  <2>1. /\ command' = Append(command, c)
        /\ UNCHANGED <<at, holds, stmt, session, prepared>>
    BY <1>3 DEF AddCommand, AddTask
  <2>2. ASSUME NEW u \in Threads, prepared[u] PROVE command'[holds[u]] = command[holds[u]]
    <3>1. holds[u] \in 1 .. added
      BY <2>2, HeldTask DEF StatementInv
    <3>2. command \in Seq(Commands) /\ Len(command) = added
      BY DEF DbTypeOK
    <3> QED
      BY <2>1, <3>1, <3>2
  <2> QED
    BY <2>1, <2>2 DEF StatementInv, OwnStatement, Current
<1>4. ASSUME NEW t \in Threads, Complete(t) PROVE StatementInv'
  BY <1>1, <1>4 DEF Complete, Report, Update, StatementInv
<1>5. ASSUME NEW t \in Threads, Connect(t) PROVE StatementInv'
  <2>1. PICK k \in {0, 1} : session' = [session EXCEPT ![t] = k]
    BY <1>5, ConnectEffect
  <2>2. /\ at[t] = "asleep" /\ at' \in {at, [at EXCEPT ![t] = "test"]}
        /\ UNCHANGED <<holds, command, stmt, prepared>>
    BY <1>5, ConnectEffect
  <2>3. \A u \in Threads : u # t => at'[u] = at[u] /\ session'[u] = session[u]
    BY <2>1, <2>2 DEF PoolInv, PoolTypeOK, DbTypeOK
  <2> QED
    BY <1>1, <2>2, <2>3 DEF StatementInv
<1>6. ASSUME NEW t \in Threads, Drop(t) PROVE StatementInv'
  BY <1>1, <1>6 DEF Drop, poolVars, StatementInv
<1>7. ASSUME NEW t \in Threads, PopWaitTask(t) \/ PushComplete(t), UNCHANGED dbVars PROVE StatementInv'
  <2>1. at[t] # "process"
    BY <1>7 DEF PopWaitTask, Pop, PushComplete, Push
  <2>2. \A u \in Threads : u # t => at'[u] = at[u] /\ holds'[u] = holds[u]
    BY <1>7 DEF PopWaitTask, Pop, PushComplete, Push, PoolInv, PoolTypeOK
  <2> QED
    BY <1>1, <1>7, <2>1, <2>2 DEF StatementInv, dbVars
<1>8. ASSUME NEW t \in Threads, Execute(t) PROVE StatementInv'
  <2>1. UNCHANGED <<command, stmt, session, holds>> /\ prepared[t] /\ at[t] = "process"
    BY <1>8, ProcessEffect DEF Execute
  <2>2. Ended(t) \/ WentOn(t)
    BY <1>8, ProcessEffect
  <2>3. prepared'[t] => at'[t] = at[t]
    BY <2>2 DEF Ended, WentOn, DbTypeOK
  <2>4. \A u \in Threads : u # t => prepared'[u] = prepared[u] /\ at'[u] = at[u]
    BY <2>2 DEF Ended, WentOn, DbTypeOK, PoolInv, PoolTypeOK
  <2>5. \A u \in Threads : prepared'[u] => prepared[u] /\ at'[u] = at[u]
    BY <2>1, <2>3, <2>4
  <2> QED
    BY <2>1, <2>5 DEF StatementInv, OwnStatement, Current
<1>9. ASSUME NEW t \in Threads, Prepare(t) PROVE StatementInv'
  <2> DEFINE c == command[holds[t]]
  <2>1. /\ \E s : session' = [session EXCEPT ![t] = s]
        /\ stmt' = [stmt EXCEPT ![c] = Current(t)']
    BY <1>9 DEF Prepare, PrepareIn
  <2>2. UNCHANGED <<command, holds, given>> /\ at[t] = "process" /\ (Ended(t) \/ WentOn(t))
    BY <1>9, ProcessEffect
  <2>3. c \in Commands /\ holds[t] \in 1 .. added /\ given[holds[t]] = "none" /\ holds[t] # 0
    BY <2>2, HeldTask DEF Task
  <2>4. /\ prepared'[t] => at'[t] = "process"
        /\ \A u \in Threads : u # t => prepared'[u] = prepared[u] /\ at'[u] = at[u]
    BY <2>2 DEF Ended, WentOn, DbTypeOK, PoolInv, PoolTypeOK
  <2>5. stmt'[c] = Current(t)' /\ \A k \in Commands : k # c => stmt'[k] = stmt[k]
    BY <2>1, <2>3 DEF DbTypeOK
  <2>6. ASSUME NEW u \in Threads, u # t, prepared[u]
        PROVE  stmt'[command'[holds'[u]]] = Current(u)' /\ at[u] = "process"
    <3>1. /\ at[u] = "process" /\ holds[u] \in 1 .. added /\ given[holds[u]] = "none"
          /\ command[holds[u]] \in Commands
      BY <2>6, HeldTask DEF StatementInv
    <3>2. holds[u] # holds[t]
      BY <2>3, <2>6 DEF PlaceInv
    <3>3. command[holds[u]] # c
      BY <2>3, <3>1, <3>2 DEF CommandInv
    <3>4. session'[u] = session[u]
      BY <2>1, <2>6 DEF DbTypeOK
    <3> QED
      BY <2>2, <2>5, <2>6, <3>1, <3>3, <3>4 DEF StatementInv, OwnStatement, Current
  <2> QED
    BY <2>2, <2>4, <2>5, <2>6 DEF StatementInv, OwnStatement
<1> QED
  BY <1>2, <1>3, <1>4, <1>5, <1>6, <1>7, <1>8, <1>9, QuietSteps DEF DbNext, DbMainStep, DbWorkerStep

LEMMA DbInvariance == DbSpec => []DbInv
<1>1. PoolInv /\ DbInv /\ [DbNext]_vars => DbInv'
  BY DbTypeStep, LinkStep, PlaceStep, OutcomeStep, CommandStep, StatementStep DEF DbInv
<1>2. DbSpec => []PoolInv
  BY DatabaseIsPool, PoolInvariance, PTL
<1> QED
  BY <1>1, <1>2, DbInitInv, PTL DEF DbSpec

(* Every variable of the pool and of its connections keeps its type. *)
THEOREM DbTypeCorrect == DbSpec => []DbTypeOK
BY DbInvariance, PTL DEF DbInv

(* A worker executes statements of its own connection only. *)
THEOREM OwnStatementAlways == DbSpec => []OwnStatement
BY DbInvariance, PTL DEF DbInv, StatementInv

(* A callback is told what became of its own command. *)
THEOREM OutcomeIsOwnAlways == DbSpec => []OutcomeIsOwn
BY DbInvariance, PTL DEF DbInv, OutcomeInv

(* The database threads keep what the pool promises, whenever a worker      *)
(* comes out of its first sleep: results come once and in order, every task *)
(* is taken once, first come first served, and no thread outlives its       *)
(* CThread.                                                                 *)
THEOREM DatabaseKeepsPromises ==
  DbSpec => [](ResultsInOrder /\ TakenInOrder /\ TaskTakenOnce /\ DeletedIsFinished)
BY DatabaseIsPool, ResultsInOrderAlways, TakenInOrderAlways, TaskTakenOnceAlways,
   DeletedIsFinishedAlways, PTL
=============================================================================
