------------------------------ MODULE Database ------------------------------
(***************************************************************************)
(* What the workers of ThreadPool do with a task of                        *)
(* src/src/db/DBThreadPool.cpp: DBSqlTask::process prepares the task's     *)
(* SqlPrepare on the worker's own MySQL connection and executes it, and    *)
(* complete() gives the callback the error the task has kept.              *)
(*                                                                         *)
(* An application may use a SqlPrepare again, as a Lua_SqlCommand can be,  *)
(* for a later task that another worker takes; it is assumed to wait for   *)
(* the callback, and to keep the command as long as the pool lives.        *)
(*                                                                         *)
(* External, known by its use: a MySQL server that accepts or refuses      *)
(* connections and statements and may drop a connection at any moment,     *)
(* and its client library, which connects again when a statement is        *)
(* prepared (MYSQL_OPT_RECONNECT) if the first connect() succeeded, and    *)
(* whose statements end with the connection they were prepared on.         *)
(***************************************************************************)
EXTENDS ThreadPool

CONSTANTS
  Commands,    \* the SqlPrepare objects of the application
  MaxSessions  \* bound: connections a worker makes, one after the other

ASSUME MaxSessionsAssumption == MaxSessions \in Nat \ {0}

VARIABLES
  command,   \* the command of each task
  stmt,      \* m_stmt of each command: the worker and the connection it is of
  session,   \* the number of the connection m_db has, 0 if connect() failed
  alive,     \* that connection is there
  prepared,  \* the worker is past prepare() in its task
  failed,    \* mysql_errno of the connection is not 0
  kept,      \* _errno of each task is not 0
  fate,      \* what became of each task in process() (history)
  given      \* what complete() told the callback of each task (history)

dbVars == <<command, stmt, session, alive, prepared, failed, kept, fate, given>>
vars == <<poolVars, dbVars>>

Outcome == {"none", "ok", "error"}
NoStmt == [worker |-> {}, session |-> 0]

DbTypeOK ==
  /\ PoolTypeOK
  /\ command \in Seq(Commands) /\ Len(command) = added
  /\ stmt \in [Commands -> [worker : SUBSET Threads, session : 0 .. MaxSessions]]
  /\ session \in [Threads -> 0 .. MaxSessions]
  /\ alive \in [Threads -> BOOLEAN]
  /\ prepared \in [Threads -> BOOLEAN]
  /\ failed \in [Threads -> BOOLEAN]
  /\ kept \in [Task -> BOOLEAN]
  /\ fate \in [Task -> Outcome]
  /\ given \in [Task -> Outcome]

DbInit ==
  /\ PoolInit
  /\ command = <<>>
  /\ stmt = [c \in Commands |-> NoStmt]
  /\ session = [t \in Threads |-> 0]
  /\ alive = [t \in Threads |-> FALSE]
  /\ prepared = [t \in Threads |-> FALSE]
  /\ failed = [t \in Threads |-> FALSE]
  /\ kept = [n \in Task |-> FALSE]
  /\ fate = [n \in Task |-> "none"]
  /\ given = [n \in Task |-> "none"]

-----------------------------------------------------------------------------
(* addTask with a command no unreported task has.  Which of the commands    *)
(* not used yet it is does not matter, so that they are taken in one order. *)
AddCommand(c) ==
  /\ AddTask
  /\ \A n \in 1 .. added : command[n] = c => given[n] # "none"
  /\ LET used == {command[n] : n \in 1 .. added}
     IN  c \in used \/ c = CHOOSE d \in Commands : d \notin used
  /\ command' = Append(command, c)
  /\ UNCHANGED <<stmt, session, alive, prepared, failed, kept, fate, given>>

Report(t, isError) ==
  /\ Update(t)
  /\ given' = [given EXCEPT ![Head(completeTasks[t])] = IF isError THEN "error" ELSE "ok"]
  /\ UNCHANGED <<command, stmt, session, alive, prepared, failed, kept, fate>>

(* seeded fault: complete() asks the interface *)
CompleteAsking(t) == completeTasks[t] # <<>> /\ Report(t, failed[t])

(* update, with DBSqlTask::complete *)
Complete(t) == completeTasks[t] # <<>> /\ Report(t, kept[Head(completeTasks[t])])

(* DBThread::onStart with connect(), whose result nobody looks at *)
Connect(t) ==
  /\ OnStart(t)
  /\ \E ok \in IF db'[t] = "open" THEN BOOLEAN ELSE {FALSE} :
       /\ session' = [session EXCEPT ![t] = IF ok THEN 1 ELSE 0]
       /\ alive' = [alive EXCEPT ![t] = ok]
       /\ failed' = [failed EXCEPT ![t] = db'[t] = "open" /\ ~ok]
  /\ UNCHANGED <<command, stmt, prepared, kept, fate, given>>

(* The server, or the network, drops a connection.  Nobody looks at it      *)
(* outside process(), so that dropping it there says all.                   *)
Drop(t) ==
  /\ at[t] = "process" /\ alive[t]
  /\ session[t] < MaxSessions
  /\ alive' = [alive EXCEPT ![t] = FALSE]
  /\ UNCHANGED <<poolVars, command, stmt, session, prepared, failed, kept, fate, given>>

Current(t) == [worker |-> {t}, session |-> session[t]]

(* a statement call on a connection: its result, and where process() ends   *)
(* when there is no other call                                              *)
Call(t, ok, last) ==
  /\ failed' = [failed EXCEPT ![t] = ~ok]
  /\ prepared' = [prepared EXCEPT ![t] = ~last]
  /\ IF last
       THEN /\ Processed(t)
            /\ kept' = [kept EXCEPT ![holds[t]] = ~ok]
            /\ fate' = [fate EXCEPT ![holds[t]] = IF ok THEN "ok" ELSE "error"]
       ELSE UNCHANGED <<poolVars, kept, fate>>
  /\ UNCHANGED <<command, given>>

(* mysql_stmt_prepare, in the connection there is or, when it was dropped,  *)
(* a new one                                                                *)
PrepareIn(t, init) ==
  \E again \in IF ~alive[t] /\ session[t] > 0 THEN BOOLEAN ELSE {FALSE} :
    /\ session' = [session EXCEPT ![t] = IF again THEN @ + 1 ELSE @]
    /\ alive' = [alive EXCEPT ![t] = @ \/ again]
    /\ stmt' = IF init THEN [stmt EXCEPT ![command[holds[t]]] = Current(t)'] ELSE stmt
    /\ \E ok \in IF alive'[t] THEN BOOLEAN ELSE {FALSE} : Call(t, ok, ~ok)

(* seeded fault: a statement that exists is not prepared again *)
PrepareOnce(t) ==
  /\ at[t] = "process" /\ ~prepared[t]
  /\ IF stmt[command[holds[t]]] = NoStmt
       THEN PrepareIn(t, TRUE)
       ELSE Call(t, TRUE, FALSE) /\ UNCHANGED <<stmt, session, alive>>

(* SqlPrepare::prepare makes a statement for the worker's connection, the   *)
(* one of an earlier use is forgotten *)
Prepare(t) == at[t] = "process" /\ ~prepared[t] /\ PrepareIn(t, TRUE)

(* SqlPrepare::execute with the reading of the result *)
Execute(t) ==
  /\ at[t] = "process" /\ prepared[t]
  /\ \E ok \in IF alive[t] THEN BOOLEAN ELSE {FALSE} : Call(t, ok, TRUE)
  /\ UNCHANGED <<stmt, session, alive>>

-----------------------------------------------------------------------------
DbWorkerStep(t) ==
  \/ Connect(t) \/ Prepare(t) \/ Execute(t)
  \/ /\ TestIsrun(t) \/ PopWaitTask(t) \/ Run(t) \/ PushComplete(t) \/ OnEnd(t)
     /\ UNCHANGED dbVars

DbMainStep ==
  \/ \E c \in Commands : AddCommand(c)
  \/ \E t \in Threads : Complete(t)
  \/ /\ \/ \E t \in Threads : CreateThread(t) \/ InitIsrun(t) \/ InitDb(t)
        \/ Exit \/ DestroyPool \/ Stop \/ Join
     /\ UNCHANGED dbVars

DbNext == ~aborted /\ (DbMainStep \/ \E t \in Threads : DbWorkerStep(t) \/ Drop(t))

DbSpec == DbInit /\ [][DbNext]_vars

(* The fairness of PoolFairSpec.  Nothing is assumed of the server but      *)
(* that it answers or fails.                                                *)
DbFairSpec ==
  /\ DbSpec
  /\ \A t \in Threads :
       /\ WF_vars(~aborted /\ DbWorkerStep(t))
       /\ WF_vars(~aborted /\ (InitIsrun(t) \/ InitDb(t)) /\ UNCHANGED dbVars)
       /\ WF_vars(~aborted /\ Complete(t))
  /\ WF_vars(~aborted /\ (Stop \/ Join) /\ UNCHANGED dbVars)

-----------------------------------------------------------------------------
(* A worker executes a statement prepared on the connection it has itself,  *)
(* whoever used the command before and however often its connection was     *)
(* made anew: prepare() at every use is what keeps a worker off the         *)
(* connections of the others, which it does not lock.                       *)
OwnStatement ==
  \A t \in Threads : prepared[t] => stmt[command[holds[t]]] = Current(t)

(* The callback of a task is told of an error exactly when its own command  *)
(* failed, whatever its worker's connection went through between process()  *)
(* and complete().                                                          *)
OutcomeIsOwn == \A n \in Task : given[n] # "none" => given[n] = fate[n]
=============================================================================
