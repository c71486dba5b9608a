--------------------------- MODULE DatabaseTasks ----------------------------
(***************************************************************************)
(* Asynchronous queries.  addTask queues a query, the database thread runs *)
(* it and posts its callback to the dispatcher; flush, called on the       *)
(* dispatcher thread when the game is saved and at shutdown, runs whatever *)
(* is queued in the caller's thread.  So two threads may be executing      *)
(* queries, each of them one at a time.                                    *)
(*                                                                         *)
(* A critical section of taskLock is one step.  Executing a query is one   *)
(* step: Database serialises queries with a lock of its own.               *)
(***************************************************************************)
EXTENDS Naturals, Sequences, SequencesExt

CONSTANTS Producers,        \* threads that queue queries, other than the dispatcher's
          DispatcherThread, \* queues queries too, and runs flush and shutdown
          DbThread,         \* runs threadMain
          Queries,          \* DatabaseTask objects
          WithCallback,     \* those that have a callback
          MaxFlushes,       \* bound on the times the game is saved
          NoQuery

ASSUME DatabaseAssumption == /\ WithCallback \subseteq Queries
                             /\ DispatcherThread \notin Producers
                             /\ DbThread \notin Producers \union {DispatcherThread}
                             /\ NoQuery \notin Queries
                             /\ MaxFlushes \in Nat

Callers == Producers \union {DispatcherThread}
Workers == {DbThread, DispatcherThread}

VARIABLES threadState,  \* ThreadHolder::threadState of the database thread
          accepting,    \* does g_dispatcher.addTask still accept?
          tasks,        \* DatabaseTasks::tasks
          pc,           \* worker -> where it is in threadMain, flush or shutdown
          task,         \* worker -> the query it has taken out of tasks
          call,         \* caller -> does it still owe the notify_one of addTask?
          closing,      \* is the dispatcher thread inside shutdown?
          flushes,      \* how often the game has been saved
          submitted,    \* the queries addTask accepted, in that order
          executed,     \* the queries the database has seen, in that order
          posted,       \* queries whose callback the dispatcher accepted
          owed          \* what was accepted when the current flush began

vars == <<threadState, accepting, tasks, pc, task, call, closing, flushes,
          submitted, executed, posted, owed>>

DbPCs    == {"test", "lock", "wait", "woken", "execute", "callback", "done"}
FlushPCs == {"idle", "flush", "execute", "callback", "signal"}

TypeOK == /\ threadState \in {"RUNNING", "CLOSING", "TERMINATED"}
          /\ accepting \in BOOLEAN
          /\ tasks \in Seq(Queries)
          /\ pc[DbThread] \in DbPCs /\ pc[DispatcherThread] \in FlushPCs
          /\ DOMAIN pc = Workers
          /\ task \in [Workers -> Queries \union {NoQuery}]
          /\ call \in [Callers -> {"none", "notify"}]
          /\ closing \in BOOLEAN
          /\ flushes \in 0 .. MaxFlushes
          /\ submitted \in Seq(Queries)
          /\ executed \in Seq(Queries)
          /\ posted \subseteq WithCallback
          /\ owed \subseteq Queries

Init == /\ threadState = "RUNNING"
        /\ accepting = TRUE
        /\ tasks = <<>>
        /\ pc = [w \in Workers |-> IF w = DbThread THEN "test" ELSE "idle"]
        /\ task = [w \in Workers |-> NoQuery]
        /\ call = [c \in Callers |-> "none"]
        /\ closing = FALSE
        /\ flushes = 0
        /\ submitted = <<>>
        /\ executed = <<>>
        /\ posted = {}
        /\ owed = {}

(* Variant: the task stays in the list.                                    *)
PopFrontKeeps(w) == /\ tasks # <<>>
                    /\ task' = [task EXCEPT ![w] = Head(tasks)]
                    /\ pc' = [pc EXCEPT ![w] = "execute"]
                    /\ UNCHANGED tasks

(* tasks.front(), tasks.pop_front()                                        *)
PopFront(w) == /\ tasks # <<>>
               /\ task' = [task EXCEPT ![w] = Head(tasks)]
               /\ tasks' = Tail(tasks)
               /\ pc' = [pc EXCEPT ![w] = "execute"]

-----------------------------------------------------------------------------
(* threadMain.                                                             *)

LoopTest == /\ pc[DbThread] = "test"
            /\ pc' = [pc EXCEPT ![DbThread] =
                        IF threadState = "TERMINATED" THEN "done" ELSE "lock"]
            /\ UNCHANGED <<threadState, accepting, tasks, task, call, closing, flushes,
                           submitted, executed, posted, owed>>

Wait == /\ pc[DbThread] = "lock"
        /\ tasks = <<>>
        /\ pc' = [pc EXCEPT ![DbThread] = "wait"]
        /\ UNCHANGED <<threadState, accepting, tasks, task, call, closing, flushes,
                       submitted, executed, posted, owed>>

SpuriousWakeup == /\ pc[DbThread] = "wait"
                  /\ pc' = [pc EXCEPT ![DbThread] = "woken"]
                  /\ UNCHANGED <<threadState, accepting, tasks, task, call, closing, flushes,
                                 submitted, executed, posted, owed>>

Take == /\ pc[DbThread] \in {"lock", "woken"}
        /\ PopFront(DbThread)
        /\ UNCHANGED <<threadState, accepting, call, closing, flushes, submitted, executed,
                       posted, owed>>

NothingToTake == /\ pc[DbThread] = "woken"
                 /\ tasks = <<>>
                 /\ pc' = [pc EXCEPT ![DbThread] = "test"]
                 /\ UNCHANGED <<threadState, accepting, tasks, task, call, closing, flushes,
                                submitted, executed, posted, owed>>

-----------------------------------------------------------------------------
(* runTask, on either thread.                                              *)

Execute(w) == /\ pc[w] = "execute"
              /\ executed' = Append(executed, task[w])
              /\ pc' = [pc EXCEPT ![w] = "callback"]
              /\ UNCHANGED <<threadState, accepting, tasks, task, call, closing, flushes,
                             submitted, posted, owed>>

Callback(w) == /\ pc[w] = "callback"
               /\ posted' = IF task[w] \in WithCallback /\ accepting
                              THEN posted \union {task[w]} ELSE posted
               /\ task' = [task EXCEPT ![w] = NoQuery]
               /\ pc' = [pc EXCEPT ![w] = IF w = DbThread THEN "test" ELSE "flush"]
               /\ UNCHANGED <<threadState, accepting, tasks, call, closing, flushes,
                              submitted, executed, owed>>

-----------------------------------------------------------------------------
(* What addTask does besides testing threadState and the list: a query is  *)
(* put into the list, once, by a caller that is in no other call.          *)
PushTask(c, q, list) ==
    /\ call[c] = "none"
    /\ c = DispatcherThread => pc[DispatcherThread] = "idle"
    /\ \A i \in DOMAIN submitted : submitted[i] # q
    /\ tasks' = list
    /\ submitted' = Append(submitted, q)
    /\ UNCHANGED <<threadState, accepting, pc, task, closing, flushes, executed, posted, owed>>

(* Variant: the query goes to the front.                                   *)
AddTaskFront(c, q) ==
    /\ threadState = "RUNNING"
    /\ PushTask(c, q, <<q>> \o tasks)
    /\ call' = [call EXCEPT ![c] = IF tasks = <<>> THEN "notify" ELSE "none"]

(* addTask.  A query that comes when the thread is closing is silently     *)
(* dropped: nothing changes.                                               *)
AddTask(c, q) ==
    /\ threadState = "RUNNING"
    /\ PushTask(c, q, Append(tasks, q))
    /\ call' = [call EXCEPT ![c] = IF tasks = <<>> THEN "notify" ELSE "none"]

Notify(c) == /\ call[c] = "notify"
             /\ call' = [call EXCEPT ![c] = "none"]
             /\ pc' = [pc EXCEPT ![DbThread] = IF @ = "wait" THEN "woken" ELSE @]
             /\ UNCHANGED <<threadState, accepting, tasks, task, closing, flushes, submitted,
                            executed, posted, owed>>

-----------------------------------------------------------------------------
(* flush and shutdown, on the dispatcher thread.                           *)

DispatcherIdle == /\ pc[DispatcherThread] = "idle"
                  /\ call[DispatcherThread] = "none"

(* saveGameState calls flush.                                              *)
BeginFlush == /\ DispatcherIdle
              /\ threadState # "TERMINATED"
              /\ flushes < MaxFlushes
              /\ flushes' = flushes + 1
              /\ pc' = [pc EXCEPT ![DispatcherThread] = "flush"]
              /\ owed' = ToSet(submitted)
              /\ UNCHANGED <<threadState, accepting, tasks, task, call, closing, submitted,
                             executed, posted>>

FlushTake == /\ pc[DispatcherThread] = "flush"
             /\ PopFront(DispatcherThread)
             /\ UNCHANGED <<threadState, accepting, call, closing, flushes, submitted,
                            executed, posted, owed>>

(* Variant: flush runs a part of the list only.                            *)
EndFlushEarly == /\ pc[DispatcherThread] = "flush"
                 /\ pc' = [pc EXCEPT ![DispatcherThread] = IF closing THEN "signal" ELSE "idle"]
                 /\ owed' = {}
                 /\ UNCHANGED <<threadState, accepting, tasks, task, call, closing, flushes,
                                submitted, executed, posted>>

EndFlush == /\ pc[DispatcherThread] = "flush"
            /\ tasks = <<>>
            /\ pc' = [pc EXCEPT ![DispatcherThread] = IF closing THEN "signal" ELSE "idle"]
            /\ owed' = {}
            /\ UNCHANGED <<threadState, accepting, tasks, task, call, closing, flushes,
                           submitted, executed, posted>>

(* setGameState: g_databaseTasks.stop(), then g_dispatcher.stop().         *)
Stop == /\ DispatcherIdle
        /\ threadState = "RUNNING"
        /\ threadState' = "CLOSING"
        /\ UNCHANGED <<accepting, tasks, pc, task, call, closing, flushes, submitted,
                       executed, posted, owed>>

StopDispatcher == /\ DispatcherIdle
                  /\ threadState = "CLOSING"
                  /\ accepting
                  /\ accepting' = FALSE
                  /\ UNCHANGED <<threadState, tasks, pc, task, call, closing, flushes,
                                 submitted, executed, posted, owed>>

(* Variant: shutdown does not flush.                                       *)
ShutdownWithoutFlush ==
    /\ DispatcherIdle
    /\ threadState # "TERMINATED"
    /\ threadState' = "TERMINATED"
    /\ closing' = TRUE
    /\ pc' = [pc EXCEPT ![DispatcherThread] = "signal"]
    /\ UNCHANGED <<accepting, tasks, task, call, flushes, submitted, executed, posted, owed>>

(* shutdown, called by Game::shutdown, and by main when no service runs,   *)
(* then without a stop before.  The state is set under the lock and flush  *)
(* comes after it.                                                         *)
Shutdown == /\ DispatcherIdle
            /\ threadState # "TERMINATED"
            /\ threadState' = "TERMINATED"
            /\ closing' = TRUE
            /\ pc' = [pc EXCEPT ![DispatcherThread] = "flush"]
            /\ owed' = ToSet(submitted)
            /\ UNCHANGED <<accepting, tasks, task, call, flushes, submitted, executed, posted>>

SignalEnd == /\ pc[DispatcherThread] = "signal"
             /\ pc' = [pc EXCEPT ![DispatcherThread] = "idle",
                                 ![DbThread] = IF @ = "wait" THEN "woken" ELSE @]
             /\ UNCHANGED <<threadState, accepting, tasks, task, call, closing, flushes,
                            submitted, executed, posted, owed>>

-----------------------------------------------------------------------------
DbStep == \/ LoopTest \/ Wait \/ Take \/ NothingToTake
          \/ Execute(DbThread) \/ Callback(DbThread)

DispatcherStep == \/ FlushTake \/ EndFlush \/ SignalEnd
                  \/ Execute(DispatcherThread) \/ Callback(DispatcherThread)

(* shutdown has returned; the database thread has left threadMain or still *)
(* sleeps in it.                                                           *)
Finished == /\ threadState = "TERMINATED"
            /\ pc[DispatcherThread] = "idle"
            /\ pc[DbThread] \in {"wait", "done"}
            /\ \A c \in Callers : call[c] = "none"
            /\ UNCHANGED vars

Next == \/ DbStep
        \/ SpuriousWakeup
        \/ DispatcherStep
        \/ \E c \in Callers : Notify(c) \/ \E q \in Queries : AddTask(c, q)
        \/ BeginFlush \/ Stop \/ StopDispatcher \/ Shutdown
        \/ Finished

(* Threads that can run are run, and a query ends.                         *)
Fairness == /\ WF_vars(DbStep)
            /\ WF_vars(DispatcherStep)
            /\ \A c \in Callers : WF_vars(Notify(c))

Safety == Init /\ [][Next]_vars
Spec == Safety /\ Fairness

-----------------------------------------------------------------------------
(* Properties.                                                             *)

(* Position of a query in a sequence without repetitions.                  *)
Has(s, q) == \E i \in DOMAIN s : s[i] = q
Before(s, q, r) == \E i, j \in DOMAIN s : i < j /\ s[i] = q /\ s[j] = r

(* A worker has taken q and not yet run it.                                *)
InFlight(w, q) == pc[w] = "execute" /\ task[w] = q

(* Every accepted query is at one place: queued, in the hands of one       *)
(* worker, or executed, and executed once, although flush empties the list *)
(* while the database thread works on it.                                  *)
ExactlyOnce ==
    /\ \A i, j \in DOMAIN executed : executed[i] = executed[j] => i = j
    /\ \A i \in DOMAIN submitted :
         LET q == submitted[i]
             places == {w \in Workers : InFlight(w, q)}
                         \union (IF Has(tasks, q) THEN {"tasks"} ELSE {})
                         \union (IF Has(executed, q) THEN {"executed"} ELSE {})
         IN  \E p \in places : places = {p}

(* Queries may reach the database in another order than they were queued   *)
(* in, since flush does not wait for the database thread; but a query is   *)
(* overtaken only while a worker has it in hand, never while it is queued. *)
OvertakenOnlyInFlight ==
    \A q, r \in Queries :
        Before(submitted, q, r) /\ Has(executed, r) /\ ~Has(executed, q) =>
            \E w \in Workers : InFlight(w, q)

(* When flush returns, the queries accepted before it began have all been  *)
(* executed, except at most the one the database thread has in hand.       *)
FlushLeavesOnlyInFlight ==
    [][EndFlush => \A q \in owed : Has(executed, q) \/ InFlight(DbThread, q)]_vars

(* After shutdown has returned nothing can be queued any more: what the    *)
(* list held was run by the flush inside it.                               *)
NothingLeftBehind ==
    threadState = "TERMINATED" /\ pc[DispatcherThread] \in {"signal", "idle"} => tasks = <<>>

(* Every accepted query is eventually executed, shutdown or not.           *)
AcceptedQueriesRun == \A q \in Queries : Has(submitted, q) ~> Has(executed, q)
=============================================================================
