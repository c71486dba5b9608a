----------------------------- MODULE Dispatcher -----------------------------
(***************************************************************************)
(* The dispatcher thread: the single thread that runs the game.  Every     *)
(* other thread hands it Task objects through addTask; taskLock guards     *)
(* taskList and taskSignal wakes the thread.                               *)
(*                                                                         *)
(* A critical section of taskLock is one step, because everything it reads *)
(* and writes except threadState is guarded by the lock and it reads       *)
(* threadState once.  The notify_one that addTask sends after unlocking,   *)
(* the loop's test of threadState before locking, and the wait are steps   *)
(* of their own.                                                           *)
(***************************************************************************)
EXTENDS Naturals, Sequences, FiniteSets

CONSTANTS Producers,        \* threads other than the dispatcher that post tasks
          DispatcherThread, \* the dispatcher's own thread: a running task posts too
          Tasks,            \* ordinary Task objects
          Timed,            \* those created with an expiration (tasks.h:35)
          ShutdownTask,     \* the task that runs Game::shutdown
          Terminate,        \* the task Dispatcher::shutdown pushes
          NoTask

ASSUME TaskAssumption == /\ Timed \subseteq Tasks
                         /\ ShutdownTask \notin Tasks
                         /\ Terminate \notin Tasks
                         /\ ShutdownTask # Terminate
                         /\ NoTask \notin Tasks \union {ShutdownTask, Terminate}
                         /\ DispatcherThread \notin Producers

AllTasks == Tasks \union {ShutdownTask, Terminate}
Callers  == Producers \union {DispatcherThread}

VARIABLES threadState,  \* ThreadHolder::threadState
          taskList,     \* Dispatcher::taskList
          pc,           \* where the dispatcher thread is in threadMain
          task,         \* the Task it has popped, or NoTask
          call,         \* caller -> does it still owe the notify_one of addTask?
          fate          \* Task object -> what has become of it

vars == <<threadState, taskList, pc, task, call, fate>>

ThreadStates == {"RUNNING", "CLOSING", "TERMINATED"}
PCs   == {"test", "lock", "wait", "woken", "check", "run", "stopping", "done"}
Fates == {"new", "queued", "running", "done", "expired", "deleted"}

TypeOK == /\ threadState \in ThreadStates
          /\ taskList \in Seq(AllTasks)
          /\ pc \in PCs
          /\ task \in AllTasks \union {NoTask}
          /\ call \in [Callers -> {"none", "notify"}]
          /\ fate \in [AllTasks -> Fates]

(* ThreadHolder::start has set the state and created the thread.           *)
Init == /\ threadState = "RUNNING"
        /\ taskList = <<>>
        /\ pc = "test"
        /\ task = NoTask
        /\ call = [c \in Callers |-> "none"]
        /\ fate = [t \in AllTasks |-> "new"]

-----------------------------------------------------------------------------
(* The body of threadMain.                                                 *)

LoopTest == /\ pc = "test"
            /\ pc' = IF threadState = "TERMINATED" THEN "done" ELSE "lock"
            /\ UNCHANGED <<threadState, taskList, task, call, fate>>

Wait == /\ pc = "lock"
        /\ taskList = <<>>
        /\ pc' = "wait"
        /\ UNCHANGED <<threadState, taskList, task, call, fate>>

(* condition_variable::wait may return although nobody notified.           *)
SpuriousWakeup == /\ pc = "wait"
                  /\ pc' = "woken"
                  /\ UNCHANGED <<threadState, taskList, task, call, fate>>

(* Variants: the task is not popped; the newest task is taken.             *)
TakeWithoutPop == /\ pc \in {"lock", "woken"}
                  /\ taskList # <<>>
                  /\ task' = Head(taskList)
                  /\ fate' = [fate EXCEPT ![Head(taskList)] = "running"]
                  /\ pc' = "check"
                  /\ UNCHANGED <<threadState, taskList, call>>

TakeLast == /\ pc \in {"lock", "woken"}
            /\ taskList # <<>>
            /\ task' = taskList[Len(taskList)]
            /\ taskList' = SubSeq(taskList, 1, Len(taskList) - 1)
            /\ fate' = [fate EXCEPT ![taskList[Len(taskList)]] = "running"]
            /\ pc' = "check"
            /\ UNCHANGED <<threadState, call>>

Take == /\ pc \in {"lock", "woken"}
        /\ taskList # <<>>
        /\ task' = Head(taskList)
        /\ taskList' = Tail(taskList)
        /\ fate' = [fate EXCEPT ![Head(taskList)] = "running"]
        /\ pc' = "check"
        /\ UNCHANGED <<threadState, call>>

NothingToTake == /\ pc = "woken"
                 /\ taskList = <<>>
                 /\ pc' = "test"
                 /\ UNCHANGED <<threadState, taskList, task, call, fate>>

(* hasExpired: a task without expiration never has.                        *)
Expire == /\ pc = "check"
          /\ task \in Timed
          /\ fate' = [fate EXCEPT ![task] = "expired"]
          /\ task' = NoTask
          /\ pc' = "test"
          /\ UNCHANGED <<threadState, taskList, call>>

Execute == /\ pc = "check"
           /\ pc' = "run"
           /\ UNCHANGED <<threadState, taskList, task, call, fate>>

(* The task's function returns and it is deleted.  Game::shutdown returns  *)
(* only after it has called Dispatcher::shutdown.                          *)
Finish == /\ pc = "run"
          /\ task # Terminate
          /\ task = ShutdownTask => fate[Terminate] # "new"
          /\ call[DispatcherThread] = "none"
          /\ fate' = [fate EXCEPT ![task] = "done"]
          /\ task' = NoTask
          /\ pc' = "test"
          /\ UNCHANGED <<threadState, taskList, call>>

-----------------------------------------------------------------------------
(* addTask, called by thread c.  A caller on the dispatcher thread is a    *)
(* task that is running.                                                   *)

(* Variants: threadState is not looked at; do_signal is computed after the *)
(* task was pushed.                                                        *)
AddTaskAlways(c, t, front) ==
    /\ call[c] = "none"
    /\ fate[t] = "new"
    /\ taskList' = IF front THEN <<t>> \o taskList ELSE Append(taskList, t)
    /\ fate' = [fate EXCEPT ![t] = "queued"]
    /\ call' = [call EXCEPT ![c] = IF taskList = <<>> THEN "notify" ELSE "none"]

AddTaskTestsAfterPush(c, t, front) ==
    /\ call[c] = "none"
    /\ fate[t] = "new"
    /\ taskList' = IF front THEN <<t>> \o taskList ELSE Append(taskList, t)
    /\ fate' = [fate EXCEPT ![t] = "queued"]
    /\ call' = [call EXCEPT ![c] = IF taskList' = <<>> THEN "notify" ELSE "none"]

AddTask(c, t, front) ==
    /\ call[c] = "none"
    /\ fate[t] = "new"
    /\ IF threadState = "RUNNING"
         THEN /\ taskList' = IF front THEN <<t>> \o taskList ELSE Append(taskList, t)
              /\ fate' = [fate EXCEPT ![t] = "queued"]
              /\ call' = [call EXCEPT ![c] = IF taskList = <<>> THEN "notify" ELSE "none"]
         ELSE /\ fate' = [fate EXCEPT ![t] = "deleted"]
              /\ UNCHANGED <<taskList, call>>

Post(c, t, front) == /\ c = DispatcherThread => pc = "run" /\ task \in Tasks
                     /\ t \in Tasks
                     /\ AddTask(c, t, front)
                     /\ UNCHANGED <<threadState, pc, task>>

(* notify_one: the dispatcher thread is the only one that ever waits.      *)
Notify(c) == /\ call[c] = "notify"
             /\ call' = [call EXCEPT ![c] = "none"]
             /\ pc' = IF pc = "wait" THEN "woken" ELSE pc
             /\ UNCHANGED <<threadState, taskList, task, fate>>

-----------------------------------------------------------------------------
(* The way the game ends: a task calls setGameState(GAME_STATE_SHUTDOWN),  *)
(* which posts Game::shutdown and then stops the dispatcher; other threads *)
(* may post between the two.                                               *)

RequestShutdown == /\ pc = "run"
                   /\ task \in Tasks
                   /\ AddTask(DispatcherThread, ShutdownTask, FALSE)
                   /\ pc' = "stopping"
                   /\ UNCHANGED <<threadState, task>>

Stop == /\ pc = "stopping"
        /\ call[DispatcherThread] = "none"
        /\ threadState' = "CLOSING"
        /\ pc' = "run"
        /\ UNCHANGED <<taskList, task, call, fate>>

(* Game::shutdown calls Dispatcher::shutdown, which pushes without looking *)
(* at threadState.  It notifies while the dispatcher thread, its caller,   *)
(* is running: nobody is waiting.                                          *)
Shutdown == /\ pc = "run"
            /\ task = ShutdownTask
            /\ fate[Terminate] = "new"
            /\ taskList' = Append(taskList, Terminate)
            /\ fate' = [fate EXCEPT ![Terminate] = "queued"]
            /\ UNCHANGED <<threadState, pc, task, call>>

(* Variant: the terminating task leaves threadState alone.                 *)
RunTerminateKeepsState == /\ pc = "run"
                          /\ task = Terminate
                          /\ fate' = [fate EXCEPT ![Terminate] = "done"]
                          /\ task' = NoTask
                          /\ pc' = "test"
                          /\ UNCHANGED <<threadState, taskList, call>>

RunTerminate == /\ pc = "run"
                /\ task = Terminate
                /\ threadState' = "TERMINATED"
                /\ fate' = [fate EXCEPT ![Terminate] = "done"]
                /\ task' = NoTask
                /\ pc' = "test"
                /\ UNCHANGED <<taskList, call>>

-----------------------------------------------------------------------------
ThreadStep == \/ LoopTest \/ Wait \/ Take \/ NothingToTake
              \/ Expire \/ Execute \/ Finish
              \/ Stop \/ Shutdown \/ RunTerminate

(* The thread has left threadMain and join() has returned.                 *)
Terminated == pc = "done" /\ UNCHANGED vars

Next == \/ ThreadStep
        \/ SpuriousWakeup
        \/ RequestShutdown
        \/ \E c \in Callers : Notify(c)
        \/ \E c \in Callers, t \in Tasks, front \in BOOLEAN : Post(c, t, front)
        \/ Terminated

(* The operating system keeps running a thread that can run, and a task's  *)
(* code returns.  Nobody has to post or to ask for a shutdown.             *)
Fairness == /\ WF_vars(ThreadStep)
            /\ \A c \in Callers : WF_vars(Notify(c))

Safety == Init /\ [][Next]_vars
Spec == Safety /\ Fairness

-----------------------------------------------------------------------------
(* Properties.                                                             *)

InList(t) == \E i \in DOMAIN taskList : taskList[i] = t

(* addTask signals only when the list was empty, and after unlocking.      *)
(* Whenever the thread sleeps although there is work, some caller is still *)
(* on its way to notify it, however callers and spurious wakeups interleave.*)
NoLostWakeup ==
    pc = "wait" /\ taskList # <<>> => \E c \in Callers : call[c] = "notify"

(* Each Task object has one owner: it is in the list exactly once while    *)
(* queued, it is the popped task while running, and after it was deleted   *)
(* no pointer to it is left in the list or in threadMain.                  *)
OneOwner ==
    /\ \A t \in AllTasks : fate[t] = "queued" <=> InList(t)
    /\ \A t \in AllTasks : fate[t] = "running" <=> task = t
    /\ \A i, j \in DOMAIN taskList : taskList[i] = taskList[j] => i = j

(* setGameState stops the dispatcher before Game::shutdown pushes the      *)
(* terminating task, so no task is ever queued behind it and none is left  *)
(* in the list, unrun and leaked, when the thread ends.                    *)
NothingStranded ==
    /\ \A i \in DOMAIN taskList : taskList[i] = Terminate => i = Len(taskList)
    /\ pc = "done" => \A t \in AllTasks : fate[t] \notin {"queued", "running"}

(* How far the shutdown has got, tied to threadState: what the order       *)
(* "post Game::shutdown, stop, push the terminating task" guarantees while *)
(* other threads keep posting.                                             *)
ShutdownProtocol ==
    /\ fate[ShutdownTask] = "new" => threadState = "RUNNING"
    /\ fate[ShutdownTask] # "new" /\ pc # "stopping" => threadState # "RUNNING"
    /\ fate[Terminate] # "new" => threadState # "RUNNING"
    /\ fate[Terminate] \in {"running", "done"} => taskList = <<>>
    /\ threadState = "TERMINATED" <=> fate[Terminate] = "done"
    /\ pc = "stopping" => /\ task \in Tasks
                          /\ threadState = "RUNNING"
                          /\ fate[ShutdownTask] # "new"
    /\ pc = "done" => threadState = "TERMINATED"
    /\ task = NoTask <=> pc \in {"test", "lock", "wait", "woken", "done"}

(* The inductive invariant.                                                *)
Inv == TypeOK /\ NoLostWakeup /\ OneOwner /\ NothingStranded /\ ShutdownProtocol

(* The dispatcher implements the executor the game's code relies on.       *)
Executor == INSTANCE TaskExecutor
              WITH accepting <- threadState = "RUNNING",
                   pending   <- taskList,
                   running   <- task,
                   ended     <- {t \in AllTasks : fate[t] \in {"done", "expired", "deleted"}}

ImplementsExecutor == Executor!Spec
ImplementsExecutorSafety == Executor!Safety
=============================================================================
