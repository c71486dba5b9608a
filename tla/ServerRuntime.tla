--------------------------- MODULE ServerRuntime ----------------------------
(***************************************************************************)
(* The threads of the server together: main, which runs the network and    *)
(* the signal handlers until the services stop and then joins the others,  *)
(* the dispatcher, the scheduler and the database thread.  It composes     *)
(* Dispatcher, Scheduler and DatabaseTasks and adds the calls with which   *)
(* Game::setGameState and Game::shutdown take the server down.             *)
(*                                                                         *)
(* A SchedulerTask handed over by the scheduler is the same object in the  *)
(* dispatcher's list; the callback of a query is a new Task.               *)
(***************************************************************************)
EXTENDS Naturals, Sequences

CONSTANTS Signals,     \* tasks posted for SIGINT and SIGTERM
          Packets,     \* tasks posted for what the network receives
          Events,      \* scheduled events
          Queries,     \* asynchronous queries
          Callbacks,   \* the callback tasks
          CallbackOf,  \* query -> its callback task, a subset of Queries as domain
          DueTimes, MaxTime, MaxEventId,
          ShutdownTask, Terminate, Nothing

ASSUME RuntimeAssumption == /\ DOMAIN CallbackOf \subseteq Queries
                            /\ \A q \in DOMAIN CallbackOf : CallbackOf[q] \in Callbacks
                            /\ {ShutdownTask, Terminate, Nothing} \intersect
                                 (Signals \union Packets \union Events \union Callbacks) = {}
                            /\ ShutdownTask # Terminate /\ Nothing \notin {ShutdownTask, Terminate}
                            /\ Nothing \notin Queries
                            /\ MaxTime \in Nat /\ DueTimes \subseteq 0 .. MaxTime
                            /\ MaxEventId \in Nat \ {0}

VARIABLES dState, dList, dPc, dTask, dCall, dFate,             \* dispatcher
          sState, sList, sIds, sLast, sWrapped, sCycle, sId,   \* scheduler
          now, sPc, sDeadline, sTask, sCall, sArg, sKnown, sStopped, sFate,
          bState, bTasks, bPc, bTask, bCall, bClosing, bFlushes, \* database
          submitted, executed, posted, owed,
          gameState,   \* Game::gameState
          mainPc       \* where the main thread is

dVars == <<dState, dList, dPc, dTask, dCall, dFate>>
sVars == <<sState, sList, sIds, sLast, sWrapped, sCycle, sId, now, sPc, sDeadline,
           sTask, sCall, sArg, sKnown, sStopped, sFate>>
bVars == <<bState, bTasks, bPc, bTask, bCall, bClosing, bFlushes,
           submitted, executed, posted, owed>>
vars  == <<dVars, sVars, bVars, gameState, mainPc>>

GameTasks == Signals \union Packets \union Events \union Callbacks

D == INSTANCE Dispatcher
       WITH Producers <- {"main", "scheduler", "database"}, DispatcherThread <- "dispatcher",
            Tasks <- GameTasks, Timed <- Packets, NoTask <- Nothing,
            threadState <- dState, taskList <- dList, pc <- dPc, task <- dTask,
            call <- dCall, fate <- dFate

S == INSTANCE Scheduler
       WITH Callers <- {"dispatcher"}, DispatcherThread <- "dispatcher", NoEvent <- Nothing,
            threadState <- sState, accepting <- dState = "RUNNING", eventList <- sList,
            eventIds <- sIds, lastEventId <- sLast, wrapped <- sWrapped, cycle <- sCycle,
            eventId <- sId, pc <- sPc, deadline <- sDeadline, task <- sTask, call <- sCall,
            arg <- sArg, known <- sKnown, stopped <- sStopped, fate <- sFate

B == INSTANCE DatabaseTasks
       WITH Producers <- {}, DispatcherThread <- "dispatcher", DbThread <- "database",
            WithCallback <- DOMAIN CallbackOf, MaxFlushes <- 1, NoQuery <- Nothing,
            threadState <- bState, accepting <- dState = "RUNNING", tasks <- bTasks,
            pc <- bPc, task <- bTask, call <- bCall, closing <- bClosing, flushes <- bFlushes

(* A server that has not scheduled anything yet.                           *)
Init == /\ D!Init /\ S!Init /\ B!Init
        /\ sLast = 0
        /\ gameState = "NORMAL"
        /\ mainPc = "run"

-----------------------------------------------------------------------------
(* What the dispatcher thread may do inside a task.                        *)

(* It is executing a task and in none of the other components' calls.      *)
Executing == /\ dPc = "run"
             /\ dCall["dispatcher"] = "none"
             /\ sCall["dispatcher"] = "none"
             /\ bPc["dispatcher"] = "idle"
             /\ bCall["dispatcher"] = "none"

(* Game code runs: any task but Game::shutdown, the terminating task and   *)
(* a setGameState that is under way.                                       *)
GameCode == Executing /\ dTask \in GameTasks /\ gameState # "SAVING"

AddEvent(e, due) == /\ GameCode
                    /\ UNCHANGED <<dVars, bVars, gameState, mainPc>>
                    /\ S!AddEvent("dispatcher", e, due)

StopEvent(e) == /\ GameCode
                /\ UNCHANGED <<dVars, bVars, gameState, mainPc>>
                /\ S!StopEvent(e)

AddQuery(q) == /\ GameCode
               /\ UNCHANGED <<dVars, sVars, gameState, mainPc>>
               /\ B!AddTask("dispatcher", q)

(* setGameState(GAME_STATE_SHUTDOWN), from a signal handler.  Once it was  *)
(* called, later calls return.  It saves the game, flushing the queries,   *)
(* posts Game::shutdown, and stops the three threads.                      *)
SetGameStateShutdown == /\ GameCode
                        /\ dTask \in Signals
                        /\ gameState = "NORMAL"
                        /\ gameState' = "SAVING"
                        /\ UNCHANGED <<dVars, sVars, mainPc>>
                        /\ B!BeginFlush

PostShutdownTask == /\ Executing
                    /\ gameState = "SAVING"
                    /\ gameState' = "SHUTDOWN"
                    /\ D!RequestShutdown
                    /\ UNCHANGED <<sVars, bVars, mainPc>>

StopScheduler == /\ dPc = "stopping" /\ dCall["dispatcher"] = "none"
                 /\ UNCHANGED <<dVars, bVars, gameState, mainPc>>
                 /\ S!Stop

StopDatabase == /\ dPc = "stopping" /\ sState # "RUNNING"
                /\ UNCHANGED <<dVars, sVars, gameState, mainPc>>
                /\ B!Stop

StopDispatcher == /\ bState # "RUNNING"
                  /\ D!Stop
                  /\ UNCHANGED <<sVars, bVars, gameState, mainPc>>

(* Game::shutdown: the scheduler, the database thread, the dispatcher, and *)
(* then the services: ServiceManager::stop starts the timer that ends      *)
(* io_service.run() on the main thread.                                    *)
ShutdownScheduler == /\ Executing /\ dTask = ShutdownTask
                     /\ UNCHANGED <<dVars, bVars, gameState, mainPc>>
                     /\ S!Shutdown

ClearEvents == UNCHANGED <<dVars, bVars, gameState, mainPc>> /\ S!ClearEvents

ShutdownDatabase == /\ Executing /\ dTask = ShutdownTask
                    /\ sState = "TERMINATED"
                    /\ UNCHANGED <<dVars, sVars, gameState, mainPc>>
                    /\ B!Shutdown

ShutdownDispatcher == /\ Executing
                      /\ bState = "TERMINATED"
                      /\ D!Shutdown
                      /\ UNCHANGED <<sVars, bVars, gameState, mainPc>>

StopServices == /\ Executing /\ dTask = ShutdownTask
                /\ dFate[Terminate] # "new"
                /\ mainPc = "run"
                /\ mainPc' = "dying"
                /\ UNCHANGED <<dVars, sVars, bVars, gameState>>

(* A task returns: its callees have returned, a signal handler has called  *)
(* setGameState, and Game::shutdown has stopped the services.              *)
FinishTask == /\ Executing
              /\ gameState # "SAVING"
              /\ dTask \in Signals => gameState # "NORMAL"
              /\ dTask = ShutdownTask => mainPc # "run"
              /\ D!Finish
              /\ IF dTask \in Events
                   THEN S!RunEvent(dTask)
                   ELSE UNCHANGED sVars
              /\ UNCHANGED <<bVars, gameState, mainPc>>

(* The rest of threadMain of the dispatcher.                               *)
DispatcherLoop == /\ \/ D!LoopTest \/ D!Wait \/ D!Take \/ D!NothingToTake
                     \/ D!Expire \/ D!Execute \/ D!RunTerminate
                  /\ UNCHANGED <<sVars, bVars, gameState, mainPc>>

DispatcherNotify(c) == D!Notify(c) /\ UNCHANGED <<sVars, bVars, gameState, mainPc>>

CallReturns == /\ UNCHANGED <<dVars, bVars, gameState, mainPc>>
               /\ S!CallerStep("dispatcher")

QueryNotify == /\ UNCHANGED <<dVars, sVars, gameState, mainPc>>
               /\ B!Notify("dispatcher")

(* flush, inside saveGameState and DatabaseTasks::shutdown.                *)
FlushStep == /\ dCall["dispatcher"] = "none"
             /\ UNCHANGED <<dVars, sVars, gameState, mainPc>>
             /\ \/ B!FlushTake \/ B!EndFlush \/ B!SignalEnd \/ B!Execute("dispatcher")

(* A callback is posted with createTask and addTask.                       *)
PostCallback(w) == /\ \/ /\ bTask[w] \in DOMAIN CallbackOf
                         /\ D!AddTask(w, CallbackOf[bTask[w]], FALSE)
                         /\ UNCHANGED <<dState, dPc, dTask>>
                      \/ /\ bTask[w] \notin DOMAIN CallbackOf
                         /\ UNCHANGED dVars
                   /\ B!Callback(w)
                   /\ UNCHANGED <<sVars, gameState, mainPc>>

-----------------------------------------------------------------------------
(* The other threads.  Each sends the notify_one it owes the dispatcher    *)
(* before it goes on.                                                      *)

SchedulerLoop == /\ dCall["scheduler"] = "none"
                 /\ UNCHANGED <<dVars, bVars, gameState, mainPc>>
                 /\ \/ S!LoopTest \/ S!Wait \/ S!Timeout \/ S!NothingDue
                    \/ S!PopStopped \/ S!PopDue

HandOver == /\ sPc = "post"
            /\ D!AddTask("scheduler", sTask, TRUE)
            /\ UNCHANGED <<dState, dPc, dTask>>
            /\ S!PostToDispatcher
            /\ UNCHANGED <<bVars, gameState, mainPc>>

DatabaseLoop == /\ dCall["database"] = "none"
                /\ UNCHANGED <<dVars, sVars, gameState, mainPc>>
                /\ \/ B!LoopTest \/ B!Wait \/ B!Take \/ B!NothingToTake
                   \/ B!Execute("database")

(* A condition variable wakes a thread that nobody notified.               *)
SpuriousWakeup ==
    \/ UNCHANGED <<sVars, bVars, gameState, mainPc>> /\ D!SpuriousWakeup
    \/ UNCHANGED <<dVars, bVars, gameState, mainPc>> /\ S!SpuriousWakeup
    \/ UNCHANGED <<dVars, sVars, gameState, mainPc>> /\ B!SpuriousWakeup

(* io_service.run(): signals and packets become tasks.                     *)
MainPosts(t) == /\ mainPc \in {"run", "dying"}
                /\ D!Post("main", t, FALSE)
                /\ UNCHANGED <<sVars, bVars, gameState, mainPc>>

(* Variant: main does not join the database thread.                        *)
MainStepTwoJoins ==
    /\ dCall["main"] = "none"
    /\ \/ mainPc = "dying" /\ mainPc' = "joinScheduler"
       \/ mainPc = "joinScheduler" /\ sPc = "done" /\ mainPc' = "joinDispatcher"
       \/ mainPc = "joinDispatcher" /\ dPc = "done" /\ mainPc' = "exited"
    /\ UNCHANGED <<dVars, sVars, bVars, gameState>>

(* The death timer fires; main joins the scheduler, the database thread    *)
(* and the dispatcher, in this order.                                      *)
MainStep == /\ dCall["main"] = "none"
            /\ \/ mainPc = "dying" /\ mainPc' = "joinScheduler"
               \/ mainPc = "joinScheduler" /\ sPc = "done" /\ mainPc' = "joinDatabase"
               \/ mainPc = "joinDatabase" /\ bPc["database"] = "done"
                    /\ mainPc' = "joinDispatcher"
               \/ mainPc = "joinDispatcher" /\ dPc = "done" /\ mainPc' = "exited"
            /\ UNCHANGED <<dVars, sVars, bVars, gameState>>

Tick == UNCHANGED <<dVars, bVars, gameState, mainPc>> /\ S!Tick

Exited == mainPc = "exited" /\ UNCHANGED vars

-----------------------------------------------------------------------------
InsideShutdown == \/ PostShutdownTask \/ StopScheduler \/ StopDatabase \/ StopDispatcher
                  \/ ShutdownScheduler \/ ClearEvents \/ ShutdownDatabase
                  \/ ShutdownDispatcher \/ StopServices

DispatcherThread == \/ FinishTask \/ DispatcherLoop \/ DispatcherNotify("dispatcher")
                    \/ CallReturns \/ QueryNotify \/ FlushStep \/ PostCallback("dispatcher")
                    \/ SetGameStateShutdown \/ InsideShutdown

SchedulerThread == SchedulerLoop \/ HandOver \/ DispatcherNotify("scheduler")
DatabaseThread  == DatabaseLoop \/ PostCallback("database") \/ DispatcherNotify("database")
MainThread      == MainStep \/ DispatcherNotify("main")

Next == \/ DispatcherThread \/ SchedulerThread \/ DatabaseThread \/ MainThread
        \/ SpuriousWakeup
        \/ \E t \in Signals \union Packets : MainPosts(t)
        \/ \E e \in Events : StopEvent(e) \/ \E due \in DueTimes : AddEvent(e, due)
        \/ \E q \in Queries : AddQuery(q)
        \/ Tick
        \/ Exited

(* Threads that can run are run, a task's code returns, and time passes.   *)
(* Nobody may rely on a spurious wakeup.                                   *)
Fairness == /\ WF_vars(DispatcherThread)
            /\ WF_vars(SchedulerThread)
            /\ WF_vars(DatabaseThread)
            /\ WF_vars(MainThread)
            /\ WF_vars(Tick)

Spec == Init /\ [][Next]_vars /\ Fairness

-----------------------------------------------------------------------------
(* Properties.                                                             *)

(* Put together, the components still are what they were checked and       *)
(* proved to be apart: the calls the runtime makes on several of them, on  *)
(* the dispatcher thread and from the other threads, stay within what each *)
(* of them allows its environment.                                         *)
ComponentsHold == D!Inv /\ S!Inv /\ B!ExactlyOnce /\ B!NothingLeftBehind

(* When main has returned, so that the process ends, all queries are in    *)
(* the database and every thread has left its loop.                        *)
CleanExit ==
    mainPc = "exited" =>
        /\ sPc = "done" /\ bPc["database"] = "done" /\ dPc = "done"
        /\ \A i \in DOMAIN submitted : B!Has(executed, submitted[i])

(* A signal ends the dispatcher thread: whatever the other threads do,     *)
(* Game::shutdown runs once and the terminating task is reached.           *)
SignalEndsDispatcher ==
    (\E t \in Signals : dFate[t] = "queued") ~> dPc = "done"

(* "Shuts the server down" (signals.cpp:91): after SIGINT or SIGTERM the   *)
(* server process ends.                                                    *)
ShutsTheServerDown ==
    (\E t \in Signals : dFate[t] = "queued") ~> mainPc = "exited"
=============================================================================
