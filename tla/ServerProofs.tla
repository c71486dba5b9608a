---------------------------- MODULE ServerProofs ----------------------------
(***************************************************************************)
(* The server's threads together, for any number of events, queries and    *)
(* tasks.  What was proved of each component apart is used here through an *)
(* instance of its proofs; what has to be shown is that the runtime calls  *)
(* the components only as each of them expects of its environment.         *)
(***************************************************************************)
EXTENDS ServerRuntime, TLAPS

DP == INSTANCE DispatcherProofs
       WITH Producers <- {"main", "scheduler", "database"}, DispatcherThread <- "dispatcher",
            Tasks <- GameTasks, Timed <- Packets, NoTask <- Nothing,
            threadState <- dState, taskList <- dList, pc <- dPc, task <- dTask,
            call <- dCall, fate <- dFate

SP == INSTANCE SchedulerProofs
       WITH Callers <- {"dispatcher"}, DispatcherThread <- "dispatcher", NoEvent <- Nothing,
            threadState <- sState, accepting <- dState = "RUNNING", eventList <- sList,
            eventIds <- sIds, lastEventId <- sLast, wrapped <- sWrapped, cycle <- sCycle,
            eventId <- sId, pc <- sPc, deadline <- sDeadline, task <- sTask, call <- sCall,
            arg <- sArg, known <- sKnown, stopped <- sStopped, fate <- sFate

BP == INSTANCE DatabaseProofs
       WITH Producers <- {}, DispatcherThread <- "dispatcher", DbThread <- "database",
            WithCallback <- DOMAIN CallbackOf, MaxFlushes <- 1, NoQuery <- Nothing,
            threadState <- bState, accepting <- dState = "RUNNING", tasks <- bTasks,
            pc <- bPc, task <- bTask, call <- bCall, closing <- bClosing, flushes <- bFlushes

-----------------------------------------------------------------------------
(* What the components assume of their constants holds of the server's.    *)
LEMMA DispatcherConstants ==
  /\ Packets \subseteq GameTasks
  /\ ShutdownTask \notin GameTasks /\ Terminate \notin GameTasks /\ ShutdownTask # Terminate
  /\ Nothing \notin GameTasks \union {ShutdownTask, Terminate}
  /\ "dispatcher" \notin {"main", "scheduler", "database"}
  BY RuntimeAssumption DEF GameTasks

LEMMA SchedulerConstants ==
  /\ "dispatcher" \in {"dispatcher"}
  /\ Nothing \notin Events
  /\ DueTimes \subseteq 0 .. MaxTime
  /\ MaxEventId \in Nat \ {0}
  /\ MaxTime \in Nat
  BY RuntimeAssumption

LEMMA DatabaseConstants ==
  /\ DOMAIN CallbackOf \subseteq Queries
  /\ "dispatcher" \notin {}
  /\ "database" \notin {} \union {"dispatcher"}
  /\ Nothing \notin Queries
  /\ 1 \in Nat
  BY RuntimeAssumption

(* The dispatcher of the runtime is the one its proofs are about ...       *)
LEMMA DispatcherSame ==
  /\ D!Init <=> DP!Init
  /\ D!Next <=> DP!Next
  <1>1. D!Init <=> DP!Init
    BY DEF
      D!Init, D!Callers, D!AllTasks, DP!Init, DP!Callers, DP!AllTasks
  <1>2. D!Next <=> DP!Next
    BY DEF
      D!Next, D!ThreadStep, D!LoopTest, D!Wait, D!Take, D!NothingToTake,
      D!Expire, D!Execute, D!Finish, D!Stop, D!Shutdown, D!RunTerminate,
      D!SpuriousWakeup, D!RequestShutdown, D!AddTask, D!Callers, D!Notify,
      D!Post, D!Terminated, D!vars, DP!Next, DP!ThreadStep, DP!LoopTest,
      DP!Wait, DP!Take, DP!NothingToTake, DP!Expire, DP!Execute, DP!Finish,
      DP!Stop, DP!Shutdown, DP!RunTerminate, DP!SpuriousWakeup,
      DP!RequestShutdown, DP!AddTask, DP!Callers, DP!Notify, DP!Post,
      DP!Terminated, DP!vars
  <1>3. QED BY <1>1, <1>2

LEMMA DispatcherSameState ==
  /\ D!vars = DP!vars
  /\ D!Inv <=> DP!Inv
  <1>1. D!vars = DP!vars
    BY DEF D!vars, DP!vars
  <1>2. D!Inv <=> DP!Inv
    BY DEF
      D!Inv, D!TypeOK, D!NoLostWakeup, D!OneOwner, D!NothingStranded,
      D!ShutdownProtocol, D!InList, D!Callers, D!AllTasks, D!ThreadStates,
      D!PCs, D!Fates, DP!Inv, DP!TypeOK, DP!NoLostWakeup, DP!OneOwner,
      DP!NothingStranded, DP!ShutdownProtocol, DP!InList, DP!Callers,
      DP!AllTasks, DP!ThreadStates, DP!PCs, DP!Fates
  <1>3. QED BY <1>1, <1>2

(* ... and so are the scheduler and the database thread.                   *)
LEMMA SchedulerSame ==
  /\ S!Init <=> SP!Init
  /\ S!Next <=> SP!Next
  <1>1. S!Init <=> SP!Init
    BY DEF
      S!Init, S!Ids, SP!Init, SP!Ids
  <1>2. S!Next <=> SP!Next
    BY DEF
      S!Next, S!ThreadStep, S!LoopTest, S!Wait, S!Timeout, S!NothingDue,
      S!PopStopped, S!PopDue, S!PostToDispatcher, S!Top, S!WokenUp,
      S!SpuriousWakeup, S!CallerStep, S!Notify, S!ReturnId, S!AddEvent,
      S!NextEventId, S!StopEvent, S!RunEvent, S!Stop, S!StopDispatcher,
      S!Shutdown, S!ClearEvents, S!Tick, S!Finished, S!vars, S!queue,
      S!thread, S!caller, S!Ids, SP!Next, SP!ThreadStep, SP!LoopTest,
      SP!Wait, SP!Timeout, SP!NothingDue, SP!PopStopped, SP!PopDue,
      SP!PostToDispatcher, SP!Top, SP!WokenUp, SP!SpuriousWakeup,
      SP!CallerStep, SP!Notify, SP!ReturnId, SP!AddEvent, SP!NextEventId,
      SP!StopEvent, SP!RunEvent, SP!Stop, SP!StopDispatcher, SP!Shutdown,
      SP!ClearEvents, SP!Tick, SP!Finished, SP!vars, SP!queue, SP!thread,
      SP!caller, SP!Ids
  <1>3. QED BY <1>1, <1>2

LEMMA SchedulerSameState ==
  /\ S!vars = SP!vars
  /\ S!Inv <=> SP!Inv
  <1>1. S!vars = SP!vars
    BY DEF S!vars, SP!vars
  <1>2. S!Inv <=> SP!Inv
    BY DEF
      S!Inv, S!TypeOK, S!NeverEarly, S!NoOversleep, S!DueTop, S!Ownership,
      S!UniqueIds, S!AddingEvent, S!Ids, S!PCs, S!Calls, S!Fates, SP!Inv,
      SP!TypeOK, SP!NeverEarly, SP!NoOversleep, SP!DueTop, SP!Ownership,
      SP!UniqueIds, SP!AddingEvent, SP!Ids, SP!PCs, SP!Calls, SP!Fates
  <1>3. QED BY <1>1, <1>2

LEMMA DatabaseSame ==
  /\ B!Init <=> BP!Init
  /\ B!Next <=> BP!Next
  <1>1. B!Init <=> BP!Init
    BY DEF
      B!Init, B!Workers, B!Callers, BP!Init, BP!Workers, BP!Callers
  <1>2. B!Next <=> BP!Next
    BY DEF
      B!Next, B!DbStep, B!LoopTest, B!Wait, B!Take, B!NothingToTake,
      B!PopFront, B!Execute, B!Callback, B!SpuriousWakeup, B!DispatcherStep,
      B!FlushTake, B!EndFlush, B!SignalEnd, B!Callers, B!Notify, B!AddTask,
      B!PushTask, B!BeginFlush, B!DispatcherIdle, B!ToSet, B!Stop, B!StopDispatcher,
      B!Shutdown, B!Finished, B!vars, BP!Next, BP!DbStep, BP!LoopTest,
      BP!Wait, BP!Take, BP!NothingToTake, BP!PopFront, BP!Execute,
      BP!Callback, BP!SpuriousWakeup, BP!DispatcherStep, BP!FlushTake,
      BP!EndFlush, BP!SignalEnd, BP!Callers, BP!Notify, BP!AddTask,
      BP!PushTask, BP!BeginFlush, BP!DispatcherIdle, BP!ToSet, BP!Stop,
      BP!StopDispatcher, BP!Shutdown, BP!Finished, BP!vars
  <1>3. QED BY <1>1, <1>2

(* The invariants of the components, as lemmas about the runtime's.        *)
LEMMA DispatcherInit == D!Init => D!Inv
  <1>1. DP!Init => DP!Inv
    BY DispatcherConstants, DP!InvInit
  <1>2. QED BY <1>1, DispatcherSame, DispatcherSameState

LEMMA DispatcherNext == D!Inv /\ [D!Next]_(D!vars) => D!Inv'
  <1>1. DP!Inv /\ [DP!Next]_(DP!vars) => DP!Inv'
    BY DispatcherConstants, DP!InvNext
  <1>2. (D!Inv <=> DP!Inv)'
    BY DispatcherSameState, PTL
  <1>3. (D!vars = DP!vars)'
    BY DispatcherSameState, PTL
  <1>4. QED BY <1>1, <1>2, <1>3, DispatcherSame, DispatcherSameState

LEMMA SchedulerInit == S!Init => S!Inv
  <1>1. SP!Init => SP!Inv
    BY SchedulerConstants, SP!InvInit
  <1>2. QED BY <1>1, SchedulerSame, SchedulerSameState

LEMMA SchedulerNext == S!Inv /\ [S!Next]_(S!vars) => S!Inv'
  <1>1. SP!Inv /\ [SP!Next]_(SP!vars) => SP!Inv'
    BY SchedulerConstants, SP!InvNext
  <1>2. (S!Inv <=> SP!Inv)'
    BY SchedulerSameState, PTL
  <1>3. (S!vars = SP!vars)'
    BY SchedulerSameState, PTL
  <1>4. QED BY <1>1, <1>2, <1>3, SchedulerSame, SchedulerSameState

LEMMA DatabaseInit == B!Init => BP!Inv
  <1>1. BP!Init => BP!Inv
    BY DatabaseConstants, BP!InvInit
  <1>2. QED BY <1>1, DatabaseSame

LEMMA DatabaseNext == BP!Inv /\ [B!Next]_(B!vars) => BP!Inv'
  <1>1. BP!Inv /\ [BP!Next]_(BP!vars) => BP!Inv'
    BY DatabaseConstants, BP!InvNext
  <1>2. B!vars = BP!vars /\ (B!vars = BP!vars)'
    BY DEF B!vars, BP!vars
  <1>3. QED BY <1>1, <1>2, DatabaseSame

(* addTask keeps the dispatcher's invariant whoever calls it.              *)
LEMMA DispatcherAddTask ==
  ASSUME D!Inv, NEW c \in D!Callers, NEW t \in GameTasks, NEW front \in BOOLEAN,
         D!AddTask(c, t, front), UNCHANGED <<dState, dPc, dTask>>
  PROVE  D!Inv'
  <1>1. DP!Inv /\ DP!AddTask(c, t, front) /\ c \in DP!Callers
    BY DispatcherSameState DEF D!AddTask, DP!AddTask, D!Callers, DP!Callers
  <1>2. DP!Inv'
    BY <1>1, DispatcherConstants, DP!AddTaskInv
  <1>3. (D!Inv <=> DP!Inv)'
    BY DispatcherSameState, PTL
  <1>4. QED BY <1>2, <1>3

-----------------------------------------------------------------------------
(* How the components are kept in step.                                    *)

(* setGameState and Game::shutdown take them down in order, each call made *)
(* by a task that is in no other.  Whoever flushes the queries is such a   *)
(* task, and the dispatcher is given its last task when the database       *)
(* thread has been shut down.                                              *)
ShutdownPhase ==
    /\ dFate[ShutdownTask] = "new" => sState = "RUNNING" /\ bState = "RUNNING"
    /\ dPc = "stopping" =>
          /\ sCall["dispatcher"] = "none"
          /\ bPc["dispatcher"] = "idle" /\ bCall["dispatcher"] = "none"
          /\ sState # "TERMINATED" /\ bState # "TERMINATED"
          /\ sState = "RUNNING" => bState = "RUNNING"
    /\ bPc["dispatcher"] # "idle" => dPc = "run" /\ dTask \in GameTasks \union {ShutdownTask}
    /\ dFate[Terminate] # "new" => bState = "TERMINATED"

(* What main has waited for.                                               *)
JoinPhase ==
    /\ mainPc \in {"joinDatabase", "joinDispatcher", "exited"} => sPc = "done"
    /\ mainPc \in {"joinDispatcher", "exited"} => bPc["database"] = "done"
    /\ mainPc = "exited" => dPc = "done"

(* The inductive invariant of the runtime.                                 *)
RuntimeInv == D!Inv /\ S!Inv /\ BP!Inv /\ ShutdownPhase /\ JoinPhase

(* The dispatcher makes a step of its own or somebody calls its addTask.   *)
(* The second is more than its specification lets a task do: the flush in  *)
(* DatabaseTasks::shutdown posts callbacks from within Game::shutdown.     *)
DispatcherMoves ==
    \/ [D!Next]_(D!vars)
    \/ \E c \in D!Callers, t \in GameTasks, front \in BOOLEAN :
          D!AddTask(c, t, front) /\ UNCHANGED <<dState, dPc, dTask>>

(* Every step of the runtime is one that each component allows, although   *)
(* accepting, which belongs to the environment of two of them, is the      *)
(* state of the third.                                                     *)
Allowed == DispatcherMoves /\ [S!Next]_(S!vars) /\ [B!Next]_(B!vars)

LEMMA Untouched ==
  /\ UNCHANGED dVars => DispatcherMoves
  /\ UNCHANGED <<dState, sVars>> => UNCHANGED S!vars
  /\ UNCHANGED <<dState, bVars>> => UNCHANGED B!vars
  <1>1. UNCHANGED dVars => DispatcherMoves
    BY DEF dVars, D!vars, DispatcherMoves
  <1>2. UNCHANGED <<dState, sVars>> => UNCHANGED S!vars
    BY DEF sVars, S!vars
  <1>3. UNCHANGED <<dState, bVars>> => UNCHANGED B!vars
    BY DEF bVars, B!vars
  <1>4. QED BY <1>1, <1>2, <1>3

(* A step of the scheduler alone, of the database thread alone, and of the *)
(* dispatcher alone.                                                       *)
LEMMA SchedulerAlone ==
  ASSUME UNCHANGED <<dVars, bVars>>, S!Next PROVE Allowed
  BY Untouched DEF Allowed, dVars

LEMMA DatabaseAlone ==
  ASSUME UNCHANGED <<dVars, sVars>>, B!Next PROVE Allowed
  BY Untouched DEF Allowed, dVars

LEMMA DispatcherAlone ==
  ASSUME UNCHANGED <<sVars, bVars>>, D!Next, (dState = "RUNNING") = (dState' = "RUNNING")
  PROVE  Allowed
  <1>1. UNCHANGED S!vars /\ UNCHANGED B!vars
    BY DEF sVars, bVars, S!vars, B!vars
  <1>2. QED BY <1>1 DEF Allowed, DispatcherMoves

LEMMA SchedulerSteps ==
  ASSUME \/ \E e \in Events : StopEvent(e) \/ \E due \in DueTimes : AddEvent(e, due)
         \/ StopScheduler \/ ShutdownScheduler \/ ClearEvents \/ CallReturns
         \/ SchedulerLoop \/ Tick
         \/ UNCHANGED <<dVars, bVars, gameState, mainPc>> /\ S!SpuriousWakeup
  PROVE  UNCHANGED <<dVars, bVars>> /\ S!Next
  BY DEF StopEvent, AddEvent, StopScheduler, ShutdownScheduler, ClearEvents, CallReturns,
         SchedulerLoop, Tick, S!Next, S!ThreadStep

LEMMA DatabaseSteps ==
  ASSUME \/ \E q \in Queries : AddQuery(q)
         \/ SetGameStateShutdown \/ StopDatabase \/ ShutdownDatabase \/ QueryNotify
         \/ FlushStep \/ DatabaseLoop
         \/ UNCHANGED <<dVars, sVars, gameState, mainPc>> /\ B!SpuriousWakeup
  PROVE  UNCHANGED <<dVars, sVars>> /\ B!Next
  BY DEF AddQuery, SetGameStateShutdown, StopDatabase, ShutdownDatabase, QueryNotify,
         FlushStep, DatabaseLoop, B!Next, B!DbStep, B!DispatcherStep, B!Callers

LEMMA DispatcherSteps ==
  ASSUME RuntimeInv,
         \/ PostShutdownTask \/ ShutdownDispatcher \/ DispatcherLoop
         \/ \E c \in D!Callers : DispatcherNotify(c)
         \/ \E t \in Signals \union Packets : MainPosts(t)
         \/ UNCHANGED <<sVars, bVars, gameState, mainPc>> /\ D!SpuriousWakeup
  PROVE  Allowed
  <1>1. UNCHANGED <<sVars, bVars>>
    BY DEF PostShutdownTask, ShutdownDispatcher, DispatcherLoop, DispatcherNotify, MainPosts
  <1>2. D!Next
    BY DEF PostShutdownTask, ShutdownDispatcher, DispatcherLoop, DispatcherNotify, MainPosts,
           D!Next, D!ThreadStep, D!Callers, GameTasks
  <1>3. (dState = "RUNNING") = (dState' = "RUNNING")
    <2>1. CASE D!RunTerminate
      <3>1. dFate[Terminate] = "running"
        BY <2>1 DEF RuntimeInv, D!Inv, D!OneOwner, D!RunTerminate, D!AllTasks
      <3>2. dState # "RUNNING" /\ dState' = "TERMINATED"
        BY <2>1, <3>1 DEF RuntimeInv, D!Inv, D!ShutdownProtocol, D!RunTerminate
      <3>3. QED BY <3>2
    <2>2. CASE dState' = dState
      BY <2>2
    <2>3. D!RunTerminate \/ dState' = dState
      BY DEF PostShutdownTask, ShutdownDispatcher, DispatcherLoop, DispatcherNotify, MainPosts,
             D!RequestShutdown, D!Shutdown, D!LoopTest, D!Wait, D!Take, D!NothingToTake,
             D!Expire, D!Execute, D!Notify, D!Post, D!SpuriousWakeup
    <2>4. QED BY <2>1, <2>2, <2>3
  <1>4. QED BY <1>1, <1>2, <1>3, DispatcherAlone

(* Dispatcher::stop is what the scheduler and the database thread see as   *)
(* the end of accepting, and both have been stopped before.                *)
LEMMA StopDispatcherAllowed ==
  ASSUME RuntimeInv, StopDispatcher
  PROVE  Allowed
  <1>1. D!Stop /\ bState # "RUNNING" /\ UNCHANGED <<sVars, bVars>>
    BY DEF StopDispatcher
  <1>2. dPc = "stopping" /\ dState' = "CLOSING"
    BY <1>1 DEF D!Stop
  <1>3. dState = "RUNNING"
    BY <1>2 DEF RuntimeInv, D!Inv, D!ShutdownProtocol
  <1>4. sState = "CLOSING" /\ bState = "CLOSING"
    <2>1. sState \in {"RUNNING", "CLOSING", "TERMINATED"}
      BY DEF RuntimeInv, S!Inv, S!TypeOK
    <2>2. bState \in {"RUNNING", "CLOSING", "TERMINATED"}
      BY DEF RuntimeInv, BP!Inv, BP!TypeOK
    <2>3. QED BY <1>1, <1>2, <2>1, <2>2 DEF RuntimeInv, ShutdownPhase
  <1>5. sCall["dispatcher"] = "none" /\ bPc["dispatcher"] = "idle" /\ bCall["dispatcher"] = "none"
    BY <1>2 DEF RuntimeInv, ShutdownPhase
  <1>6. S!StopDispatcher
    BY <1>1, <1>2, <1>3, <1>4, <1>5
    DEF S!StopDispatcher, sVars, S!queue, S!thread, S!caller
  <1>7. B!StopDispatcher
    BY <1>1, <1>2, <1>3, <1>4, <1>5
    DEF B!StopDispatcher, B!DispatcherIdle, bVars
  <1>8. QED BY <1>1, <1>6, <1>7 DEF Allowed, DispatcherMoves, S!Next, B!Next, D!Next, D!ThreadStep

(* A task returns; an event's task is deleted for the scheduler too.       *)
LEMMA FinishTaskAllowed ==
  ASSUME RuntimeInv, FinishTask
  PROVE  Allowed
  <1>1. D!Finish /\ UNCHANGED bVars
    BY DEF FinishTask
  <1>2. dState' = dState
    BY <1>1 DEF D!Finish
  <1>3. [S!Next]_(S!vars)
    <2>1. CASE dTask \in Events
      BY <2>1 DEF FinishTask, S!Next
    <2>2. CASE dTask \notin Events
      BY <1>2, <2>2, Untouched DEF FinishTask
    <2>3. QED BY <2>1, <2>2
  <1>4. [B!Next]_(B!vars)
    BY <1>1, <1>2, Untouched
  <1>5. QED BY <1>1, <1>3, <1>4 DEF Allowed, DispatcherMoves, D!Next, D!ThreadStep

(* The scheduler hands an event over.                                      *)
LEMMA HandOverAllowed ==
  ASSUME RuntimeInv, HandOver
  PROVE  Allowed
  <1>1. /\ D!AddTask("scheduler", sTask, TRUE) /\ UNCHANGED <<dState, dPc, dTask>>
        /\ S!PostToDispatcher /\ UNCHANGED bVars /\ sPc = "post"
    BY DEF HandOver
  <1>2. sTask \in GameTasks
    BY <1>1 DEF RuntimeInv, S!Inv, S!TypeOK, S!Ownership, GameTasks
  <1>3. "scheduler" \in D!Callers
    BY DEF D!Callers
  <1>4. DispatcherMoves
    BY <1>1, <1>2, <1>3 DEF DispatcherMoves
  <1>5. QED BY <1>1, <1>4, Untouched DEF Allowed, S!Next, S!ThreadStep

(* A callback is posted, by either thread.                                 *)
LEMMA PostCallbackAllowed ==
  ASSUME RuntimeInv, NEW w \in {"dispatcher", "database"}, PostCallback(w)
  PROVE  Allowed
  <1>1. B!Callback(w) /\ UNCHANGED sVars
    BY DEF PostCallback
  <1>2. DispatcherMoves /\ dState' = dState
    <2>1. CASE bTask[w] \in DOMAIN CallbackOf
      <3>1. D!AddTask(w, CallbackOf[bTask[w]], FALSE) /\ UNCHANGED <<dState, dPc, dTask>>
        BY <2>1 DEF PostCallback
      <3>2. CallbackOf[bTask[w]] \in GameTasks /\ w \in D!Callers
        BY <2>1, RuntimeAssumption DEF GameTasks, D!Callers
      <3>3. QED BY <3>1, <3>2 DEF DispatcherMoves
    <2>2. CASE bTask[w] \notin DOMAIN CallbackOf
      BY <2>2, Untouched DEF PostCallback, dVars
    <2>3. QED BY <2>1, <2>2
  <1>3. B!Next
    BY <1>1 DEF B!Next, B!DbStep, B!DispatcherStep
  <1>4. QED BY <1>1, <1>2, <1>3, Untouched DEF Allowed

LEMMA NextAllowed ==
  ASSUME RuntimeInv, [Next]_vars
  PROVE  Allowed
  <1>1. CASE UNCHANGED <<dVars, sVars, bVars>>
    BY <1>1, Untouched DEF Allowed, dVars
  <1>2. CASE DispatcherThread
    BY <1>2, SchedulerSteps, SchedulerAlone, DatabaseSteps, DatabaseAlone, DispatcherSteps,
       StopDispatcherAllowed, FinishTaskAllowed, PostCallbackAllowed, <1>1
    DEF DispatcherThread, InsideShutdown, StopServices, D!Callers
  <1>3. CASE SchedulerThread
    BY <1>3, SchedulerSteps, SchedulerAlone, DispatcherSteps, HandOverAllowed
    DEF SchedulerThread, D!Callers
  <1>4. CASE DatabaseThread
    BY <1>4, DatabaseSteps, DatabaseAlone, DispatcherSteps, PostCallbackAllowed
    DEF DatabaseThread, D!Callers
  <1>5. CASE MainThread
    BY <1>1, <1>5, DispatcherSteps DEF MainThread, MainStep, D!Callers
  <1>6. CASE SpuriousWakeup
    BY <1>6, SchedulerSteps, SchedulerAlone, DatabaseSteps, DatabaseAlone, DispatcherSteps
    DEF SpuriousWakeup
  <1>7. CASE \/ \E t \in Signals \union Packets : MainPosts(t)
             \/ \E e \in Events : StopEvent(e) \/ \E due \in DueTimes : AddEvent(e, due)
             \/ \E q \in Queries : AddQuery(q)
             \/ Tick
    BY <1>7, SchedulerSteps, SchedulerAlone, DatabaseSteps, DatabaseAlone, DispatcherSteps
  <1>8. CASE Exited \/ UNCHANGED vars
    BY <1>1, <1>8 DEF Exited, vars
  <1>9. QED BY <1>2, <1>3, <1>4, <1>5, <1>6, <1>7, <1>8 DEF Next

-----------------------------------------------------------------------------
(* The order in which the components are taken down.                       *)

(* A thread that has left its loop does not come back to it.               *)
LEMMA DoneStays ==
  ASSUME RuntimeInv, [Next]_vars
  PROVE  /\ sPc = "done" => sPc' = "done"
         /\ bPc["database"] = "done" => bPc'["database"] = "done"
         /\ dPc = "done" => dPc' = "done"
  <1>1. Allowed
    BY NextAllowed
  <1>2. sPc = "done" => sPc' = "done"
    BY <1>1
    DEF Allowed, S!Next, S!vars, S!ThreadStep, S!LoopTest, S!Wait, S!Timeout, S!NothingDue,
        S!PopStopped, S!PopDue, S!PostToDispatcher, S!SpuriousWakeup, S!CallerStep, S!Notify,
        S!ReturnId, S!AddEvent, S!StopEvent, S!RunEvent, S!Stop, S!StopDispatcher, S!Shutdown,
        S!ClearEvents, S!Tick, S!Finished, S!thread
  <1>3. bPc["database"] = "done" => bPc'["database"] = "done"
    <2> SUFFICES ASSUME bPc["database"] = "done" PROVE bPc'["database"] = "done"
      OBVIOUS
    <2>1. DOMAIN bPc = {"database", "dispatcher"}
      BY DEF RuntimeInv, BP!Inv, BP!TypeOK, BP!Workers
    <2>2. CASE UNCHANGED B!vars
      BY <2>2 DEF B!vars
    <2>3. CASE B!DbStep \/ B!SpuriousWakeup
      BY <2>3 DEF B!DbStep, B!SpuriousWakeup, B!LoopTest, B!Wait, B!Take, B!NothingToTake,
                  B!Execute, B!Callback
    <2>4. CASE B!DispatcherStep \/ B!BeginFlush \/ B!Shutdown
      BY <2>1, <2>4 DEF B!DispatcherStep, B!FlushTake, B!PopFront, B!EndFlush, B!SignalEnd,
                        B!Execute, B!Callback, B!BeginFlush, B!Shutdown
    <2>5. CASE \E c \in B!Callers : B!Notify(c) \/ \E q \in Queries : B!AddTask(c, q)
      BY <2>1, <2>5 DEF B!Notify, B!AddTask, B!PushTask
    <2>6. CASE B!Stop \/ B!StopDispatcher \/ B!Finished
      BY <2>6 DEF B!Stop, B!StopDispatcher, B!Finished, B!vars
    <2>7. QED BY <1>1, <2>2, <2>3, <2>4, <2>5, <2>6 DEF Allowed, B!Next
  <1>4. dPc = "done" => dPc' = "done"
    BY <1>1
    DEF Allowed, DispatcherMoves, D!Next, D!vars, D!ThreadStep, D!LoopTest, D!Wait, D!Take,
        D!NothingToTake, D!Expire, D!Execute, D!Finish, D!Stop, D!Shutdown, D!RunTerminate,
        D!SpuriousWakeup, D!RequestShutdown, D!Notify, D!Post, D!Terminated
  <1>5. QED BY <1>2, <1>3, <1>4

LEMMA JoinPhaseNext ==
  ASSUME RuntimeInv, [Next]_vars
  PROVE  JoinPhase'
  <1>1. MainStep \/ StopServices \/ mainPc' = mainPc
    BY DEF Next, vars, DispatcherThread, SchedulerThread, DatabaseThread, MainThread,
           InsideShutdown, SpuriousWakeup, MainPosts, StopEvent, AddEvent, AddQuery, Tick,
           Exited, FinishTask, DispatcherLoop, DispatcherNotify, CallReturns, QueryNotify,
           FlushStep, PostCallback, SetGameStateShutdown, PostShutdownTask, StopScheduler,
           StopDatabase, StopDispatcher, ShutdownScheduler, ClearEvents, ShutdownDatabase,
           ShutdownDispatcher, SchedulerLoop, HandOver, DatabaseLoop
  <1>2. CASE MainStep
    BY <1>2, DoneStays DEF MainStep, RuntimeInv, JoinPhase, dVars, sVars, bVars
  <1>3. CASE StopServices \/ mainPc' = mainPc
    BY <1>3, DoneStays DEF StopServices, RuntimeInv, JoinPhase
  <1>4. QED BY <1>1, <1>2, <1>3

(* What the dispatcher's steps outside of the shutdown leave alone: neither*)
(* of the two last tasks is posted, no task begins or stops to stop the    *)
(* components, and a task that is running goes on.                         *)
DispatcherQuiet ==
    /\ dFate'[ShutdownTask] = "new" => dFate[ShutdownTask] = "new"
    /\ dFate'[Terminate] # "new" => dFate[Terminate] # "new"
    /\ dPc' = "stopping" => dPc = "stopping"
    /\ dPc = "run" /\ dTask # Terminate => dPc' = "run" /\ dTask' = dTask

LEMMA QuietKeepsPhase ==
  ASSUME RuntimeInv, DispatcherQuiet, UNCHANGED <<sState, sCall, bState, bCall>>,
         bPc'["dispatcher"] # "idle" => bPc["dispatcher"] # "idle"
  PROVE  ShutdownPhase'
  <1>1. Terminate \notin GameTasks \union {ShutdownTask}
    BY DispatcherConstants
  <1>2. QED BY <1>1 DEF RuntimeInv, ShutdownPhase, DispatcherQuiet

LEMMA LoopQuiet ==
  ASSUME RuntimeInv, DispatcherLoop
  PROVE  DispatcherQuiet
  <1>1. /\ dFate \in [D!AllTasks -> D!Fates]
        /\ dList \in Seq(D!AllTasks)
        /\ ShutdownTask \in D!AllTasks /\ Terminate \in D!AllTasks
    BY DEF RuntimeInv, D!Inv, D!TypeOK, D!AllTasks
  <1>2. CASE D!LoopTest \/ D!Wait \/ D!NothingToTake \/ D!Execute
    BY <1>2 DEF DispatcherQuiet, D!LoopTest, D!Wait, D!NothingToTake, D!Execute
  <1>3. CASE D!Take
    <2>1. dList # <<>> /\ dFate' = [dFate EXCEPT ![Head(dList)] = "running"] /\ dPc' = "check"
          /\ dPc # "run"
      BY <1>3 DEF D!Take
    <2>2. Head(dList) = dList[1] /\ 1 \in DOMAIN dList
      BY <1>1, <2>1
    <2>3. Head(dList) = Terminate => dFate[Terminate] = "queued"
      BY <1>1, <2>2 DEF RuntimeInv, D!Inv, D!OneOwner, D!InList
    <2>4. QED BY <1>1, <2>1, <2>3 DEF DispatcherQuiet
  <1>4. CASE D!Expire
    <2>1. dTask \in Packets
      BY <1>4 DEF D!Expire
    <2>2. dTask # Terminate
      BY <2>1, DispatcherConstants
    <2>3. QED BY <1>1, <1>4, <2>2 DEF D!Expire, DispatcherQuiet
  <1>5. CASE D!RunTerminate
    <2>1. dTask = Terminate
      BY <1>5 DEF D!RunTerminate
    <2>2. dFate[Terminate] = "running"
      BY <1>1, <2>1 DEF RuntimeInv, D!Inv, D!OneOwner
    <2>3. QED BY <1>1, <1>5, <2>1, <2>2 DEF D!RunTerminate, DispatcherQuiet
  <1>6. QED BY <1>2, <1>3, <1>4, <1>5 DEF DispatcherLoop

LEMMA NotifyQuiet ==
  ASSUME NEW c, DispatcherNotify(c) \/ D!SpuriousWakeup
  PROVE  DispatcherQuiet
  BY DEF DispatcherNotify, D!Notify, D!SpuriousWakeup, DispatcherQuiet

LEMMA AddTaskQuiet ==
  ASSUME RuntimeInv, NEW c, NEW t \in GameTasks, NEW front, D!AddTask(c, t, front),
         UNCHANGED <<dPc, dTask>>
  PROVE  DispatcherQuiet
  <1>1. dFate \in [D!AllTasks -> D!Fates] /\ t \in D!AllTasks
        /\ ShutdownTask \in D!AllTasks /\ Terminate \in D!AllTasks
    BY DEF RuntimeInv, D!Inv, D!TypeOK, D!AllTasks
  <1>2. t # Terminate /\ t # ShutdownTask
    BY DispatcherConstants
  <1>3. \E f \in {"queued", "deleted"} : dFate' = [dFate EXCEPT ![t] = f]
    BY DEF D!AddTask
  <1>4. QED BY <1>1, <1>2, <1>3 DEF DispatcherQuiet

LEMMA NothingQuiet ==
  ASSUME UNCHANGED dVars PROVE DispatcherQuiet
  BY DEF dVars, DispatcherQuiet

(* Steps that take no part in the shutdown.                                *)
LEMMA QuietPhase ==
  ASSUME RuntimeInv,
         \/ DispatcherLoop \/ HandOver \/ SchedulerLoop \/ DatabaseLoop \/ FlushStep
         \/ Tick \/ SpuriousWakeup
         \/ \E c \in D!Callers : DispatcherNotify(c)
         \/ \E t \in Signals \union Packets : MainPosts(t)
         \/ \E w \in {"dispatcher", "database"} : PostCallback(w)
         \/ \E e \in Events : StopEvent(e)
         \/ UNCHANGED <<dVars, sVars, bVars>>
  PROVE  ShutdownPhase'
  <1>0. DOMAIN bPc = {"database", "dispatcher"}
    BY DEF RuntimeInv, BP!Inv, BP!TypeOK, BP!Workers
  <1>1. CASE DispatcherLoop
    BY <1>1, LoopQuiet, QuietKeepsPhase DEF DispatcherLoop, sVars, bVars
  <1>2. CASE HandOver
    <2>1. sTask \in GameTasks
      BY <1>2 DEF HandOver, RuntimeInv, S!Inv, S!TypeOK, S!Ownership, GameTasks
    <2>2. DispatcherQuiet
      BY <1>2, <2>1, AddTaskQuiet DEF HandOver
    <2>3. QED BY <1>2, <2>2, QuietKeepsPhase
              DEF HandOver, S!PostToDispatcher, S!caller, bVars
  <1>3. CASE SchedulerLoop \/ Tick \/ \E e \in Events : StopEvent(e)
    <2>1. UNCHANGED <<dVars, bVars>> /\ UNCHANGED <<sState, sCall>>
      BY <1>3 DEF SchedulerLoop, Tick, StopEvent, S!LoopTest, S!Wait, S!Timeout,
                  S!NothingDue, S!PopStopped, S!PopDue, S!Tick, S!StopEvent, S!caller
    <2>2. QED BY <2>1, NothingQuiet, QuietKeepsPhase DEF bVars
  <1>4. CASE DatabaseLoop
    <2>1. UNCHANGED <<dVars, sVars>> /\ UNCHANGED <<bState, bCall>>
          /\ bPc'["dispatcher"] = bPc["dispatcher"]
      BY <1>0, <1>4 DEF DatabaseLoop, B!LoopTest, B!Wait, B!Take, B!PopFront,
                        B!NothingToTake, B!Execute
    <2>2. QED BY <2>1, NothingQuiet, QuietKeepsPhase DEF sVars
  <1>5. CASE FlushStep
    <2>1. UNCHANGED <<dVars, sVars>> /\ UNCHANGED <<bState, bCall>>
          /\ bPc["dispatcher"] # "idle"
      BY <1>5 DEF FlushStep, B!FlushTake, B!PopFront, B!EndFlush, B!SignalEnd, B!Execute
    <2>2. QED BY <2>1, NothingQuiet, QuietKeepsPhase DEF sVars
  <1>6. CASE SpuriousWakeup
    <2>1. CASE UNCHANGED <<sVars, bVars, gameState, mainPc>> /\ D!SpuriousWakeup
      BY <2>1, NotifyQuiet, QuietKeepsPhase DEF sVars, bVars
    <2>2. CASE UNCHANGED <<dVars, bVars, gameState, mainPc>> /\ S!SpuriousWakeup
      BY <2>2, NothingQuiet, QuietKeepsPhase DEF bVars, S!SpuriousWakeup, S!caller
    <2>3. CASE UNCHANGED <<dVars, sVars, gameState, mainPc>> /\ B!SpuriousWakeup
      BY <1>0, <2>3, NothingQuiet, QuietKeepsPhase DEF sVars, B!SpuriousWakeup
    <2>4. QED BY <1>6, <2>1, <2>2, <2>3 DEF SpuriousWakeup
  <1>7. CASE \E c \in D!Callers : DispatcherNotify(c)
    BY <1>7, NotifyQuiet, QuietKeepsPhase DEF DispatcherNotify, sVars, bVars
  <1>8. CASE \E t \in Signals \union Packets : MainPosts(t)
    <2>1. PICK t \in GameTasks : D!AddTask("main", t, FALSE) /\ UNCHANGED <<dPc, dTask>>
      BY <1>8 DEF MainPosts, D!Post, GameTasks
    <2>2. DispatcherQuiet
      BY <2>1, AddTaskQuiet
    <2>3. QED BY <1>8, <2>2, QuietKeepsPhase DEF MainPosts, sVars, bVars
  <1>9. ASSUME NEW w \in {"dispatcher", "database"}, PostCallback(w)
        PROVE  ShutdownPhase'
    <2>1. DispatcherQuiet
      <3>1. CASE bTask[w] \in DOMAIN CallbackOf
        <4>1. CallbackOf[bTask[w]] \in GameTasks
          BY <3>1, RuntimeAssumption DEF GameTasks
        <4>2. QED BY <1>9, <3>1, <4>1, AddTaskQuiet DEF PostCallback
      <3>2. CASE bTask[w] \notin DOMAIN CallbackOf
        BY <1>9, <3>2, NothingQuiet DEF PostCallback
      <3>3. QED BY <3>1, <3>2
    <2>2. UNCHANGED sVars /\ UNCHANGED <<bState, bCall>> /\ bPc[w] = "callback"
          /\ (w = "database" => bPc'["dispatcher"] = bPc["dispatcher"])
      BY <1>0, <1>9 DEF PostCallback, B!Callback
    <2>3. QED BY <2>1, <2>2, QuietKeepsPhase DEF sVars
  <1>10. CASE UNCHANGED <<dVars, sVars, bVars>>
    BY <1>10, NothingQuiet, QuietKeepsPhase DEF sVars, bVars
  <1>11. QED BY <1>1, <1>2, <1>3, <1>4, <1>5, <1>6, <1>7, <1>8, <1>9, <1>10

(* Calls that a task makes, and the steps of setGameState and of           *)
(* Game::shutdown.                                                         *)
LEMMA CallPhase ==
  ASSUME RuntimeInv,
         \/ \E e \in Events, due \in DueTimes : AddEvent(e, due)
         \/ \E q \in Queries : AddQuery(q)
         \/ CallReturns \/ ClearEvents \/ QueryNotify \/ SetGameStateShutdown
  PROVE  ShutdownPhase'
  <1>0. DOMAIN bPc = {"database", "dispatcher"}
        /\ bCall \in [{"dispatcher"} -> {"none", "notify"}]
    BY DEF RuntimeInv, BP!Inv, BP!TypeOK, BP!Workers, BP!Callers
  <1> USE DEF RuntimeInv, ShutdownPhase, dVars, sVars, bVars
  <1>1. CASE \E e \in Events, due \in DueTimes : AddEvent(e, due)
    BY <1>1 DEF AddEvent, GameCode, Executing, S!AddEvent
  <1>2. CASE \E q \in Queries : AddQuery(q)
    BY <1>2 DEF AddQuery, GameCode, Executing, B!AddTask, B!PushTask
  <1>3. CASE CallReturns
    BY <1>3 DEF CallReturns, S!CallerStep, S!Notify, S!ReturnId
  <1>4. CASE ClearEvents
    BY <1>4 DEF ClearEvents, S!ClearEvents
  <1>5. CASE QueryNotify
    BY <1>0, <1>5 DEF QueryNotify, B!Notify
  <1>6. CASE SetGameStateShutdown
    BY <1>0, <1>6 DEF SetGameStateShutdown, GameCode, Executing, B!BeginFlush
  <1>7. QED BY <1>1, <1>2, <1>3, <1>4, <1>5, <1>6

LEMMA TakeDownPhase ==
  ASSUME RuntimeInv,
         \/ PostShutdownTask \/ StopScheduler \/ StopDatabase \/ StopDispatcher
         \/ ShutdownScheduler \/ ShutdownDatabase \/ ShutdownDispatcher \/ FinishTask
  PROVE  ShutdownPhase'
  <1>0. /\ DOMAIN bPc = {"database", "dispatcher"}
        /\ dFate \in [D!AllTasks -> D!Fates]
        /\ ShutdownTask \in D!AllTasks /\ Terminate \in D!AllTasks
        /\ ShutdownTask # Terminate
    BY DispatcherConstants
    DEF RuntimeInv, BP!Inv, BP!TypeOK, BP!Workers, D!Inv, D!TypeOK, D!AllTasks
  <1>a. dPc = "stopping" => dFate[ShutdownTask] # "new"
    BY DEF RuntimeInv, D!Inv, D!ShutdownProtocol
  <1>b. dTask = ShutdownTask => dFate[ShutdownTask] # "new"
    BY <1>0 DEF RuntimeInv, D!Inv, D!OneOwner
  <1>c. ShutdownPhase
    BY DEF RuntimeInv
  <1> USE DEF ShutdownPhase, dVars, sVars, bVars
  <1>1. CASE PostShutdownTask
    <2>1. \E f \in {"queued", "deleted"} : dFate' = [dFate EXCEPT ![ShutdownTask] = f]
      BY <1>1 DEF PostShutdownTask, D!RequestShutdown, D!AddTask
    <2>2. dFate[ShutdownTask] = "new"
      BY <1>1 DEF PostShutdownTask, D!RequestShutdown, D!AddTask
    <2>3. dFate'[ShutdownTask] # "new" /\ dFate'[Terminate] = dFate[Terminate]
      BY <1>0, <2>1
    <2>4. QED BY <1>1, <1>c, <2>2, <2>3 DEF PostShutdownTask, Executing
  <1>2. CASE StopScheduler
    BY <1>2, <1>a, <1>c DEF StopScheduler, S!Stop, S!caller
  <1>3. CASE StopDatabase
    BY <1>3, <1>a, <1>c DEF StopDatabase, B!Stop
  <1>4. CASE StopDispatcher
    BY <1>4, <1>c DEF StopDispatcher, D!Stop
  <1>5. CASE ShutdownScheduler
    BY <1>5, <1>b, <1>c DEF ShutdownScheduler, Executing, S!Shutdown
  <1>6. CASE ShutdownDatabase
    BY <1>0, <1>6, <1>b, <1>c DEF ShutdownDatabase, Executing, B!Shutdown
  <1>7. CASE ShutdownDispatcher
    <2>1. dFate' = [dFate EXCEPT ![Terminate] = "queued"]
      BY <1>7 DEF ShutdownDispatcher, D!Shutdown
    <2>2. dFate'[ShutdownTask] = dFate[ShutdownTask]
      BY <1>0, <2>1
    <2>3. QED BY <1>7, <1>c, <2>2 DEF ShutdownDispatcher, Executing, D!Shutdown
  <1>8. CASE FinishTask
    <2>1. dFate' = [dFate EXCEPT ![dTask] = "done"] /\ dTask # Terminate /\ dPc' = "test"
      BY <1>8 DEF FinishTask, D!Finish
    <2>2. dFate'[Terminate] = dFate[Terminate]
          /\ (dFate'[ShutdownTask] = "new" => dFate[ShutdownTask] = "new")
      BY <1>0, <2>1
    <2>3. UNCHANGED <<sState, sCall, bState, bPc>> /\ bPc["dispatcher"] = "idle"
      BY <1>8 DEF FinishTask, Executing, S!RunEvent, S!caller
    <2>4. QED BY <1>c, <2>1, <2>2, <2>3
  <1>9. QED BY <1>1, <1>2, <1>3, <1>4, <1>5, <1>6, <1>7, <1>8

LEMMA ShutdownPhaseNext ==
  ASSUME RuntimeInv, [Next]_vars
  PROVE  ShutdownPhase'
  <1>1. CASE DispatcherThread
    BY <1>1, QuietPhase, CallPhase, TakeDownPhase
    DEF DispatcherThread, InsideShutdown, StopServices, D!Callers
  <1>2. CASE SchedulerThread \/ DatabaseThread \/ MainThread \/ SpuriousWakeup
    BY <1>2, QuietPhase DEF SchedulerThread, DatabaseThread, MainThread, MainStep, D!Callers
  <1>3. CASE \/ \E t \in Signals \union Packets : MainPosts(t)
             \/ \E e \in Events : StopEvent(e) \/ \E due \in DueTimes : AddEvent(e, due)
             \/ \E q \in Queries : AddQuery(q)
             \/ Tick
    BY <1>3, QuietPhase, CallPhase
  <1>4. CASE Exited \/ UNCHANGED vars
    BY <1>4, QuietPhase DEF Exited, vars
  <1>5. QED BY <1>1, <1>2, <1>3, <1>4 DEF Next

-----------------------------------------------------------------------------
LEMMA RuntimeInit == Init => RuntimeInv
  <1> SUFFICES ASSUME Init PROVE RuntimeInv
    OBVIOUS
  <1>1. D!Inv /\ S!Inv /\ BP!Inv
    BY DispatcherInit, SchedulerInit, DatabaseInit DEF Init
  <1>2. ShutdownPhase
    BY DEF Init, ShutdownPhase, D!Init, S!Init, B!Init, B!Workers, D!AllTasks
  <1>3. JoinPhase
    BY DEF Init, JoinPhase
  <1>4. QED BY <1>1, <1>2, <1>3 DEF RuntimeInv

LEMMA RuntimeNext == RuntimeInv /\ [Next]_vars => RuntimeInv'
  <1> SUFFICES ASSUME RuntimeInv, [Next]_vars PROVE RuntimeInv'
    OBVIOUS
  <1>1. Allowed
    BY NextAllowed
  <1>2. D!Inv'
    BY <1>1, DispatcherNext, DispatcherAddTask DEF RuntimeInv, Allowed, DispatcherMoves
  <1>3. S!Inv'
    BY <1>1, SchedulerNext DEF RuntimeInv, Allowed
  <1>4. BP!Inv'
    BY <1>1, DatabaseNext DEF RuntimeInv, Allowed
  <1>5. ShutdownPhase' /\ JoinPhase'
    BY ShutdownPhaseNext, JoinPhaseNext
  <1>6. QED BY <1>2, <1>3, <1>4, <1>5 DEF RuntimeInv

THEOREM RuntimeInvariance == Spec => []RuntimeInv
  BY RuntimeInit, RuntimeNext, PTL DEF Spec

(* Put together, the components keep the invariants that were proved of    *)
(* each of them apart, through every interleaving of the four threads and  *)
(* all through the shutdown.                                               *)
THEOREM ComponentsAlwaysHold == Spec => []ComponentsHold
  <1>1. RuntimeInv => ComponentsHold
    <2> SUFFICES ASSUME RuntimeInv PROVE ComponentsHold
      OBVIOUS
    <2>1. BP!ExactlyOnce
      BY DatabaseConstants, BP!InvExactlyOnce DEF RuntimeInv
    <2>2. B!ExactlyOnce
      BY <2>1 DEF B!ExactlyOnce, BP!ExactlyOnce, B!Workers, BP!Workers, B!InFlight,
                  BP!InFlight, B!Has, BP!Has
    <2>3. B!NothingLeftBehind
      BY DEF RuntimeInv, BP!Inv, BP!NothingLeftBehind, B!NothingLeftBehind
    <2>4. QED BY <2>2, <2>3 DEF RuntimeInv, ComponentsHold
  <1>2. QED BY <1>1, RuntimeInvariance, PTL

(* When the process ends, every thread has left its loop and every query   *)
(* that was accepted is in the database.                                   *)
THEOREM ExitAlwaysClean == Spec => []CleanExit
  <1>1. RuntimeInv => CleanExit
    <2> SUFFICES ASSUME RuntimeInv, mainPc = "exited"
                 PROVE  /\ sPc = "done" /\ bPc["database"] = "done" /\ dPc = "done"
                        /\ \A i \in DOMAIN submitted : B!Has(executed, submitted[i])
      BY DEF CleanExit
    <2>1. sPc = "done" /\ bPc["database"] = "done" /\ dPc = "done"
      BY DEF RuntimeInv, JoinPhase
    <2>2. dFate[Terminate] = "done"
      BY <2>1 DEF RuntimeInv, D!Inv, D!ShutdownProtocol
    <2>3. bState = "TERMINATED" /\ bPc["dispatcher"] = "idle"
      BY <2>1, <2>2 DEF RuntimeInv, ShutdownPhase
    <2>4. bTasks = <<>>
      BY <2>3 DEF RuntimeInv, BP!Inv, BP!NothingLeftBehind
    <2>5. BP!ExactlyOnce
      BY DatabaseConstants, BP!InvExactlyOnce DEF RuntimeInv
    <2>6. ASSUME NEW i \in DOMAIN submitted
          PROVE  B!Has(executed, submitted[i])
      <3> DEFINE q == submitted[i]
      <3>1. ~BP!Has(bTasks, q)
        BY <2>4 DEF BP!Has
      <3>2. {w \in BP!Workers : BP!InFlight(w, q)} = {}
        BY <2>1, <2>3 DEF BP!Workers, BP!InFlight
      <3>3. BP!Has(executed, q)
        BY <2>5, <3>1, <3>2 DEF BP!ExactlyOnce
      <3>4. QED BY <3>3 DEF B!Has, BP!Has
    <2>7. QED BY <2>1, <2>6
  <1>2. QED BY <1>1, RuntimeInvariance, PTL
=============================================================================
