----------------------------- MODULE Scheduler ------------------------------
(***************************************************************************)
(* The scheduler thread: events wait in eventList, ordered by the time     *)
(* they are due, and are handed to the dispatcher when that time comes.    *)
(* eventIds holds the ids of the events that have not been stopped.        *)
(*                                                                         *)
(* As in Dispatcher, a critical section of eventLock is one step; the      *)
(* test of threadState before locking, the notify_one after unlocking and  *)
(* the read of the id that addEvent returns are steps of their own.        *)
(***************************************************************************)
EXTENDS Naturals, FiniteSets

CONSTANTS Callers,          \* threads that call addEvent
          DispatcherThread, \* one of them: it also stops, runs and deletes events
          Events,           \* SchedulerTask objects
          DueTimes,         \* the times events are due
          MaxEventId,       \* largest value of lastEventId (2^32 - 1 in the code)
          MaxTime,          \* bound: nothing is due later and the clock stops
          NoEvent

ASSUME SchedulerAssumption == /\ DispatcherThread \in Callers
                              /\ NoEvent \notin Events
                              /\ DueTimes \subseteq 0 .. MaxTime
                              /\ MaxEventId \in Nat \ {0}
                              /\ MaxTime \in Nat

VARIABLES threadState,  \* ThreadHolder::threadState of the scheduler
          accepting,    \* does g_dispatcher.addTask still accept?
          eventList,    \* the priority queue: events waiting for their time
          eventIds,     \* ids of events that are still wanted
          lastEventId,
          wrapped,      \* has lastEventId overflowed?
          cycle,        \* event -> the time it is due
          eventId,      \* event -> its id, 0 while it has none
          now,          \* the system clock
          pc,           \* where the scheduler thread is in threadMain
          deadline,     \* the argument of its wait_until
          task,         \* the event it has popped, or NoEvent
          call,         \* caller -> the rest of its call of addEvent or shutdown
          arg,          \* caller -> the event it is adding
          known,        \* event -> the id its owner keeps for stopEvent, or 0
          stopped,      \* events for which stopEvent returned true
          fate          \* event -> what has become of the object

vars == <<threadState, accepting, eventList, eventIds, lastEventId, wrapped, cycle,
          eventId, now, pc, deadline, task, call, arg, known, stopped, fate>>

queue  == <<eventList, eventIds, lastEventId, wrapped, cycle, eventId>>
thread == <<pc, deadline, task>>
caller == <<call, arg, known, stopped>>

Ids   == 0 .. MaxEventId
PCs   == {"test", "lock", "wait", "waitUntil", "woken", "timeout", "post", "done"}
Calls == {"none", "notify", "return", "clear", "signal"}
Fates == {"new", "waiting", "posting", "dispatched", "deleted"}

TypeOK == /\ threadState \in {"RUNNING", "CLOSING", "TERMINATED"}
          /\ accepting \in BOOLEAN
          /\ eventList \subseteq Events
          /\ eventIds \subseteq Ids
          /\ lastEventId \in Ids
          /\ wrapped \in BOOLEAN
          /\ cycle \in [Events -> Nat]
          /\ eventId \in [Events -> Ids]
          /\ now \in Nat
          /\ pc \in PCs
          /\ deadline \in Nat
          /\ task \in Events \union {NoEvent}
          /\ call \in [Callers -> Calls]
          /\ arg \in [Callers -> Events \union {NoEvent}]
          /\ known \in [Events -> Ids]
          /\ stopped \subseteq Events
          /\ fate \in [Events -> Fates]

(* No event is left of those that brought lastEventId to where it is.      *)
Init == /\ threadState = "RUNNING"
        /\ accepting = TRUE
        /\ eventList = {}
        /\ eventIds = {}
        /\ lastEventId \in Ids
        /\ wrapped = FALSE
        /\ cycle = [e \in Events |-> 0]
        /\ eventId = [e \in Events |-> 0]
        /\ now = 0
        /\ pc = "test"
        /\ deadline = 0
        /\ task = NoEvent
        /\ call = [c \in Callers |-> "none"]
        /\ arg = [c \in Callers |-> NoEvent]
        /\ known = [e \in Events |-> 0]
        /\ stopped = {}
        /\ fate = [e \in Events |-> "new"]

(* The events the priority queue may have on top.                          *)
Top == {e \in eventList : \A f \in eventList : cycle[e] <= cycle[f]}

-----------------------------------------------------------------------------
(* threadMain.                                                             *)

LoopTest == /\ pc = "test"
            /\ pc' = IF threadState = "TERMINATED" THEN "done" ELSE "lock"
            /\ UNCHANGED <<threadState, accepting, queue, now, deadline, task, caller, fate>>

Wait == /\ pc = "lock"
        /\ \/ /\ eventList = {}
              /\ pc' = "wait"
              /\ UNCHANGED deadline
           \/ \E e \in Top : /\ pc' = "waitUntil"
                             /\ deadline' = cycle[e]
        /\ UNCHANGED <<threadState, accepting, queue, now, task, caller, fate>>

(* Variant: whatever ended wait_until is taken for a timeout.              *)
WokenUpIsTimeout == IF pc = "waitUntil" THEN "timeout" ELSE "woken"

(* Where the thread is when its wait ends: wait_until returns              *)
(* cv_status::timeout if and only if the time has come, whatever woke it.  *)
WokenUp == IF pc = "waitUntil" /\ now >= deadline THEN "timeout" ELSE "woken"

(* wait and wait_until may return although nobody notified.                *)
SpuriousWakeup == /\ pc \in {"wait", "waitUntil"}
                  /\ pc' = WokenUp
                  /\ UNCHANGED <<threadState, accepting, queue, now, deadline, task, caller, fate>>

(* The time has come.  The lock is taken again in a later step, and other  *)
(* threads may add events before.                                          *)
Timeout == /\ pc = "waitUntil"
           /\ now >= deadline
           /\ pc' = "timeout"
           /\ UNCHANGED <<threadState, accepting, queue, now, deadline, task, caller, fate>>

NothingDue == /\ \/ pc = "woken"
                 \/ pc = "timeout" /\ eventList = {}
              /\ pc' = "test"
              /\ UNCHANGED <<threadState, accepting, queue, now, deadline, task, caller, fate>>

(* After a timeout the top is popped without another look at the clock.    *)
PopStopped == /\ pc = "timeout"
              /\ \E e \in Top :
                   /\ eventId[e] \notin eventIds
                   /\ eventList' = eventList \ {e}
                   /\ fate' = [fate EXCEPT ![e] = "deleted"]
              /\ pc' = "test"
              /\ UNCHANGED <<threadState, accepting, eventIds, lastEventId, wrapped, cycle,
                             eventId, now, deadline, task, caller>>

(* Variant: eventIds is not consulted.                                     *)
PopDueEvenStopped == /\ pc = "timeout"
                     /\ \E e \in Top :
                          /\ eventList' = eventList \ {e}
                          /\ eventIds' = eventIds \ {eventId[e]}
                          /\ fate' = [fate EXCEPT ![e] = "posting"]
                          /\ task' = e
                     /\ pc' = "post"
                     /\ UNCHANGED <<threadState, accepting, lastEventId, wrapped, cycle,
                                    eventId, now, deadline, caller>>

PopDue == /\ pc = "timeout"
          /\ \E e \in Top :
               /\ eventId[e] \in eventIds
               /\ eventList' = eventList \ {e}
               /\ eventIds' = eventIds \ {eventId[e]}
               /\ fate' = [fate EXCEPT ![e] = "posting"]
               /\ task' = e
          /\ pc' = "post"
          /\ UNCHANGED <<threadState, accepting, lastEventId, wrapped, cycle, eventId,
                         now, deadline, caller>>

(* g_dispatcher.addTask(task, true): a dispatcher that is closing deletes  *)
(* the event.                                                              *)
PostToDispatcher ==
    /\ pc = "post"
    /\ fate' = [fate EXCEPT ![task] = IF accepting THEN "dispatched" ELSE "deleted"]
    /\ task' = NoEvent
    /\ pc' = "test"
    /\ UNCHANGED <<threadState, accepting, queue, now, deadline, caller>>

ThreadStep == \/ LoopTest \/ Wait \/ Timeout \/ NothingDue
              \/ PopStopped \/ PopDue \/ PostToDispatcher

-----------------------------------------------------------------------------
(* addEvent.                                                               *)

(* Variant: 0 is handed out after an overflow.                             *)
NextEventIdMaybeZero == (lastEventId + 1) % (MaxEventId + 1)

(* ++lastEventId on an unsigned integer, skipping 0.                       *)
NextEventId == IF lastEventId = MaxEventId THEN 1 ELSE lastEventId + 1

(* The part of addEvent that the variants below share.                     *)
PushEvent(c, e, due, ids, rest) ==
    /\ call[c] = "none"
    /\ fate[e] = "new"
    /\ threadState = "RUNNING"
    /\ lastEventId' = NextEventId
    /\ wrapped' = (wrapped \/ lastEventId = MaxEventId)
    /\ eventId' = [eventId EXCEPT ![e] = NextEventId]
    /\ eventIds' = ids
    /\ cycle' = [cycle EXCEPT ![e] = due]
    /\ eventList' = eventList \union {e}
    /\ fate' = [fate EXCEPT ![e] = "waiting"]
    /\ arg' = [arg EXCEPT ![c] = e]
    /\ call' = [call EXCEPT ![c] = rest]
    /\ UNCHANGED <<threadState, accepting, now, thread, known, stopped>>

(* Variants: only an event added to an empty list is signalled; the id is  *)
(* not recorded in eventIds.                                               *)
AddEventSignalsIfEmpty(c, e, due) ==
    PushEvent(c, e, due, eventIds \union {NextEventId},
              IF eventList = {} THEN "notify" ELSE "return")

AddEventForgetsId(c, e, due) == PushEvent(c, e, due, eventIds, "notify")

(* An event is due a delay after createSchedulerTask made it.  It may be   *)
(* added later than that, as the walk action of a player is, so it may     *)
(* already be due.  Its id is 0 until it is added.                         *)
AddEvent(c, e, due) ==
    /\ call[c] = "none"
    /\ fate[e] = "new"
    /\ IF threadState = "RUNNING"
         THEN /\ lastEventId' = NextEventId
              /\ wrapped' = (wrapped \/ lastEventId = MaxEventId)
              /\ eventId' = [eventId EXCEPT ![e] = NextEventId]
              /\ eventIds' = eventIds \union {NextEventId}
              /\ cycle' = [cycle EXCEPT ![e] = due]
              /\ eventList' = eventList \union {e}
              /\ fate' = [fate EXCEPT ![e] = "waiting"]
              /\ arg' = [arg EXCEPT ![c] = e]
              \* the new event is on top iff it is due before all the others
              /\ call' = [call EXCEPT ![c] = IF \A f \in eventList : due < cycle[f]
                                               THEN "notify" ELSE "return"]
         ELSE /\ fate' = [fate EXCEPT ![e] = "deleted"]
              /\ UNCHANGED <<queue, call, arg>>
    /\ UNCHANGED <<threadState, accepting, now, thread, known, stopped>>

(* eventSignal.notify_one(); only the scheduler thread waits.              *)
Notify(c) == /\ call[c] \in {"notify", "signal"}
             /\ call' = [call EXCEPT ![c] = IF @ = "notify" THEN "return" ELSE "none"]
             /\ pc' = IF pc \in {"wait", "waitUntil"} THEN WokenUp ELSE pc
             /\ UNCHANGED <<threadState, accepting, queue, now, deadline, task, arg, known,
                            stopped, fate>>

(* return task->getEventId(): the task is read after the lock was given    *)
(* up; if it has been deleted meanwhile the value is arbitrary.  Callers   *)
(* on other threads than the dispatcher's ignore the result.               *)
ReturnId(c) ==
    /\ call[c] = "return"
    /\ \E id \in IF fate[arg[c]] = "deleted" THEN Ids ELSE {eventId[arg[c]]} :
         known' = IF c = DispatcherThread THEN [known EXCEPT ![arg[c]] = id] ELSE known
    /\ call' = [call EXCEPT ![c] = "none"]
    /\ arg' = [arg EXCEPT ![c] = NoEvent]
    /\ UNCHANGED <<threadState, accepting, queue, now, thread, stopped, fate>>

(* stopEvent, on the dispatcher thread, with an id that addEvent returned, *)
(* perhaps long ago.  It returns true if the id is found; otherwise it     *)
(* changes nothing.                                                        *)
StopEvent(e) ==
    /\ call[DispatcherThread] = "none"
    /\ known[e] # 0
    /\ known[e] \in eventIds
    /\ eventIds' = eventIds \ {known[e]}
    /\ stopped' = stopped \union {e}
    /\ UNCHANGED <<threadState, accepting, eventList, lastEventId, wrapped, cycle, eventId,
                   now, thread, call, arg, known, fate>>

(* The dispatcher thread runs an event it was given and deletes it.        *)
RunEvent(e) == /\ call[DispatcherThread] = "none"
               /\ fate[e] = "dispatched"
               /\ fate' = [fate EXCEPT ![e] = "deleted"]
               /\ UNCHANGED <<threadState, accepting, queue, now, thread, caller>>

-----------------------------------------------------------------------------
(* setGameState stops the scheduler and then the dispatcher; Game::shutdown*)
(* runs later, on the same thread.                                         *)

Stop == /\ call[DispatcherThread] = "none"
        /\ threadState = "RUNNING"
        /\ threadState' = "CLOSING"
        /\ UNCHANGED <<accepting, queue, now, thread, caller, fate>>

StopDispatcher == /\ call[DispatcherThread] = "none"
                  /\ threadState = "CLOSING"
                  /\ accepting
                  /\ accepting' = FALSE
                  /\ UNCHANGED <<threadState, queue, now, thread, caller, fate>>

Shutdown == /\ call[DispatcherThread] = "none"
            /\ threadState = "CLOSING"
            /\ ~accepting
            /\ threadState' = "TERMINATED"
            /\ call' = [call EXCEPT ![DispatcherThread] = "clear"]
            /\ UNCHANGED <<accepting, queue, now, thread, arg, known, stopped, fate>>

ClearEvents == /\ call[DispatcherThread] = "clear"
               /\ fate' = [e \in Events |-> IF e \in eventList THEN "deleted" ELSE fate[e]]
               /\ eventList' = {}
               /\ eventIds' = {}
               /\ call' = [call EXCEPT ![DispatcherThread] = "signal"]
               /\ UNCHANGED <<threadState, accepting, lastEventId, wrapped, cycle, eventId,
                              now, thread, arg, known, stopped>>

Tick == /\ now < MaxTime
        /\ now' = now + 1
        /\ UNCHANGED <<threadState, accepting, queue, thread, caller, fate>>

CallerStep(c) == Notify(c) \/ ReturnId(c)

(* Nothing is left to do once the scheduler is shut down; the thread has   *)
(* left threadMain or still sleeps in it.                                  *)
Finished == /\ threadState = "TERMINATED"
            /\ pc \in {"wait", "done"}
            /\ \A c \in Callers : call[c] = "none"
            /\ UNCHANGED vars

Next == \/ ThreadStep
        \/ SpuriousWakeup
        \/ \E c \in Callers : CallerStep(c)
        \/ \E c \in Callers, e \in Events, due \in DueTimes : AddEvent(c, e, due)
        \/ \E e \in Events : StopEvent(e) \/ RunEvent(e)
        \/ Stop \/ StopDispatcher \/ Shutdown \/ ClearEvents
        \/ Tick
        \/ Finished

(* Threads that can run are run, and time passes.                          *)
Fairness == /\ WF_vars(ThreadStep)
            /\ \A c \in Callers : WF_vars(CallerStep(c))
            /\ WF_vars(ClearEvents)
            /\ WF_vars(Tick)

Safety == Init /\ [][Next]_vars
Spec == Safety /\ Fairness

-----------------------------------------------------------------------------
(* Properties.                                                             *)

(* No event reaches the dispatcher before it is due.  threadMain pops the  *)
(* top after a timeout without comparing it with the clock; that is right  *)
(* only because whatever was added meanwhile and came out on top is due    *)
(* even earlier than the event the thread waited for.                      *)
NeverEarly ==
    \A e \in Events : fate[e] \in {"posting", "dispatched"} => cycle[e] <= now

(* The thread never sleeps past an event: it waits at most until the       *)
(* earliest one is due, or a caller that added an earlier one is about to  *)
(* notify it.  addEvent signals only for a new top.                        *)
NoOversleep ==
    pc \in {"wait", "waitUntil"} /\ eventList # {} =>
        \/ pc = "waitUntil" /\ \A e \in eventList : deadline <= cycle[e]
        \/ \E c \in Callers : call[c] \in {"notify", "signal"}

(* When stopEvent has returned true, the event is not handed over, however *)
(* close its time was.  As long as lastEventId has not wrapped around: an  *)
(* id that is used again while its first owner still waits stops both.     *)
StoppedNeverRuns ==
    ~wrapped => \A e \in stopped : fate[e] \notin {"posting", "dispatched"}

(* addEvent reads the id out of the task after unlocking.  When it is      *)
(* called on the dispatcher thread the task is still alive, because the    *)
(* events handed over are deleted by that very thread; a caller on another *)
(* thread has no such protection.                                          *)
IdReadFromLiveTask ==
    ~wrapped /\ call[DispatcherThread] \in {"notify", "return"} =>
        fate[arg[DispatcherThread]] # "deleted"

(* What the thread knows when its wait_until times out: the top is due,    *)
(* unless shutdown has cleared the list.                                   *)
DueTop ==
    /\ pc \in {"waitUntil", "timeout"} =>
           \/ \E e \in eventList : cycle[e] <= deadline
           \/ threadState = "TERMINATED" /\ eventList = {}
    /\ pc = "timeout" => deadline <= now
    /\ call[DispatcherThread] = "clear" => threadState = "TERMINATED"

(* Who holds an event.                                                     *)
Ownership ==
    /\ \A e \in Events : e \in eventList <=> fate[e] = "waiting"
    /\ \A e \in Events : task = e <=> fate[e] = "posting"
    /\ pc = "post" <=> task # NoEvent

(* As long as lastEventId has not wrapped, an id means one event: the ids  *)
(* in eventIds are those of waiting events, the ids kept by owners are the *)
(* events' own, and that of a stopped event is gone for good.              *)
UniqueIds ==
    ~wrapped =>
        /\ \A e \in Events : eventId[e] <= lastEventId
        /\ \A e \in Events : fate[e] = "new" => eventId[e] = 0
        /\ \A e \in eventList : eventId[e] # 0
        /\ \A e, f \in Events : eventId[e] = eventId[f] /\ eventId[e] # 0 => e = f
        /\ \A id \in eventIds : \E e \in eventList : eventId[e] = id
        /\ \A e \in Events : known[e] # 0 => known[e] = eventId[e]
        /\ \A e \in stopped : /\ eventId[e] # 0
                               /\ eventId[e] \notin eventIds
                               /\ fate[e] \in {"waiting", "deleted"}

(* The dispatcher thread inside addEvent: its event cannot be stopped, run *)
(* or dropped before the call returns.                                     *)
AddingEvent ==
    /\ \A c \in Callers : call[c] \in {"notify", "return"} => arg[c] \in Events
    /\ threadState = "RUNNING" => accepting
    /\ ~wrapped /\ call[DispatcherThread] \in {"notify", "return"} =>
          /\ accepting
          /\ fate[arg[DispatcherThread]] \notin {"new", "deleted"}
          /\ fate[arg[DispatcherThread]] = "waiting" =>
                eventId[arg[DispatcherThread]] \in eventIds

(* The inductive invariant.                                                *)
Inv == /\ TypeOK /\ NeverEarly /\ NoOversleep /\ DueTop /\ Ownership
       /\ UniqueIds /\ AddingEvent

(* An event nobody stopped is handed over, unless the server closes first  *)
(* or an id was used twice.                                                *)
WantedEventsRun ==
    \A e \in Events :
        fate[e] = "waiting" ~> \/ fate[e] = "dispatched"
                               \/ e \in stopped
                               \/ threadState # "RUNNING"
                               \/ wrapped

(* No event is ever given the id 0, which stopEvent refuses, even when the *)
(* counter overflows.                                                      *)
NoZeroId == \A e \in eventList : eventId[e] # 0
=============================================================================
