-------------------------- MODULE SchedulerProofs ---------------------------
(***************************************************************************)
(* Theorems about Scheduler, for any number of threads and events, any     *)
(* due times and any width of lastEventId.                                 *)
(***************************************************************************)
EXTENDS Scheduler, TLAPS

(* The invariant holds when the thread has been started.                   *)
LEMMA InvInit == Init => Inv
<1> SUFFICES ASSUME Init PROVE Inv
  OBVIOUS
<1> USE SchedulerAssumption DEF Init
<1>1. TypeOK
  <2>1. 0 \in Ids
    BY DEF Ids
  <2>2. accepting \in BOOLEAN /\ wrapped \in BOOLEAN
    OBVIOUS
  <2> QED BY <2>1, <2>2 DEF TypeOK, PCs, Calls, Fates
<1>2. NeverEarly /\ NoOversleep /\ DueTop /\ Ownership
  BY DEF NeverEarly, NoOversleep, DueTop, Ownership
<1>3. UniqueIds /\ AddingEvent
  BY DEF UniqueIds, AddingEvent, Ids
<1> QED BY <1>1, <1>2, <1>3 DEF Inv

(* An event that is added gets an id of its own unless the counter wraps;  *)
(* if it comes out on top, the caller owes a notification.                 *)
LEMMA AddEventInv ==
  ASSUME Inv, NEW c \in Callers, NEW e \in Events, NEW due \in DueTimes, AddEvent(c, e, due)
  PROVE  Inv'
<1> DEFINE id == NextEventId
<1> USE SchedulerAssumption
<1>1. CASE threadState = "RUNNING"
  <2>1. /\ call[c] = "none" /\ fate[e] = "new"
        /\ lastEventId' = id
        /\ wrapped' = (wrapped \/ lastEventId = MaxEventId)
        /\ eventId' = [eventId EXCEPT ![e] = id]
        /\ eventIds' = eventIds \union {id}
        /\ cycle' = [cycle EXCEPT ![e] = due]
        /\ eventList' = eventList \union {e}
        /\ fate' = [fate EXCEPT ![e] = "waiting"]
        /\ arg' = [arg EXCEPT ![c] = e]
        /\ call' = [call EXCEPT ![c] = IF \A f \in eventList : due < cycle[f]
                                         THEN "notify" ELSE "return"]
        /\ UNCHANGED <<threadState, accepting, now, pc, deadline, task, known, stopped>>
    BY <1>1 DEF AddEvent, thread
  <2>2. /\ due \in Nat
        /\ id \in Ids /\ id # 0
        /\ ~wrapped' => ~wrapped /\ id = lastEventId + 1
    <3>1. lastEventId \in 0 .. MaxEventId /\ now \in Nat
      BY DEF Inv, TypeOK, Ids
    <3>2. due \in Nat /\ id \in Ids /\ id # 0
      BY <3>1 DEF Ids, NextEventId
    <3>3. ~wrapped' => ~wrapped /\ lastEventId # MaxEventId
      BY <2>1
    <3>4. lastEventId # MaxEventId => id = lastEventId + 1
      BY DEF NextEventId
    <3> QED BY <3>2, <3>3, <3>4
  <2> HIDE DEF id
  <2>3. TypeOK'
    <3>1. wrapped' \in BOOLEAN /\ accepting' \in BOOLEAN
      BY <2>1 DEF Inv, TypeOK
    <3> QED BY <2>1, <2>2, <3>1 DEF Inv, TypeOK, Calls, Fates
  <2>4. e \notin eventList /\ task # e
    BY <2>1 DEF Inv, Ownership
  <2>5. NeverEarly'
    BY <2>1, <2>2 DEF Inv, TypeOK, NeverEarly
  <2>6. DueTop'
    <3>1. \A f \in eventList : cycle'[f] = cycle[f]
      BY <2>1, <2>4 DEF Inv, TypeOK
    <3> QED BY <1>1, <2>1, <3>1 DEF Inv, TypeOK, DueTop
  <2>7. NoOversleep'
    BY <2>1, <2>2 DEF Inv, TypeOK, NoOversleep
  <2>8. Ownership'
    BY <2>1 DEF Inv, TypeOK, Ownership
  <2>9. UniqueIds'
    <3> SUFFICES ASSUME ~wrapped' PROVE UniqueIds'
      BY DEF UniqueIds
    <3>1. /\ UniqueIds!2 /\ id = lastEventId + 1 /\ lastEventId \in Nat
          /\ \A f \in Events : /\ eventId[f] \in Nat
                               /\ eventId'[f] = IF f = e THEN id ELSE eventId[f]
          /\ \A f \in Events : fate'[f] = IF f = e THEN "waiting" ELSE fate[f]
      BY <2>1, <2>2 DEF Inv, TypeOK, Ids, UniqueIds
    <3>2. \A f \in Events : eventId'[f] <= lastEventId'
      BY <2>1, <3>1
    <3>3. \A f \in Events : fate'[f] = "new" => eventId'[f] = 0
      BY <2>1, <3>1
    <3>4. \A f \in eventList' : eventId'[f] # 0
      BY <2>1, <2>2, <3>1 DEF Inv, TypeOK
    <3>5. \A f, g \in Events : eventId'[f] = eventId'[g] /\ eventId'[f] # 0 => f = g
      BY <3>1
    <3>6. \A i \in eventIds' : \E f \in eventList' : eventId'[f] = i
      BY <2>1, <2>4, <3>1 DEF Inv, TypeOK
    <3>7. \A f \in Events : known'[f] # 0 => known'[f] = eventId'[f]
      BY <2>1, <3>1
    <3>8. \A f \in stopped' : /\ eventId'[f] # 0
                              /\ eventId'[f] \notin eventIds'
                              /\ fate'[f] \in {"waiting", "deleted"}
      BY <2>1, <3>1 DEF Inv, TypeOK
    <3> QED BY <3>2, <3>3, <3>4, <3>5, <3>6, <3>7, <3>8 DEF UniqueIds
  <2>10. AddingEvent'
    <3>1. \A b \in Callers : call'[b] \in {"notify", "return"} => arg'[b] \in Events
      BY <2>1 DEF Inv, TypeOK, AddingEvent
    <3>2. accepting /\ accepting'
      BY <1>1, <2>1 DEF Inv, AddingEvent
    <3>3. CASE c = DispatcherThread
      <4>1. arg'[c] = e /\ fate'[e] = "waiting" /\ eventId'[e] \in eventIds'
        BY <2>1 DEF Inv, TypeOK
      <4> QED BY <3>1, <3>2, <3>3, <4>1 DEF AddingEvent
    <3>4. CASE c # DispatcherThread
      <4> DEFINE b == DispatcherThread
      <4>1. call'[b] = call[b] /\ arg'[b] = arg[b]
        BY <2>1, <3>4 DEF Inv, TypeOK
      <4>2. ASSUME ~wrapped', call[b] \in {"notify", "return"}
            PROVE  /\ fate'[arg[b]] \notin {"new", "deleted"}
                   /\ fate'[arg[b]] = "waiting" => eventId'[arg[b]] \in eventIds'
        <5>1. arg[b] \in Events /\ arg[b] # e /\ ~wrapped
          BY <2>1, <2>2, <4>2 DEF Inv, AddingEvent
        <5> QED BY <2>1, <4>2, <5>1 DEF Inv, TypeOK, AddingEvent
      <4> QED BY <3>1, <3>2, <4>1, <4>2 DEF AddingEvent
    <3> QED BY <3>3, <3>4
  <2> QED BY <2>3, <2>5, <2>6, <2>7, <2>8, <2>9, <2>10 DEF Inv
<1>2. CASE threadState # "RUNNING"
  <2>1. /\ fate[e] = "new" /\ fate' = [fate EXCEPT ![e] = "deleted"]
        /\ UNCHANGED <<threadState, accepting, eventList, eventIds, lastEventId, wrapped,
                       cycle, eventId, now, pc, deadline, task, call, arg, known, stopped>>
    BY <1>2 DEF AddEvent, queue, thread
  <2>2. TypeOK' /\ NeverEarly' /\ NoOversleep' /\ DueTop' /\ Ownership'
    BY <2>1 DEF Inv, TypeOK, Fates, NeverEarly, NoOversleep, DueTop, Ownership
  <2>3. UniqueIds' /\ AddingEvent'
    BY <2>1 DEF Inv, TypeOK, UniqueIds, AddingEvent
  <2> QED BY <2>2, <2>3 DEF Inv
<1> QED BY <1>1, <1>2

(* The id that addEvent returns on the dispatcher thread is the event's.   *)
LEMMA ReturnIdInv ==
  ASSUME Inv, NEW c \in Callers, ReturnId(c)
  PROVE  Inv'
<1> USE SchedulerAssumption
<1>1. PICK id \in Ids : /\ fate[arg[c]] # "deleted" => id = eventId[arg[c]]
                        /\ known' = IF c = DispatcherThread
                                      THEN [known EXCEPT ![arg[c]] = id] ELSE known
  BY DEF ReturnId, Inv, TypeOK, AddingEvent
<1>2. /\ call[c] = "return" /\ arg[c] \in Events
      /\ call' = [call EXCEPT ![c] = "none"]
      /\ arg' = [arg EXCEPT ![c] = NoEvent]
      /\ UNCHANGED <<threadState, accepting, eventList, eventIds, lastEventId, wrapped,
                     cycle, eventId, now, pc, deadline, task, stopped, fate>>
  BY DEF ReturnId, queue, thread, Inv, AddingEvent
<1>3. TypeOK' /\ NeverEarly' /\ NoOversleep' /\ DueTop' /\ Ownership'
  BY <1>1, <1>2 DEF Inv, TypeOK, Calls, NeverEarly, NoOversleep, DueTop, Ownership
<1>4. UniqueIds'
  <2>1. ~wrapped => \A e \in Events : known'[e] # 0 => known'[e] = eventId[e]
    BY <1>1, <1>2 DEF Inv, TypeOK, UniqueIds, AddingEvent
  <2> QED BY <1>2, <2>1 DEF Inv, UniqueIds
<1>5. AddingEvent'
  BY <1>1, <1>2 DEF Inv, TypeOK, AddingEvent
<1> QED BY <1>3, <1>4, <1>5 DEF Inv

(* Every step keeps the invariant.                                         *)
LEMMA InvNext == Inv /\ [Next]_vars => Inv'
<1> SUFFICES ASSUME Inv, [Next]_vars PROVE Inv'
  OBVIOUS
<1> USE SchedulerAssumption
<1>1. CASE LoopTest
  <2> USE <1>1 DEF LoopTest, queue, caller
  <2>1. TypeOK'
    BY DEF Inv, TypeOK, Ids, PCs, Calls, Fates
  <2>2. NeverEarly' /\ DueTop'
    BY DEF Inv, TypeOK, NeverEarly, DueTop, Ownership
  <2>3. NoOversleep' /\ Ownership'
    BY DEF Inv, TypeOK, NoOversleep, Ownership
  <2>4. UniqueIds'
    BY DEF Inv, TypeOK, UniqueIds, Ownership
  <2>5. AddingEvent'
    BY DEF Inv, TypeOK, AddingEvent, Ownership, UniqueIds
  <2> QED BY <2>1, <2>2, <2>3, <2>4, <2>5 DEF Inv
<1>2. CASE Wait
  <2> USE <1>2 DEF Wait, Top, queue, caller
  <2>1. TypeOK'
    BY DEF Inv, TypeOK, Ids, PCs, Calls, Fates
  <2>2. NeverEarly' /\ DueTop'
    BY DEF Inv, TypeOK, NeverEarly, DueTop, Ownership
  <2>3. NoOversleep' /\ Ownership'
    BY DEF Inv, TypeOK, NoOversleep, Ownership
  <2>4. UniqueIds'
    BY DEF Inv, TypeOK, UniqueIds, Ownership
  <2>5. AddingEvent'
    BY DEF Inv, TypeOK, AddingEvent, Ownership, UniqueIds
  <2> QED BY <2>1, <2>2, <2>3, <2>4, <2>5 DEF Inv
<1>3. CASE SpuriousWakeup
  <2> USE <1>3 DEF SpuriousWakeup, WokenUp, queue, caller
  <2>1. TypeOK'
    BY DEF Inv, TypeOK, Ids, PCs, Calls, Fates
  <2>2. NeverEarly' /\ DueTop'
    BY DEF Inv, TypeOK, NeverEarly, DueTop, Ownership
  <2>3. NoOversleep' /\ Ownership'
    BY DEF Inv, TypeOK, NoOversleep, Ownership
  <2>4. UniqueIds'
    BY DEF Inv, TypeOK, UniqueIds, Ownership
  <2>5. AddingEvent'
    BY DEF Inv, TypeOK, AddingEvent, Ownership, UniqueIds
  <2> QED BY <2>1, <2>2, <2>3, <2>4, <2>5 DEF Inv
<1>4. CASE Timeout
  <2> USE <1>4 DEF Timeout, queue, caller
  <2>1. TypeOK'
    BY DEF Inv, TypeOK, Ids, PCs, Calls, Fates
  <2>2. NeverEarly' /\ DueTop'
    BY DEF Inv, TypeOK, NeverEarly, DueTop, Ownership
  <2>3. NoOversleep' /\ Ownership'
    BY DEF Inv, TypeOK, NoOversleep, Ownership
  <2>4. UniqueIds'
    BY DEF Inv, TypeOK, UniqueIds, Ownership
  <2>5. AddingEvent'
    BY DEF Inv, TypeOK, AddingEvent, Ownership, UniqueIds
  <2> QED BY <2>1, <2>2, <2>3, <2>4, <2>5 DEF Inv
<1>5. CASE NothingDue
  <2> USE <1>5 DEF NothingDue, queue, caller
  <2>1. TypeOK'
    BY DEF Inv, TypeOK, Ids, PCs, Calls, Fates
  <2>2. NeverEarly' /\ DueTop'
    BY DEF Inv, TypeOK, NeverEarly, DueTop, Ownership
  <2>3. NoOversleep' /\ Ownership'
    BY DEF Inv, TypeOK, NoOversleep, Ownership
  <2>4. UniqueIds'
    BY DEF Inv, TypeOK, UniqueIds, Ownership
  <2>5. AddingEvent'
    BY DEF Inv, TypeOK, AddingEvent, Ownership, UniqueIds
  <2> QED BY <2>1, <2>2, <2>3, <2>4, <2>5 DEF Inv
<1>6. CASE PopStopped
  <2> USE <1>6 DEF PopStopped, Top, caller
  <2>1. TypeOK'
    BY DEF Inv, TypeOK, Ids, PCs, Calls, Fates
  <2>2. NeverEarly' /\ DueTop'
    BY DEF Inv, TypeOK, NeverEarly, DueTop, Ownership
  <2>3. NoOversleep' /\ Ownership'
    BY DEF Inv, TypeOK, NoOversleep, Ownership
  <2>4. UniqueIds'
    BY DEF Inv, TypeOK, UniqueIds, Ownership
  <2>5. AddingEvent'
    BY DEF Inv, TypeOK, AddingEvent, Ownership, UniqueIds
  <2> QED BY <2>1, <2>2, <2>3, <2>4, <2>5 DEF Inv
<1>7. CASE PopDue
  <2> USE <1>7 DEF PopDue, Top, caller
  <2>1. TypeOK'
    BY DEF Inv, TypeOK, Ids, PCs, Calls, Fates
  <2>2. NeverEarly' /\ DueTop'
    BY DEF Inv, TypeOK, NeverEarly, DueTop, Ownership
  <2>3. NoOversleep' /\ Ownership'
    BY DEF Inv, TypeOK, NoOversleep, Ownership
  <2>4. UniqueIds'
    BY DEF Inv, TypeOK, UniqueIds, Ownership
  <2>5. AddingEvent'
    BY DEF Inv, TypeOK, AddingEvent, Ownership, UniqueIds
  <2> QED BY <2>1, <2>2, <2>3, <2>4, <2>5 DEF Inv
<1>8. CASE PostToDispatcher
  <2> USE <1>8 DEF PostToDispatcher, queue, caller
  <2>1. TypeOK'
    BY DEF Inv, TypeOK, Ids, PCs, Calls, Fates
  <2>2. NeverEarly' /\ DueTop'
    BY DEF Inv, TypeOK, NeverEarly, DueTop, Ownership
  <2>3. NoOversleep' /\ Ownership'
    BY DEF Inv, TypeOK, NoOversleep, Ownership
  <2>4. UniqueIds'
    BY DEF Inv, TypeOK, UniqueIds, Ownership
  <2>5. AddingEvent'
    BY DEF Inv, TypeOK, AddingEvent, Ownership, UniqueIds
  <2> QED BY <2>1, <2>2, <2>3, <2>4, <2>5 DEF Inv
<1>9. ASSUME NEW c \in Callers, NEW e \in Events, NEW due \in DueTimes, AddEvent(c, e, due)
      PROVE  Inv'
  BY <1>9, AddEventInv
<1>10. ASSUME NEW c \in Callers, Notify(c) PROVE Inv'
  <2> USE <1>10 DEF Notify, WokenUp, queue
  <2>1. TypeOK'
    BY DEF Inv, TypeOK, Ids, PCs, Calls, Fates
  <2>2. NeverEarly' /\ DueTop'
    BY DEF Inv, TypeOK, NeverEarly, DueTop, Ownership
  <2>3. NoOversleep' /\ Ownership'
    BY DEF Inv, TypeOK, NoOversleep, Ownership
  <2>4. UniqueIds'
    BY DEF Inv, TypeOK, UniqueIds, Ownership
  <2>5. AddingEvent'
    BY DEF Inv, TypeOK, AddingEvent, Ownership, UniqueIds
  <2> QED BY <2>1, <2>2, <2>3, <2>4, <2>5 DEF Inv
<1>11. ASSUME NEW c \in Callers, ReturnId(c) PROVE Inv'
  BY <1>11, ReturnIdInv
<1>12. ASSUME NEW e \in Events, StopEvent(e) PROVE Inv'
  <2> USE <1>12 DEF StopEvent, thread
  <2>1. TypeOK'
    BY DEF Inv, TypeOK, Ids, PCs, Calls, Fates
  <2>2. NeverEarly' /\ DueTop'
    BY DEF Inv, TypeOK, NeverEarly, DueTop, Ownership
  <2>3. NoOversleep' /\ Ownership'
    BY DEF Inv, TypeOK, NoOversleep, Ownership
  <2>4. UniqueIds'
    BY DEF Inv, TypeOK, UniqueIds, Ownership
  <2>5. AddingEvent'
    BY DEF Inv, TypeOK, AddingEvent, Ownership, UniqueIds
  <2> QED BY <2>1, <2>2, <2>3, <2>4, <2>5 DEF Inv
<1>13. ASSUME NEW e \in Events, RunEvent(e) PROVE Inv'
  <2> USE <1>13 DEF RunEvent, queue, thread, caller
  <2>1. TypeOK'
    BY DEF Inv, TypeOK, Ids, PCs, Calls, Fates
  <2>2. NeverEarly' /\ DueTop'
    BY DEF Inv, TypeOK, NeverEarly, DueTop, Ownership
  <2>3. NoOversleep' /\ Ownership'
    BY DEF Inv, TypeOK, NoOversleep, Ownership
  <2>4. UniqueIds'
    BY DEF Inv, TypeOK, UniqueIds, Ownership
  <2>5. AddingEvent'
    BY DEF Inv, TypeOK, AddingEvent, Ownership, UniqueIds
  <2> QED BY <2>1, <2>2, <2>3, <2>4, <2>5 DEF Inv
<1>14. CASE Stop
  <2> USE <1>14 DEF Stop, queue, thread, caller
  <2>1. TypeOK'
    BY DEF Inv, TypeOK, Ids, PCs, Calls, Fates
  <2>2. NeverEarly' /\ DueTop'
    BY DEF Inv, TypeOK, NeverEarly, DueTop, Ownership
  <2>3. NoOversleep' /\ Ownership'
    BY DEF Inv, TypeOK, NoOversleep, Ownership
  <2>4. UniqueIds'
    BY DEF Inv, TypeOK, UniqueIds, Ownership
  <2>5. AddingEvent'
    BY DEF Inv, TypeOK, AddingEvent, Ownership, UniqueIds
  <2> QED BY <2>1, <2>2, <2>3, <2>4, <2>5 DEF Inv
<1>15. CASE StopDispatcher
  <2> USE <1>15 DEF StopDispatcher, queue, thread, caller
  <2>1. TypeOK'
    BY DEF Inv, TypeOK, Ids, PCs, Calls, Fates
  <2>2. NeverEarly' /\ DueTop'
    BY DEF Inv, TypeOK, NeverEarly, DueTop, Ownership
  <2>3. NoOversleep' /\ Ownership'
    BY DEF Inv, TypeOK, NoOversleep, Ownership
  <2>4. UniqueIds'
    BY DEF Inv, TypeOK, UniqueIds, Ownership
  <2>5. AddingEvent'
    BY DEF Inv, TypeOK, AddingEvent, Ownership, UniqueIds
  <2> QED BY <2>1, <2>2, <2>3, <2>4, <2>5 DEF Inv
<1>16. CASE Shutdown
  <2> USE <1>16 DEF Shutdown, queue, thread
  <2>1. TypeOK'
    BY DEF Inv, TypeOK, Ids, PCs, Calls, Fates
  <2>2. NeverEarly' /\ DueTop'
    BY DEF Inv, TypeOK, NeverEarly, DueTop, Ownership
  <2>3. NoOversleep' /\ Ownership'
    BY DEF Inv, TypeOK, NoOversleep, Ownership
  <2>4. UniqueIds'
    BY DEF Inv, TypeOK, UniqueIds, Ownership
  <2>5. AddingEvent'
    BY DEF Inv, TypeOK, AddingEvent, Ownership, UniqueIds
  <2> QED BY <2>1, <2>2, <2>3, <2>4, <2>5 DEF Inv
<1>17. CASE ClearEvents
  <2> USE <1>17 DEF ClearEvents, thread
  <2>1. TypeOK'
    BY DEF Inv, TypeOK, Ids, PCs, Calls, Fates
  <2>2. NeverEarly' /\ DueTop'
    BY DEF Inv, TypeOK, NeverEarly, DueTop, Ownership
  <2>3. NoOversleep' /\ Ownership'
    BY DEF Inv, TypeOK, NoOversleep, Ownership
  <2>4. UniqueIds'
    BY DEF Inv, TypeOK, UniqueIds, Ownership
  <2>5. AddingEvent'
    BY DEF Inv, TypeOK, AddingEvent, Ownership, UniqueIds
  <2> QED BY <2>1, <2>2, <2>3, <2>4, <2>5 DEF Inv
<1>18. CASE Tick
  <2> USE <1>18 DEF Tick, queue, thread, caller
  <2>1. TypeOK'
    BY DEF Inv, TypeOK, Ids, PCs, Calls, Fates
  <2>2. NeverEarly' /\ DueTop'
    BY DEF Inv, TypeOK, NeverEarly, DueTop, Ownership
  <2>3. NoOversleep' /\ Ownership'
    BY DEF Inv, TypeOK, NoOversleep, Ownership
  <2>4. UniqueIds'
    BY DEF Inv, TypeOK, UniqueIds, Ownership
  <2>5. AddingEvent'
    BY DEF Inv, TypeOK, AddingEvent, Ownership, UniqueIds
  <2> QED BY <2>1, <2>2, <2>3, <2>4, <2>5 DEF Inv
<1>19. CASE UNCHANGED vars
  BY <1>19 DEF vars, Inv, TypeOK, NeverEarly, NoOversleep, DueTop, Ownership, UniqueIds,
               AddingEvent
<1> QED
  BY <1>1, <1>2, <1>3, <1>4, <1>5, <1>6, <1>7, <1>8, <1>9, <1>10,
     <1>11, <1>12, <1>13, <1>14, <1>15, <1>16, <1>17, <1>18, <1>19
  DEF Next, ThreadStep, CallerStep, Finished

(* The inductive invariant holds in every behaviour of the scheduler.      *)
THEOREM Invariance == Safety => []Inv
  BY InvInit, InvNext, PTL DEF Safety

(* Types: threadMain, addEvent, stopEvent and shutdown only produce the    *)
(* states the variables are declared to have.                              *)
THEOREM TypeCorrect == Safety => []TypeOK
<1>1. Inv => TypeOK BY DEF Inv
<1> QED BY <1>1, Invariance, PTL

(* Whatever is added while the thread waits, it never hands over an event  *)
(* before its time.                                                        *)
THEOREM EventsNeverEarly == Safety => []NeverEarly
<1>1. Inv => NeverEarly BY DEF Inv
<1> QED BY <1>1, Invariance, PTL

(* The thread never sleeps past the earliest event.                        *)
THEOREM ThreadNeverOversleeps == Safety => []NoOversleep
<1>1. Inv => NoOversleep BY DEF Inv
<1> QED BY <1>1, Invariance, PTL

(* An event for which stopEvent returned true is never handed over.        *)
THEOREM StoppedEventsStay == Safety => []StoppedNeverRuns
<1>1. Inv => StoppedNeverRuns BY DEF Inv, UniqueIds, StoppedNeverRuns
<1> QED BY <1>1, Invariance, PTL

(* On the dispatcher thread, addEvent reads the id of a task that still    *)
(* exists.                                                                 *)
THEOREM ReturnedIdIsReal == Safety => []IdReadFromLiveTask
<1>1. Inv => IdReadFromLiveTask BY DEF Inv, AddingEvent, IdReadFromLiveTask
<1> QED BY <1>1, Invariance, PTL

(* Only addEvent gives an id or lengthens the list, and it skips 0 when    *)
(* the counter overflows, whatever its width.                              *)
THEOREM IdsNeverZero == Safety => []NoZeroId
<1>1. Init => NoZeroId
  BY DEF Init, NoZeroId
<1>2. ASSUME Inv, NoZeroId, Next PROVE NoZeroId'
  <2>1. CASE eventList' \subseteq eventList /\ eventId' = eventId
    BY <1>2, <2>1 DEF NoZeroId
  <2>2. ASSUME NEW c \in Callers, NEW e \in Events, NEW due \in DueTimes,
               AddEvent(c, e, due), threadState = "RUNNING"
        PROVE  NoZeroId'
    <3>1. NextEventId # 0
      BY <1>2, SchedulerAssumption DEF Inv, TypeOK, Ids, NextEventId
    <3>2. eventId' = [eventId EXCEPT ![e] = NextEventId] /\ eventList' = eventList \union {e}
      BY <2>2 DEF AddEvent
    <3> QED BY <1>2, <3>1, <3>2 DEF Inv, TypeOK, NoZeroId
  <2>3. ASSUME NEW c \in Callers, NEW e \in Events, NEW due \in DueTimes,
               AddEvent(c, e, due), threadState # "RUNNING"
        PROVE  NoZeroId'
    BY <2>1, <2>3 DEF AddEvent, queue
  <2>4. CASE ThreadStep \/ SpuriousWakeup \/ \E c \in Callers : CallerStep(c)
    BY <2>1, <2>4 DEF ThreadStep, LoopTest, Wait, Timeout, NothingDue, PopStopped, PopDue,
                      PostToDispatcher, SpuriousWakeup, CallerStep, Notify, ReturnId, queue
  <2>5. CASE \/ \E e \in Events : StopEvent(e) \/ RunEvent(e)
             \/ Stop \/ StopDispatcher \/ Shutdown \/ ClearEvents \/ Tick \/ Finished
    BY <2>1, <2>5 DEF StopEvent, RunEvent, Stop, StopDispatcher, Shutdown, ClearEvents, Tick,
                      Finished, queue, vars
  <2> QED BY <1>2, <2>2, <2>3, <2>4, <2>5 DEF Next
<1>3. Inv /\ NoZeroId /\ [Next]_vars => NoZeroId'
  BY <1>2 DEF vars, NoZeroId
<1> QED BY <1>1, <1>3, Invariance, PTL DEF Safety
=============================================================================
