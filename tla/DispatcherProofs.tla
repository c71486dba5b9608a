-------------------------- MODULE DispatcherProofs --------------------------
(***************************************************************************)
(* Theorems about Dispatcher, for any number of threads and tasks.         *)
(***************************************************************************)
EXTENDS Dispatcher, TLAPS

(* What pushing at the back does to a list.                                *)
LEMMA PushBack ==
  ASSUME NEW S, NEW s \in Seq(S), NEW t \in S
  PROVE  /\ Append(s, t) \in Seq(S)
         /\ Len(s) \in Nat /\ DOMAIN s = 1 .. Len(s)
         /\ Len(Append(s, t)) = Len(s) + 1
         /\ DOMAIN Append(s, t) = 1 .. Len(s) + 1
         /\ \A i \in 1 .. Len(s) : Append(s, t)[i] = s[i]
         /\ Append(s, t)[Len(s) + 1] = t
         /\ Append(s, t) # <<>>
  OBVIOUS

(* What pushing at the front does to a list.                               *)
LEMMA PushFront ==
  ASSUME NEW S, NEW s \in Seq(S), NEW t \in S
  PROVE  /\ <<t>> \o s \in Seq(S)
         /\ Len(s) \in Nat /\ DOMAIN s = 1 .. Len(s)
         /\ Len(<<t>> \o s) = Len(s) + 1
         /\ DOMAIN (<<t>> \o s) = 1 .. Len(s) + 1
         /\ \A i \in 1 .. Len(s) : (<<t>> \o s)[i + 1] = s[i]
         /\ \A i \in 2 .. Len(s) + 1 : (<<t>> \o s)[i] = s[i - 1]
         /\ (<<t>> \o s)[1] = t
         /\ <<t>> \o s # <<>>
  OBVIOUS

(* What popping the front does to a list that is not empty.                *)
LEMMA PopFront ==
  ASSUME NEW S, NEW s \in Seq(S), s # <<>>
  PROVE  /\ Head(s) \in S /\ Head(s) = s[1]
         /\ Tail(s) \in Seq(S)
         /\ Len(s) \in Nat \ {0} /\ DOMAIN s = 1 .. Len(s)
         /\ Len(Tail(s)) = Len(s) - 1
         /\ DOMAIN Tail(s) = 1 .. Len(s) - 1
         /\ \A i \in 1 .. Len(s) - 1 : Tail(s)[i] = s[i + 1]
         /\ \A i \in 2 .. Len(s) : Tail(s)[i - 1] = s[i]
  OBVIOUS

(* A dispatcher that start() has just launched satisfies the invariant.    *)
LEMMA InvInit == Init => Inv
  BY TaskAssumption
  DEF Init, Inv, TypeOK, NoLostWakeup, OneOwner, NothingStranded, ShutdownProtocol,
      InList, Callers, AllTasks, ThreadStates, PCs, Fates

(* addTask and the notify_one it owes keep the invariant, whoever calls.   *)
LEMMA AddTaskInv ==
  ASSUME Inv, NEW c \in Callers, NEW t \in Tasks \union {ShutdownTask},
         NEW front \in BOOLEAN, AddTask(c, t, front),
         threadState' = threadState, task' = task,
         \/ pc' = pc /\ t \in Tasks
         \/ /\ pc = "run" /\ pc' = "stopping" /\ task \in Tasks
            /\ t = ShutdownTask
  PROVE  Inv'
<1> USE TaskAssumption DEF AllTasks
<1>1. CASE threadState = "RUNNING"
  <2>1. /\ t \in AllTasks
        /\ taskList' = IF front THEN <<t>> \o taskList ELSE Append(taskList, t)
        /\ fate' = [fate EXCEPT ![t] = "queued"]
        /\ call' = [call EXCEPT ![c] = IF taskList = <<>> THEN "notify" ELSE "none"]
        /\ fate[t] = "new" /\ call[c] = "none"
    BY <1>1 DEF AddTask
  <2>2. taskList \in Seq(AllTasks)
    BY DEF Inv, TypeOK
  <2>3. /\ taskList' \in Seq(AllTasks)
        /\ taskList' # <<>>
    <3>1. CASE front
      BY <2>1, <2>2, <3>1, PushFront
    <3>2. CASE ~front
      BY <2>1, <2>2, <3>2, PushBack
    <3> QED BY <3>1, <3>2
  <2>4. TypeOK'
    BY <2>1, <2>3 DEF Inv, TypeOK, PCs, Fates
  <2>5. NoLostWakeup'
    <3>1. CASE taskList = <<>>
      BY <2>1, <3>1 DEF NoLostWakeup, Inv, TypeOK
    <3>2. CASE taskList # <<>>
      BY <2>1, <3>2 DEF NoLostWakeup, Inv, TypeOK
    <3> QED BY <3>1, <3>2
  <2>6. /\ \A i \in DOMAIN taskList : taskList[i] # t
        /\ task # t /\ task' # t
    BY <2>1 DEF Inv, OneOwner, InList
  <2>7. OneOwner'
    <3>1. \A u \in AllTasks : InList(u)' <=> InList(u) \/ u = t
      <4>1. CASE front
        <5>1. ASSUME NEW u \in AllTasks, InList(u)' PROVE InList(u) \/ u = t
          <6>1. PICK i \in DOMAIN taskList' : taskList'[i] = u
            BY <5>1 DEF InList
          <6>2. CASE i = 1
            BY <2>1, <2>2, <4>1, <6>1, <6>2, PushFront
          <6>3. CASE i # 1
            <7>1. i \in 2 .. Len(taskList) + 1 /\ Len(taskList) \in Nat
              BY <2>1, <2>2, <4>1, <6>3, PushFront
            <7>2. i - 1 \in DOMAIN taskList /\ taskList[i - 1] = u
              BY <2>1, <2>2, <4>1, <6>1, <7>1, PushFront
            <7> QED BY <7>2 DEF InList
          <6> QED BY <6>2, <6>3
        <5>2. ASSUME NEW u \in AllTasks, InList(u) PROVE InList(u)'
          <6>1. PICK i \in DOMAIN taskList : taskList[i] = u
            BY <5>2 DEF InList
          <6>2. i + 1 \in DOMAIN taskList' /\ taskList'[i + 1] = u
            BY <2>1, <2>2, <4>1, <6>1, PushFront
          <6> QED BY <6>2 DEF InList
        <5>3. 1 \in DOMAIN taskList' /\ taskList'[1] = t
          BY <2>1, <2>2, <4>1, PushFront
        <5> QED BY <5>1, <5>2, <5>3 DEF InList
      <4>2. CASE ~front
        BY <2>1, <2>2, <4>2, PushBack DEF InList
      <4> QED BY <4>1, <4>2
    <3>2. \A i, j \in DOMAIN taskList' : taskList'[i] = taskList'[j] => i = j
      <4>1. CASE front
        BY <2>1, <2>2, <2>6, <4>1, PushFront DEF Inv, OneOwner
      <4>2. CASE ~front
        BY <2>1, <2>2, <2>6, <4>2, PushBack DEF Inv, OneOwner
      <4> QED BY <4>1, <4>2
    <3>3. \A u \in AllTasks : fate'[u] = IF u = t THEN "queued" ELSE fate[u]
      BY <2>1 DEF Inv, TypeOK
    <3>4. \A u \in AllTasks : fate'[u] = "queued" <=> InList(u)'
      BY <3>1, <3>3 DEF Inv, OneOwner
    <3>5. \A u \in AllTasks : fate'[u] = "running" <=> task' = u
      BY <2>6, <3>3 DEF Inv, OneOwner
    <3> QED BY <3>2, <3>4, <3>5 DEF OneOwner
  <2>8. \A i \in DOMAIN taskList : taskList[i] # Terminate
    BY <1>1 DEF Inv, OneOwner, InList, ShutdownProtocol
  <2>9. NothingStranded'
    <3>1. \A i \in DOMAIN taskList' : taskList'[i] # Terminate
      <4>1. CASE front
        BY <2>1, <2>2, <2>8, <4>1, PushFront
      <4>2. CASE ~front
        BY <2>1, <2>2, <2>8, <4>2, PushBack
      <4> QED BY <4>1, <4>2
    <3>2. pc' # "done"
      BY <1>1 DEF Inv, ShutdownProtocol
    <3> QED BY <3>1, <3>2 DEF NothingStranded
  <2>10. ShutdownProtocol'
    BY <1>1, <2>1 DEF Inv, TypeOK, ShutdownProtocol
  <2> QED BY <2>4, <2>5, <2>7, <2>9, <2>10 DEF Inv
<1>2. CASE threadState # "RUNNING"
  <2>1. /\ t \in Tasks /\ pc' = pc
        /\ fate' = [fate EXCEPT ![t] = "deleted"] /\ fate[t] = "new"
        /\ UNCHANGED <<taskList, call>>
    BY <1>2 DEF AddTask, Inv, ShutdownProtocol
  <2> QED
    BY <1>2, <2>1
    DEF Inv, TypeOK, NoLostWakeup, OneOwner, NothingStranded, ShutdownProtocol, InList, Fates
<1> QED BY <1>1, <1>2

(* Every step keeps the invariant.                                         *)
LEMMA InvNext == Inv /\ [Next]_vars => Inv'
<1> SUFFICES ASSUME Inv, [Next]_vars PROVE Inv'
  OBVIOUS
<1> USE TaskAssumption DEF AllTasks
<1>1. CASE LoopTest
  BY <1>1 DEF LoopTest, Inv, TypeOK, NoLostWakeup, OneOwner, NothingStranded,
              ShutdownProtocol, InList, PCs
<1>2. CASE Wait
  BY <1>2 DEF Wait, Inv, TypeOK, NoLostWakeup, OneOwner, NothingStranded,
              ShutdownProtocol, InList, PCs
<1>3. CASE SpuriousWakeup
  BY <1>3 DEF SpuriousWakeup, Inv, TypeOK, NoLostWakeup, OneOwner, NothingStranded,
              ShutdownProtocol, InList, PCs
<1>4. CASE NothingToTake
  BY <1>4 DEF NothingToTake, Inv, TypeOK, NoLostWakeup, OneOwner, NothingStranded,
              ShutdownProtocol, InList, PCs
<1>5. CASE Take
  <2>1. taskList \in Seq(AllTasks) /\ taskList # <<>>
    BY <1>5 DEF Take, Inv, TypeOK
  <2>2. PICK h \in AllTasks : h = Head(taskList)
    BY <2>1, PopFront
  <2>3. /\ pc \in {"lock", "woken"} /\ pc' = "check" /\ taskList # <<>>
        /\ task' = h /\ taskList' = Tail(taskList)
        /\ fate' = [fate EXCEPT ![h] = "running"]
        /\ threadState' = threadState /\ call' = call
    BY <1>5, <2>2 DEF Take
  <2>4. /\ h = taskList[1] /\ 1 \in DOMAIN taskList
        /\ taskList' \in Seq(AllTasks)
    BY <2>3, <2>1, <2>2, PopFront
  <2>5. TypeOK' /\ NoLostWakeup'
    BY <2>3, <2>4 DEF Inv, TypeOK, PCs, Fates, NoLostWakeup
  <2>6. /\ fate[h] = "queued" /\ task = NoTask
        /\ \A u \in AllTasks : fate'[u] = IF u = h THEN "running" ELSE fate[u]
    BY <2>3, <2>4 DEF Inv, TypeOK, OneOwner, InList, ShutdownProtocol
  <2>7. \A i \in DOMAIN taskList' : /\ i + 1 \in DOMAIN taskList
                                    /\ taskList'[i] = taskList[i + 1]
                                    /\ taskList'[i] # h
    BY <2>3, <2>1, <2>4, PopFront DEF Inv, OneOwner
  <2>8. OneOwner'
    <3>1. ASSUME NEW u \in AllTasks, u # h, InList(u) PROVE InList(u)'
      <4>1. PICK i \in DOMAIN taskList : taskList[i] = u
        BY <3>1 DEF InList
      <4>2. i \in 2 .. Len(taskList)
        BY <2>1, <2>4, <3>1, <4>1, PopFront
      <4>3. i - 1 \in DOMAIN taskList' /\ taskList'[i - 1] = u
        BY <2>3, <2>1, <4>1, <4>2, PopFront
      <4> QED BY <4>3 DEF InList
    <3>2. ASSUME NEW u \in AllTasks, InList(u)' PROVE InList(u) /\ u # h
      BY <2>7, <3>2 DEF InList
    <3>3. \A i, j \in DOMAIN taskList' : taskList'[i] = taskList'[j] => i = j
      BY <2>3, <2>1, <2>7, PopFront DEF Inv, OneOwner
    <3>4. \A u \in AllTasks : fate'[u] = "queued" <=> InList(u)'
      BY <2>6, <3>1, <3>2 DEF Inv, OneOwner
    <3>5. \A u \in AllTasks : fate'[u] = "running" <=> task' = u
      BY <2>3, <2>6 DEF Inv, OneOwner
    <3> QED BY <3>3, <3>4, <3>5 DEF OneOwner
  <2>9. NothingStranded'
    <3>1. \A i \in DOMAIN taskList' : taskList'[i] = Terminate => i = Len(taskList')
      BY <2>3, <2>1, <2>7, PopFront DEF Inv, NothingStranded
    <3> QED BY <2>3, <3>1 DEF NothingStranded
  <2>10. h = Terminate => taskList' = <<>>
    <3>1. h = Terminate => Len(taskList) = 1
      BY <2>4 DEF Inv, NothingStranded
    <3> QED BY <2>3, <2>1, <3>1, PopFront
  <2>11. fate[Terminate] \notin {"running", "done"}
    BY <2>3 DEF Inv, ShutdownProtocol
  <2>12. ShutdownProtocol'
    BY <2>3, <2>6, <2>10, <2>11 DEF Inv, TypeOK, ShutdownProtocol
  <2> QED BY <2>5, <2>8, <2>9, <2>12 DEF Inv
<1>6. CASE Expire
  <2>1. task \in Tasks
    BY <1>6 DEF Expire
  <2> QED
    BY <1>6, <2>1
    DEF Expire, Inv, TypeOK, NoLostWakeup, OneOwner, NothingStranded,
        ShutdownProtocol, InList, PCs, Fates
<1>7. CASE Execute
  BY <1>7 DEF Execute, Inv, TypeOK, NoLostWakeup, OneOwner, NothingStranded,
              ShutdownProtocol, InList, PCs
<1>8. CASE Finish
  <2>1. task \in AllTasks /\ task # Terminate /\ fate[task] = "running"
    BY <1>8 DEF Finish, Inv, TypeOK, OneOwner, ShutdownProtocol
  <2> QED
    BY <1>8, <2>1
    DEF Finish, Inv, TypeOK, NoLostWakeup, OneOwner, NothingStranded,
        ShutdownProtocol, InList, PCs, Fates
<1>9. CASE Stop
  BY <1>9 DEF Stop, Inv, TypeOK, NoLostWakeup, OneOwner, NothingStranded,
              ShutdownProtocol, InList, PCs, ThreadStates
<1>10. CASE Shutdown
  <2>1. /\ pc = "run" /\ task = ShutdownTask /\ fate[Terminate] = "new"
        /\ taskList' = Append(taskList, Terminate)
        /\ fate' = [fate EXCEPT ![Terminate] = "queued"]
        /\ UNCHANGED <<threadState, pc, task, call>>
    BY <1>10 DEF Shutdown
  <2>2. taskList \in Seq(AllTasks) /\ threadState # "RUNNING"
    BY <2>1 DEF Inv, TypeOK, OneOwner, ShutdownProtocol
  <2>3. \A i \in DOMAIN taskList : taskList[i] # Terminate
    BY <2>1 DEF Inv, OneOwner, InList
  <2>4. TypeOK'
    BY <2>1, <2>2, PushBack DEF Inv, TypeOK, Fates
  <2>5. \A u \in AllTasks : fate'[u] = IF u = Terminate THEN "queued" ELSE fate[u]
    BY <2>1 DEF Inv, TypeOK
  <2>6. OneOwner'
    <3>1. \A u \in AllTasks : InList(u)' <=> InList(u) \/ u = Terminate
      BY <2>1, <2>2, PushBack DEF InList
    <3>2. \A i, j \in DOMAIN taskList' : taskList'[i] = taskList'[j] => i = j
      BY <2>1, <2>2, <2>3, PushBack DEF Inv, OneOwner
    <3>3. \A u \in AllTasks : fate'[u] = "queued" <=> InList(u)'
      BY <2>5, <3>1 DEF Inv, OneOwner
    <3>4. \A u \in AllTasks : fate'[u] = "running" <=> task' = u
      BY <2>1, <2>5 DEF Inv, OneOwner
    <3> QED BY <3>2, <3>3, <3>4 DEF OneOwner
  <2>7. NothingStranded'
    <3>1. \A i \in DOMAIN taskList' : taskList'[i] = Terminate => i = Len(taskList')
      BY <2>1, <2>2, <2>3, PushBack
    <3> QED BY <2>1, <3>1 DEF NothingStranded
  <2>8. NoLostWakeup' /\ ShutdownProtocol'
    BY <2>1, <2>2, <2>5 DEF Inv, NoLostWakeup, ShutdownProtocol
  <2> QED BY <2>4, <2>6, <2>7, <2>8 DEF Inv
<1>11. CASE RunTerminate
  BY <1>11 DEF RunTerminate, Inv, TypeOK, NoLostWakeup, OneOwner, NothingStranded,
               ShutdownProtocol, InList, PCs, Fates, ThreadStates
<1>12. CASE RequestShutdown
  <2>1. DispatcherThread \in Callers
    BY DEF Callers
  <2> QED BY <1>12, <2>1, AddTaskInv DEF RequestShutdown
<1>13. ASSUME NEW c \in Callers, Notify(c) PROVE Inv'
  <2>1. TypeOK'
    BY <1>13 DEF Notify, Inv, TypeOK, PCs
  <2>2. NoLostWakeup'
    BY <1>13 DEF Notify, NoLostWakeup
  <2>3. OneOwner' /\ NothingStranded' /\ ShutdownProtocol'
    BY <1>13 DEF Notify, Inv, OneOwner, NothingStranded, ShutdownProtocol, InList
  <2> QED BY <2>1, <2>2, <2>3 DEF Inv
<1>14. ASSUME NEW c \in Callers, NEW t \in Tasks, NEW front \in BOOLEAN, Post(c, t, front)
       PROVE  Inv'
  BY <1>14, AddTaskInv DEF Post
<1>15. CASE UNCHANGED vars
  BY <1>15 DEF vars, Inv, TypeOK, NoLostWakeup, OneOwner, NothingStranded,
               ShutdownProtocol, InList
<1> QED
  BY <1>1, <1>2, <1>3, <1>4, <1>5, <1>6, <1>7, <1>8, <1>9, <1>10, <1>11, <1>12,
     <1>13, <1>14, <1>15
  DEF Next, ThreadStep, Terminated

(* The inductive invariant holds in every behaviour of the dispatcher.     *)
THEOREM Invariance == Safety => []Inv
  BY InvInit, InvNext, PTL DEF Safety

(* Types: threadMain, addTask and shutdown only produce the states the     *)
(* variables are declared to have.                                         *)
THEOREM TypeCorrect == Safety => []TypeOK
<1>1. Inv => TypeOK BY DEF Inv
<1> QED BY <1>1, Invariance, PTL

(* A sleeping dispatcher thread with work to do is about to be notified.   *)
THEOREM WakeupNeverLost == Safety => []NoLostWakeup
<1>1. Inv => NoLostWakeup BY DEF Inv
<1> QED BY <1>1, Invariance, PTL

(* A Task object is owned once: never run twice, never used after deletion.*)
THEOREM TasksOwnedOnce == Safety => []OneOwner
<1>1. Inv => OneOwner BY DEF Inv
<1> QED BY <1>1, Invariance, PTL

(* The shutdown protocol leaves no task behind in the list.                *)
THEOREM NoTaskStranded == Safety => []NothingStranded
<1>1. Inv => NothingStranded BY DEF Inv
<1> QED BY <1>1, Invariance, PTL

-----------------------------------------------------------------------------
(* Refinement: every step of the threads is a step of the abstract         *)
(* executor or leaves its variables alone.                                 *)

Ended == {t \in AllTasks : fate[t] \in {"done", "expired", "deleted"}}

(* When thread c posts task t, the executor accepts or discards it.        *)
LEMMA AddTaskRefines ==
  ASSUME Inv, NEW c \in Callers, NEW t \in Tasks \union {ShutdownTask},
         NEW front \in BOOLEAN, AddTask(c, t, front),
         threadState' = threadState, task' = task
  PROVE  Executor!Post(t) \/ Executor!Discard(t)
<1>1. Executor!Fresh(t)
  BY TaskAssumption
  DEF AddTask, Inv, OneOwner, InList, AllTasks, Executor!Fresh
<1>2. t # Terminate /\ t \in AllTasks
  BY TaskAssumption DEF AllTasks
<1>3. CASE threadState = "RUNNING"
  <2>1. Ended' = Ended
    BY <1>2, <1>3 DEF AddTask, Ended, Inv, TypeOK
  <2>2. taskList' \in {Append(taskList, t), <<t>> \o taskList}
    BY <1>3 DEF AddTask
  <2> QED BY <1>1, <1>2, <1>3, <2>1, <2>2 DEF Executor!Post, Ended
<1>4. CASE threadState # "RUNNING"
  <2>1. Ended' = Ended \union {t} /\ taskList' = taskList
    BY <1>2, <1>4 DEF AddTask, Ended, Inv, TypeOK
  <2> QED BY <1>1, <1>2, <1>4, <2>1 DEF Executor!Discard, Ended
<1> QED BY <1>3, <1>4

(* Every step of the dispatcher is a step of the executor or a stutter.    *)
LEMMA StepRefines == Inv /\ [Next]_vars => [Executor!Next]_(Executor!vars)
<1> SUFFICES ASSUME Inv, [Next]_vars
             PROVE  Executor!Next \/ UNCHANGED Executor!vars
  OBVIOUS
<1>1. CASE \/ LoopTest \/ Wait \/ SpuriousWakeup \/ NothingToTake \/ Execute
           \/ UNCHANGED vars \/ \E c \in Callers : Notify(c)
  <2>1. threadState' = threadState /\ taskList' = taskList /\ task' = task /\ fate' = fate
    BY <1>1 DEF LoopTest, Wait, SpuriousWakeup, NothingToTake, Execute, Notify, vars
  <2> QED BY <2>1 DEF Executor!vars
<1>2. CASE Take
  <2>1. task = NoTask /\ taskList # <<>> /\ Head(taskList) \in AllTasks
    BY <1>2, PopFront DEF Take, Inv, TypeOK, ShutdownProtocol
  <2>2. fate[Head(taskList)] = "queued"
    BY <2>1, PopFront DEF Inv, TypeOK, OneOwner, InList
  <2>3. Ended' = Ended
    BY <1>2, <2>1, <2>2 DEF Take, Ended, Inv, TypeOK
  <2>4. Executor!Start
    BY <1>2, <2>1, <2>3 DEF Take, Executor!Start, Ended
  <2> QED BY <2>4 DEF Executor!Next
<1>3. CASE Expire \/ Finish \/ RunTerminate
  <2>1. task \in AllTasks /\ task # NoTask /\ task' = NoTask /\ taskList' = taskList
    BY <1>3, TaskAssumption
    DEF Expire, Finish, RunTerminate, Inv, TypeOK, ShutdownProtocol, AllTasks
  <2>2. Ended' = Ended \union {task}
    BY <1>3, <2>1 DEF Expire, Finish, RunTerminate, Ended, Inv, TypeOK
  <2>3. (threadState = "RUNNING")' <=> threadState = "RUNNING"
    BY <1>3, TaskAssumption
    DEF Expire, Finish, RunTerminate, Inv, TypeOK, OneOwner, ShutdownProtocol, AllTasks
  <2>4. Executor!End
    BY <2>1, <2>2, <2>3 DEF Executor!End, Ended
  <2> QED BY <2>4 DEF Executor!Next
<1>4. CASE Stop
  <2>1. Executor!Close
    BY <1>4 DEF Stop, Executor!Close, Inv, ShutdownProtocol
  <2> QED BY <2>1 DEF Executor!Next
<1>5. CASE Shutdown
  <2>1. threadState # "RUNNING" /\ threadState' = threadState /\ task' = task
    BY <1>5, TaskAssumption DEF Shutdown, Inv, TypeOK, OneOwner, ShutdownProtocol, AllTasks
  <2>2. Executor!Fresh(Terminate)
    BY <1>5, TaskAssumption DEF Shutdown, Inv, OneOwner, InList, AllTasks, Executor!Fresh
  <2>3. Ended' = Ended
    BY <1>5 DEF Shutdown, Ended, Inv, TypeOK, AllTasks
  <2>4. Executor!PostTerminate
    BY <1>5, <2>1, <2>2, <2>3 DEF Shutdown, Executor!PostTerminate, Ended
  <2> QED BY <2>4 DEF Executor!Next
<1>6. CASE RequestShutdown
  <2>1. Executor!Post(ShutdownTask) \/ Executor!Discard(ShutdownTask)
    BY <1>6, AddTaskRefines DEF RequestShutdown, Callers
  <2> QED BY <2>1 DEF Executor!Next, AllTasks
<1>7. ASSUME NEW c \in Callers, NEW t \in Tasks, NEW front \in BOOLEAN, Post(c, t, front)
      PROVE  Executor!Next
  <2>1. Executor!Post(t) \/ Executor!Discard(t)
    BY <1>7, AddTaskRefines DEF Post
  <2> QED BY <2>1 DEF Executor!Next, AllTasks
<1> QED
  BY <1>1, <1>2, <1>3, <1>4, <1>5, <1>6, <1>7 DEF Next, ThreadStep, Terminated

(* The thread, its lock and its signal implement the sequential executor:  *)
(* tasks run one at a time, in queue order, each at most once, and nothing *)
(* but the terminating task is accepted after stop().                      *)
THEOREM ImplementsTaskExecutor == Safety => ImplementsExecutorSafety
<1>1. Init => Executor!Init
  BY DEF Init, Executor!Init
<1> QED BY <1>1, Invariance, StepRefines, PTL
        DEF Safety, ImplementsExecutorSafety, Executor!Safety
=============================================================================
