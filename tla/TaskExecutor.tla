---------------------------- MODULE TaskExecutor ----------------------------
(***************************************************************************)
(* What the game's code relies on when it calls g_dispatcher.addTask: one  *)
(* executor runs the posted tasks one at a time, in queue order, each at   *)
(* most once, and as long as tasks are pending it goes on starting them.   *)
(* Nothing here mentions locks, signals or threads; Dispatcher is shown to *)
(* implement this module.                                                  *)
(***************************************************************************)
EXTENDS Naturals, Sequences

CONSTANTS AllTasks,     \* every Task object that may ever be posted
          Terminate,    \* the task that ends the executor
          NoTask        \* nothing is running

VARIABLES accepting,    \* may ordinary tasks still be posted?
          pending,      \* the tasks waiting, in the order they will start
          running,      \* the task being executed, or NoTask
          ended         \* tasks executed, expired or discarded

vars == <<accepting, pending, running, ended>>

Fresh(t) == /\ t \notin ended
            /\ t # running
            /\ \A i \in DOMAIN pending : pending[i] # t

Init == /\ accepting = TRUE
        /\ pending = <<>>
        /\ running = NoTask
        /\ ended = {}

(* Ordinary tasks go to either end of the queue; the events of the         *)
(* scheduler overtake what is waiting.                                     *)
Post(t) == /\ accepting
           /\ t # Terminate
           /\ Fresh(t)
           /\ pending' \in {Append(pending, t), <<t>> \o pending}
           /\ UNCHANGED <<accepting, running, ended>>

Discard(t) == /\ ~accepting
              /\ t # Terminate
              /\ Fresh(t)
              /\ ended' = ended \union {t}
              /\ UNCHANGED <<accepting, pending, running>>

Close == /\ accepting
         /\ accepting' = FALSE
         /\ UNCHANGED <<pending, running, ended>>

(* Only a closed executor is given its last task, so nothing is ever       *)
(* queued behind it.                                                       *)
PostTerminate == /\ ~accepting
                 /\ Fresh(Terminate)
                 /\ pending' = Append(pending, Terminate)
                 /\ UNCHANGED <<accepting, running, ended>>

Start == /\ running = NoTask
         /\ pending # <<>>
         /\ running' = Head(pending)
         /\ pending' = Tail(pending)
         /\ UNCHANGED <<accepting, ended>>

End == /\ running # NoTask
       /\ ended' = ended \union {running}
       /\ running' = NoTask
       /\ UNCHANGED <<accepting, pending>>

Next == \/ \E t \in AllTasks : Post(t) \/ Discard(t)
        \/ Close
        \/ PostTerminate
        \/ Start
        \/ End

Safety == Init /\ [][Next]_vars

(* A pending task is started and a started task ends: the executor never   *)
(* falls asleep on a non-empty queue.                                      *)
Spec == Safety /\ WF_vars(Start) /\ WF_vars(End)
=============================================================================
