---------------------------- MODULE MCDispatcher ----------------------------
(* Two threads besides the dispatcher (the scheduler and the network       *)
(* thread), three ordinary tasks, one of them with an expiration.          *)
EXTENDS Dispatcher

CONSTANTS scheduler, network, dispatcher, t1, t2, t3

MCProducers == {scheduler, network}
MCTasks == {t1, t2, t3}
MCTimed == {t2}
=============================================================================
