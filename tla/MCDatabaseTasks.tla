-------------------------- MODULE MCDatabaseTasks ---------------------------
(* One thread besides the dispatcher queues queries (IOBan, on the network *)
(* thread); the game is saved at most MaxFlushes times before it ends.     *)
EXTENDS DatabaseTasks

CONSTANTS network, dispatcher, database, q1, q2, q3

MCProducers == {network}
MCQueries == {q1, q2, q3}
MCWithCallback == {q1, q2}
=============================================================================
