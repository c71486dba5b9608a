---------------------------- MODULE MCScheduler -----------------------------
(* The dispatcher thread and the network thread add and stop events; the   *)
(* clock runs from 0 to MaxTime.                                           *)
EXTENDS Scheduler

CONSTANTS dispatcher, network, e1, e2, e3

MCCallers == {dispatcher, network}
MCEvents == {e1, e2, e3}
MCTwoEvents == {e1, e2}
=============================================================================
