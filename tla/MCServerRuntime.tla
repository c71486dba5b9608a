-------------------------- MODULE MCServerRuntime ---------------------------
(* One event, one query with a callback, and a signal that may come twice. *)
EXTENDS ServerRuntime

CONSTANTS sigint, sigterm, e1, q1, cb1

MCSignals == {sigint, sigterm}
MCCallbackOf == [q \in {q1} |-> cb1]
=============================================================================
