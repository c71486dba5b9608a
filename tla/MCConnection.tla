---------------------------- MODULE MCConnection ----------------------------
(* Three calls by the dispatcher let two messages queue up behind a write  *)
(* and a close follow them; two expired timers can be outstanding.         *)
EXTENDS Connection
=============================================================================
