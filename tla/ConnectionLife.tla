--------------------------- MODULE ConnectionLife ---------------------------
(***************************************************************************)
(* What a Connection promises to its protocol.  It is opened once, it may  *)
(* be closed several times and from any thread, every close after it was   *)
(* bound to a protocol posts Protocol::release to the dispatcher, it never *)
(* opens again, and the object goes away only after it was closed (or if   *)
(* it was never opened).                                                   *)
(***************************************************************************)
EXTENDS Naturals

VARIABLES life,      \* "new", "open", "closed" or "gone"
          bound,     \* a protocol belongs to the connection
          releases   \* tasks with Protocol::release that it has posted

lifeVars == <<life, bound, releases>>

Init == life = "new" /\ bound = FALSE /\ releases = 0

(* Protocols that send first are bound before the connection is open, the  *)
(* others by their first message.                                          *)
Bind == /\ life \in {"new", "open"}
        /\ bound' = TRUE
        /\ UNCHANGED <<life, releases>>

Open == /\ life = "new"
        /\ life' = "open"
        /\ UNCHANGED <<bound, releases>>

(* A connection is bound and closed in one step when its first message is  *)
(* refused, and closed twice in one step when reading goes wrong after it. *)
Close == /\ life # "gone"
         /\ life' = "closed"
         /\ bound' \in {bound, TRUE}
         /\ IF bound' THEN releases' > releases ELSE releases' = releases

Destroy == /\ life \in {"new", "closed"}
           /\ life' = "gone"
           /\ UNCHANGED <<bound, releases>>

Next == Bind \/ Open \/ Close \/ Destroy

Spec == Init /\ [][Next]_lifeVars
=============================================================================
