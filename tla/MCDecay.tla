------------------------------ MODULE MCDecay -------------------------------
(* A corpse that turns to bones and then to ash, which vanishes; a torch   *)
(* that burns down, can be put out and lit again, and may lie in them; and *)
(* an object for what is made new.                                         *)
EXTENDS Decay

CONSTANTS corpse, torch, spare

MCTypes == {"corpse", "bones", "ash", "lit", "unlit"}
MCDecayTime == [corpse |-> 1, bones |-> 1, ash |-> 1, lit |-> 2, unlit |-> 0]
MCDecayTo == [corpse |-> "bones", bones |-> "ash", ash |-> Gone, lit |-> Gone,
              unlit |-> Never]
MCStopTime == {"unlit"}
MCContainers == {"corpse", "bones"}
MCStartType == (corpse :> "corpse") @@ (torch :> "lit") @@ (spare :> "ash")
MCStartParent == (corpse :> World) @@ (torch :> corpse) @@ (spare :> Nowhere)
=============================================================================
