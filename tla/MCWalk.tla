------------------------------- MODULE MCWalk -------------------------------
(* Paths of one and two steps, two actions, and events enough for a stale  *)
(* one of each kind beside those in use; a step takes longer than the tick *)
(* after which a first step is followed up.                                *)
EXTENDS Walk, TLC

CONSTANTS a1, a2

MCSymmetry == Permutations({a1, a2})
=============================================================================
