----------------------------- MODULE MCWaitList -----------------------------
(* Two places, a gamemaster who needs none, and three clients who want     *)
(* them; enough time for a place in the list to be abandoned.              *)
EXTENDS WaitList

CONSTANTS gm, c1, c2, c3

MCSymmetry == Permutations({c1, c2, c3})
=============================================================================
