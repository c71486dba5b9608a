------------------------------ MODULE MCParty -------------------------------
(* Four players, one of whom never has to fight, and two parties: one may  *)
(* invite the leader or a member of the other, a leader may leave behind   *)
(* two members, one, or only invitees, and a deleted party comes back as   *)
(* another.                                                                *)
EXTENDS Party, TLC

CONSTANTS alice, bob, carol, gm, party1, party2

MCPlayers == {alice, bob, carol, gm}
MCParties == {party1, party2}
MCSymmetry == Permutations({alice, bob, carol}) \union Permutations(MCParties)
=============================================================================
