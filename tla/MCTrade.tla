------------------------------ MODULE MCTrade -------------------------------
(* Three players, so that one can interfere with the trade of two others;  *)
(* a bag and a gem, which can be inside it; three tiles, the outer ones    *)
(* too far apart to trade.                                                 *)
EXTENDS Trade, TLC

CONSTANTS alice, bob, carol, bag, gem

MCPlayers == {alice, bob, carol}
MCStartPos == (alice :> 0) @@ (bob :> 1) @@ (carol :> 1)
MCStartParent == (bag :> alice) @@ (gem :> bob)
=============================================================================
