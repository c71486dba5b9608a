----------------------------- MODULE MCSession ------------------------------
(* Two connections log the same character in, one after the other or at    *)
(* the same time; each can create one Player object.  A replacement takes  *)
(* one protocol that is in the game and one that comes.                    *)
EXTENDS Session

MCConfigs == {[allowClones |-> FALSE, replaceKick |-> b] : b \in BOOLEAN}
=============================================================================
