---------------------------- MODULE MCTelegrams -----------------------------
(* Telegrams with tunnels of three sequence numbers.                       *)
EXTENDS Telegrams, TLC

CONSTANTS s1, s2

MCSymmetry == Permutations(Sender)
=============================================================================
