------------------------------ MODULE MCDedupe ------------------------------
(* Dedupe on two values, so that runs of one follow runs of the other.      *)
EXTENDS Dedupe, TLC

CONSTANTS a, b

MCSymmetry == Permutations(Value)
=============================================================================
