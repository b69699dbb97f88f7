----------------------------- MODULE MCPipeline -----------------------------
(* Pipeline on two values that can be stored, and null.                    *)
EXTENDS Pipeline, TLC

CONSTANTS a, b

MCSymmetry == Permutations({a, b})
=============================================================================
