---------------------------- MODULE MCSupervisor ----------------------------
(* Supervisor on small instances; each run's .cfg gives the bounds.        *)
EXTENDS Supervisor, TLC

CONSTANTS c1, c2

MCNamedCfg == {c1}

MCSymmetry == Permutations(Worker)
=============================================================================
