--------------------------- MODULE MCLeaseManager ---------------------------
(* LeaseManager on a small instance: two workers that are interchangeable. *)
EXTENDS LeaseManager, TLC

CONSTANTS w1, w2

MCWorkers == {w1, w2}

MCSymmetry == Permutations(MCWorkers)
=============================================================================
