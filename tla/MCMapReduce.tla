---------------------------- MODULE MCMapReduce ----------------------------
(* Small instances of MapReduce for TLC. *)
EXTENDS MapReduce, TLC

CONSTANTS w1, w2

TwoWorkers == {w1, w2}

Symmetry == Permutations(TwoWorkers)
=============================================================================
