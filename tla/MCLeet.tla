------------------------------- MODULE MCLeet -------------------------------
(* Inputs of up to four numbers. *)
EXTENDS Leet

MCNum == -1 .. 3

MCWords == UNION {[1 .. n -> {0, 1}] : n \in 0 .. 2} \cup {<<1, 2, 1>>, <<2, 0, 1>>}

MCMatrices == [1 .. 3 -> [1 .. 3 -> {0, 1}]] \cup [1 .. 2 -> [1 .. 3 -> {0, 1}]]
=============================================================================
