------------------------------ MODULE MCKVTest ------------------------------
(* Two clients of kvtest, one with two iterations and one with one. *)
EXTENDS KVTest

MCClient == 0 .. 1

MCKey == {"k", "k0", "k1"}

MCKeyOf == [c \in Client |-> IF c = 0 THEN "k0" ELSE "k1"]

MCMaxIters == [c \in Client |-> IF c = 0 THEN 2 ELSE 1]

MCValue == {""} \cup Texts
=============================================================================
