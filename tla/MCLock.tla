------------------------------- MODULE MCLock -------------------------------
(* Instances of Lock for TLC.                                              *)
EXTENDS LockProofs, TLC

\* Every client has a name of its own, as in lock_test.go.
OwnNames == [c \in Client |-> c]
OwnValues == Client \cup {""}
=============================================================================
