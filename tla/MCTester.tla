------------------------------ MODULE MCTester ------------------------------
(* Three servers, and a client that may talk to two of them. *)
EXTENDS Tester

MCServer == 0 .. 2

MCClientTo == [c \in Client |-> {0, 1}]
=============================================================================
