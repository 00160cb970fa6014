------------------------------- MODULE MCRaft -------------------------------
(* Instances of Raft for TLC.                                              *)
EXTENDS Raft

CONSTANTS s0, s1, s2, s3, s4

TwoServers == {s0, s1}
ThreeServers == {s0, s1, s2}
FiveServers == {s0, s1, s2, s3, s4}

\* One server calls Elect once and another twice.
OnceAndTwice == [s \in Server |-> CASE s = s0 -> 1 [] s = s1 -> 2 [] OTHER -> 0]

\* Two servers call Elect once.
TwoOnce == [s \in Server |-> IF s \in {s0, s1} THEN 1 ELSE 0]

\* The server that calls Elect twice sends heartbeats once; no server sends any.
OneBeat == [s \in Server |-> IF s = s1 THEN 1 ELSE 0]
NoBeat == [s \in Server |-> 0]
=============================================================================
