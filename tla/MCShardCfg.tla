----------------------------- MODULE MCShardCfg -----------------------------
(* An instance of ShardCfg for TLC.                                        *)
EXTENDS ShardCfg

\* The last group lists a server of the first.
Shared == [g \in Gid |-> IF g = 4 THEN {1, 4} ELSE {g}]
=============================================================================
