------------------------------ MODULE ShardCfg ------------------------------
(***************************************************************************)
(* shardkv1/shardcfg: configurations that assign shards to groups, changed *)
(* by JoinBalance and LeaveBalance, one call after the other.              *)
(*                                                                         *)
(* A step is one round of a loop.  A call that is refused halfway, because *)
(* it names a group a second time or one that is not there, keeps what it  *)
(* has done to Groups, and the next call starts from there.                *)
(***************************************************************************)
EXTENDS Integers, Sequences, FiniteSets

CONSTANTS
  NShards,   \* the number of shards
  Gid,       \* the groups that may join, positive numbers
  Servers,   \* Servers[g]: the servers group g joins with
  MaxGids,   \* how many groups one call names
  MaxNum     \* how many calls succeed

ASSUME ShardCfgAssumption ==
  /\ NShards \in 0 .. 256   \* analyze starts from a least count of 257
  /\ Gid \subseteq Nat \ {0} /\ IsFiniteSet(Gid)
  /\ MaxGids \in Nat \ {0} /\ MaxNum \in Nat

VARIABLES
  Num, Shards, Groups,   \* the ShardConfig; Groups is the domain of its map
  pc,        \* the loop the call is in
  args,      \* the groups it has still to join or leave
  i,         \* the next shard of Rebalance's first loop
  result,    \* what the last call returned
  before     \* the configuration when the call started

config == <<Num, Shards, Groups>>
vars == <<config, pc, args, i, result, before>>

Shard == 0 .. NShards - 1

-----------------------------------------------------------------------------
(* analyze: the most and the least loaded groups.                          *)

Count(sh, g) == Cardinality({s \in Shard : sh[s] = g})

\* Of several groups with as many shards, analyze takes the first in order.
Most(g) ==
  /\ g \in Groups
  /\ \A h \in Groups : \/ Count(Shards, h) < Count(Shards, g)
                       \/ Count(Shards, h) = Count(Shards, g) /\ g <= h

Least(g) ==
  /\ g \in Groups
  /\ \A h \in Groups : \/ Count(Shards, h) > Count(Shards, g)
                       \/ Count(Shards, h) = Count(Shards, g) /\ g <= h

-----------------------------------------------------------------------------
\* MakeShardConfig.
Init ==
  /\ Num = 0 /\ Shards = [s \in Shard |-> 0] /\ Groups = {}
  /\ pc = "idle" /\ args = <<>> /\ i = 0 /\ result = "ok"
  /\ before = [Shards |-> Shards, Groups |-> Groups]

\* The call returns.
Return(ok) == pc' = "idle" /\ result' = (IF ok THEN "ok" ELSE "refused") /\ args' = <<>> /\ i' = 0

\* JoinBalance(servers) and LeaveBalance(gids).  The groups of a Join are the keys
\* of a map, which Go visits in any order; those of a Leave may repeat.  A call
\* that names no group ends the process.
Call(op, gids) ==
  /\ pc = "idle" /\ Num < MaxNum
  /\ op = "join" => \A j, k \in DOMAIN gids : gids[j] = gids[k] => j = k
  /\ pc' = (IF gids = <<>> THEN "exited" ELSE op) /\ args' = gids
  /\ result' = "none"
  /\ before' = [Shards |-> Shards, Groups |-> Groups]
  /\ UNCHANGED <<config, i>>

\* A group that joins must not share a server with another one.
Clash(g) == \E h \in Groups : Servers[g] \cap Servers[h] # {}

\* Join, for one group: refuse one that is there, give up on a clash, or add it.
JoinGroup ==
  /\ pc = "join" /\ args # <<>>
  /\ LET g == Head(args) IN
     \/ g \in Groups /\ Return(FALSE) /\ UNCHANGED Groups
     \/ g \notin Groups /\ Clash(g) /\ pc' = "exited" /\ UNCHANGED <<args, i, result, Groups>>
     \/ /\ g \notin Groups /\ ~Clash(g)
        /\ Groups' = Groups \cup {g} /\ args' = Tail(args)
        /\ UNCHANGED <<pc, i, result>>
  /\ UNCHANGED <<Num, Shards, before>>

\* Leave, for one group: refuse one that is not there, or remove it.
LeaveGroup ==
  /\ pc = "leave" /\ args # <<>>
  /\ LET g == Head(args) IN
     \/ g \notin Groups /\ Return(FALSE) /\ UNCHANGED Groups
     \/ /\ g \in Groups
        /\ Groups' = Groups \ {g} /\ args' = Tail(args)
        /\ UNCHANGED <<pc, i, result>>
  /\ UNCHANGED <<Num, Shards, before>>

\* Join or Leave has succeeded: Rebalance follows.
Accept ==
  /\ pc \in {"join", "leave"} /\ args = <<>>
  /\ Num' = Num + 1
  /\ pc' = "assign" /\ i' = 0
  /\ UNCHANGED <<Shards, Groups, args, result, before>>

\* Rebalance without groups: no shard is assigned.
Unassign ==
  /\ pc = "assign" /\ Groups = {}
  /\ Shards' = [s \in Shard |-> 0]
  /\ Return(TRUE)
  /\ UNCHANGED <<Num, Groups, before>>

\* Faulty: analyze's "no group" is assigned when all have left.
AssignShardMinus ==
  /\ pc = "assign" /\ i < NShards
  /\ \E lg \in Groups \cup {-1} :
       /\ IF Groups = {} THEN lg = -1 ELSE Least(lg)
       /\ Shards' = IF Shards[i] \in Groups THEN Shards ELSE [Shards EXCEPT ![i] = lg]
  /\ i' = i + 1
  /\ UNCHANGED <<Num, Groups, pc, args, result, before>>

\* Faulty: only shards that were never assigned get a group.
AssignShardZero ==
  /\ pc = "assign" /\ Groups # {} /\ i < NShards
  /\ \E lg \in Groups :
       Least(lg) /\ Shards' = IF Shards[i] # 0 THEN Shards ELSE [Shards EXCEPT ![i] = lg]
  /\ i' = i + 1
  /\ UNCHANGED <<Num, Groups, pc, args, result, before>>

\* Faulty: all of them go to the first group, and the next loop evens it out.
AssignShardFirst ==
  /\ pc = "assign" /\ Groups # {} /\ i < NShards
  /\ \E lg \in Groups :
       /\ \A g \in Groups : lg <= g
       /\ Shards' = IF Shards[i] \in Groups THEN Shards ELSE [Shards EXCEPT ![i] = lg]
  /\ i' = i + 1
  /\ UNCHANGED <<Num, Groups, pc, args, result, before>>

\* The first loop: a shard without a group goes to the least loaded one.
AssignShard ==
  /\ pc = "assign" /\ Groups # {} /\ i < NShards
  /\ \E lg \in Groups :
       Least(lg) /\ Shards' = IF Shards[i] \in Groups THEN Shards ELSE [Shards EXCEPT ![i] = lg]
  /\ i' = i + 1
  /\ UNCHANGED <<Num, Groups, pc, args, result, before>>

AssignEnd ==
  /\ pc = "assign" /\ Groups # {} /\ i = NShards
  /\ pc' = "move"
  /\ UNCHANGED <<config, args, i, result, before>>

\* Faulty: a difference of one shard is evened out, too.
EnoughNever(mg, lg) == Count(Shards, mg) < Count(Shards, lg) + 1

\* "mn < ln+2" ends the second loop.
Enough(mg, lg) == Count(Shards, mg) < Count(Shards, lg) + 2

\* The second loop: the first shard of the most loaded group moves to the least
\* loaded one.
MoveShard ==
  /\ pc = "move"
  /\ \E mg, lg \in Groups :
       /\ Most(mg) /\ Least(lg) /\ ~Enough(mg, lg)
       /\ \E s \in Shard : /\ Shards[s] = mg /\ \A u \in 0 .. s - 1 : Shards[u] # mg
                           /\ Shards' = [Shards EXCEPT ![s] = lg]
  /\ UNCHANGED <<Num, Groups, pc, args, i, result, before>>

MoveEnd ==
  /\ pc = "move"
  /\ \E mg, lg \in Groups : Most(mg) /\ Least(lg) /\ Enough(mg, lg)
  /\ Return(TRUE)
  /\ UNCHANGED <<config, before>>

Work == JoinGroup \/ LeaveGroup \/ Accept \/ Unassign \/ AssignShard \/ AssignEnd \/ MoveShard \/ MoveEnd

\* The caller makes no more calls, or log.Fatalf has ended it.
Stop == pc \in {"exited", "idle"} /\ (pc = "idle" => Num = MaxNum) /\ UNCHANGED vars

Next ==
  \/ \E n \in 0 .. MaxGids : \E gids \in [1 .. n -> Gid] : Call("join", gids) \/ Call("leave", gids)
  \/ Work
  \/ Stop

Spec == Init /\ [][Next]_vars

\* A call is a loop without waits: it goes on.
FairSpec == Spec /\ WF_vars(Work)

-----------------------------------------------------------------------------
(* Properties.                                                             *)

\* The types of the configuration and of the call that changes it.
TypeOK ==
  /\ Num \in Nat /\ Shards \in [Shard -> Gid \cup {0}] /\ Groups \subseteq Gid
  /\ pc \in {"idle", "join", "leave", "assign", "move", "exited"}
  /\ args \in Seq(Gid) /\ i \in 0 .. NShards
  /\ result \in {"none", "ok", "refused"}
  /\ before \in [Shards : [Shard -> Gid \cup {0}], Groups : SUBSET Gid]

\* CheckConfig: no shard without a group, and no group with two shards more than
\* another.
CheckConfig(sh, groups) ==
  /\ \A s \in Shard : IF groups = {} THEN sh[s] = 0 ELSE sh[s] \in groups
  /\ \A g, h \in groups : Count(sh, g) <= Count(sh, h) + 1

\* Every JoinBalance and LeaveBalance that succeeds leaves a configuration that
\* CheckConfig accepts, even after calls that were refused halfway.
BalancedAfterCall == pc = "idle" /\ result = "ok" => CheckConfig(Shards, Groups)

\* From a balanced configuration a shard moves only if its group leaves or to a
\* group that joins: Rebalance moves no data between groups that stay.
NoNeedlessMove ==
  pc = "idle" /\ result = "ok" /\ CheckConfig(before.Shards, before.Groups) =>
    \A s \in Shard :
      Shards[s] # before.Shards[s] => before.Shards[s] \notin Groups \/ Shards[s] \notin before.Groups

\* Every call returns or exits: the loop that moves shards ends.
CallsReturn == pc # "idle" ~> pc \in {"idle", "exited"}
=============================================================================
