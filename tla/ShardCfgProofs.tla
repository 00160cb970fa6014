--------------------------- MODULE ShardCfgProofs ---------------------------
(* Rebalance leaves every configuration balanced, for any number of shards *)
(* and any groups.                                                         *)
EXTENDS ShardCfg, FiniteSetTheorems, TLAPS

\* BalancedAfterCall, strengthened by what the two loops of Rebalance have done so
\* far: the first has assigned the shards below i, the second keeps all assigned.
BalanceInv ==
  /\ TypeOK
  /\ pc = "assign" => \A s \in 0 .. i - 1 : Groups # {} => Shards[s] \in Groups
  /\ pc = "move" => \A s \in Shard : Shards[s] \in Groups
  /\ BalancedAfterCall

\* analyze counts with natural numbers.
LEMMA CountType == ASSUME NEW sh, NEW g PROVE Count(sh, g) \in Nat
<1>1. IsFiniteSet(Shard)
  BY ShardCfgAssumption, FS_Interval DEF Shard
<1>2. IsFiniteSet({s \in Shard : sh[s] = g})
  BY <1>1, FS_Subset
<1> QED BY <1>2, FS_CardinalityType DEF Count

\* The exit condition of the second loop, on the most and the least loaded
\* groups, is about any two groups.
LEMMA EnoughBalances ==
  ASSUME NEW mg \in Groups, NEW lg \in Groups, Most(mg), Least(lg), Enough(mg, lg)
  PROVE  \A g, h \in Groups : Count(Shards, g) <= Count(Shards, h) + 1
<1> SUFFICES ASSUME NEW g \in Groups, NEW h \in Groups
             PROVE  Count(Shards, g) <= Count(Shards, h) + 1
  OBVIOUS
<1>1. /\ Count(Shards, g) \in Nat /\ Count(Shards, h) \in Nat
      /\ Count(Shards, mg) \in Nat /\ Count(Shards, lg) \in Nat
  BY CountType
<1>2. \/ Count(Shards, g) < Count(Shards, mg)
      \/ Count(Shards, g) = Count(Shards, mg)
  BY DEF Most
<1>3. \/ Count(Shards, h) > Count(Shards, lg)
      \/ Count(Shards, h) = Count(Shards, lg)
  BY DEF Least
<1>4. Count(Shards, mg) < Count(Shards, lg) + 2
  BY DEF Enough
<1> QED BY <1>1, <1>2, <1>3, <1>4

\* MakeShardConfig's empty configuration satisfies the invariant.
LEMMA BalanceInit == Init => BalanceInv
  BY ShardCfgAssumption DEF Init, BalanceInv, TypeOK, BalancedAfterCall, CheckConfig, Shard

\* Every round of a loop of Join, Leave and Rebalance keeps it.
LEMMA BalanceStep == BalanceInv /\ [Next]_vars => BalanceInv'
<1> SUFFICES ASSUME BalanceInv, [Next]_vars PROVE BalanceInv'
  OBVIOUS
<1> USE ShardCfgAssumption DEF BalanceInv, TypeOK
<1>1. ASSUME NEW n \in 0 .. MaxGids, NEW gids \in [1 .. n -> Gid], NEW op \in {"join", "leave"},
             Call(op, gids)
      PROVE  BalanceInv'
  <2>1. gids \in Seq(Gid)
    OBVIOUS
  <2> QED BY <1>1, <2>1 DEF Call, config, BalancedAfterCall
<1>2. CASE JoinGroup
  <2>1. /\ Tail(args) \in Seq(Gid) /\ Head(args) \in Gid
        /\ pc = "join" /\ UNCHANGED <<Num, Shards, before>>
    BY <1>2 DEF JoinGroup
  <2>2. CASE Return(FALSE) /\ Groups' = Groups
    BY <2>1, <2>2 DEF Return, BalancedAfterCall
  <2>3. CASE pc' = "exited" /\ UNCHANGED <<args, i, result, Groups>>
    BY <2>1, <2>3 DEF BalancedAfterCall
  <2>4. CASE Groups' = Groups \cup {Head(args)} /\ args' = Tail(args) /\ UNCHANGED <<pc, i, result>>
    BY <2>1, <2>4 DEF BalancedAfterCall
  <2> QED BY <1>2, <2>2, <2>3, <2>4 DEF JoinGroup
<1>3. CASE LeaveGroup
  <2>1. /\ Tail(args) \in Seq(Gid)
        /\ pc = "leave" /\ UNCHANGED <<Num, Shards, before>>
    BY <1>3 DEF LeaveGroup
  <2>2. CASE Return(FALSE) /\ Groups' = Groups
    BY <2>1, <2>2 DEF Return, BalancedAfterCall
  <2>3. CASE Groups' = Groups \ {Head(args)} /\ args' = Tail(args) /\ UNCHANGED <<pc, i, result>>
    BY <2>1, <2>3 DEF BalancedAfterCall
  <2> QED BY <1>3, <2>2, <2>3 DEF LeaveGroup
<1>4. CASE Accept
  BY <1>4 DEF Accept, BalancedAfterCall
<1>5. CASE Unassign
  <2>1. CheckConfig(Shards', Groups')
    BY <1>5 DEF Unassign, CheckConfig
  <2> QED BY <1>5, <2>1 DEF Unassign, Return, BalancedAfterCall
<1>6. CASE AssignShard
  <2>1. PICK lg \in Groups : Shards' = IF Shards[i] \in Groups THEN Shards ELSE [Shards EXCEPT ![i] = lg]
    BY <1>6 DEF AssignShard
  <2>2. i \in Shard /\ i' = i + 1 /\ i' \in 0 .. NShards
    BY <1>6 DEF AssignShard, Shard
  <2>3. Shards' \in [Shard -> Gid \cup {0}] /\ Shards'[i] \in Groups
    BY <2>1, <2>2
  <2>4. \A s \in 0 .. i' - 1 : Shards'[s] \in Groups
    BY <1>6, <2>1, <2>2, <2>3 DEF AssignShard, Shard
  <2> QED BY <1>6, <2>2, <2>3, <2>4 DEF AssignShard, BalancedAfterCall
<1>7. CASE AssignEnd
  BY <1>7 DEF AssignEnd, config, BalancedAfterCall, Shard
<1>8. CASE MoveShard
  <2>1. PICK lg \in Groups, s \in Shard : Shards' = [Shards EXCEPT ![s] = lg]
    BY <1>8 DEF MoveShard
  <2>2. Shards' \in [Shard -> Gid \cup {0}] /\ \A u \in Shard : Shards'[u] \in Groups
    BY <1>8, <2>1 DEF MoveShard
  <2> QED BY <1>8, <2>2 DEF MoveShard, BalancedAfterCall
<1>9. CASE MoveEnd
  <2>1. CheckConfig(Shards, Groups)
    BY <1>9, EnoughBalances DEF MoveEnd, CheckConfig
  <2> QED BY <1>9, <2>1 DEF MoveEnd, Return, config, BalancedAfterCall
<1>10. CASE UNCHANGED vars
  BY <1>10 DEF vars, config, BalancedAfterCall
<1> QED BY <1>1, <1>2, <1>3, <1>4, <1>5, <1>6, <1>7, <1>8, <1>9, <1>10 DEF Next, Work, Stop

\* Every JoinBalance and LeaveBalance that succeeds leaves every shard with a
\* group, and no group with two shards more than another, whatever calls were
\* refused before it and at which point.
THEOREM Balanced == Spec => []BalancedAfterCall
<1>1. BalanceInv => BalancedAfterCall
  BY DEF BalanceInv
<1> QED BY <1>1, BalanceInit, BalanceStep, PTL DEF Spec
=============================================================================
