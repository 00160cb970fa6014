----------------------------- MODULE RaftProofs -----------------------------
(***************************************************************************)
(* Proof that the heartbeats of module Raft follow the role, for every     *)
(* number of servers, elections and heartbeats.                            *)
(***************************************************************************)
EXTENDS Raft, TLAPS

-----------------------------------------------------------------------------
(* The inductive invariant.                                                *)

\* heartbeatCancel refers to a context that is not cancelled exactly while the
\* server is a leader, and then that context is the only one: this is what
\* transitTo relies on when it cancels the context before it starts another.
HeartbeatInv ==
  /\ Role \in [Server -> {"leader", "candidate", "follower"}]
  /\ heartbeatCancel \in [Server -> BOOLEAN]
  /\ contexts \in [Server -> Nat]
  /\ \A s \in Server : /\ heartbeatCancel[s] <=> Role[s] = "leader"
                       /\ contexts[s] = IF Role[s] = "leader" THEN 1 ELSE 0

\* A change of role by any goroutine, whatever the role was before.
LEMMA TransitKeeps ==
  ASSUME HeartbeatInv, NEW s, NEW role \in {"leader", "candidate", "follower"},
         transitTo(s, role)
  PROVE  HeartbeatInv'
<1>1. ASSUME NEW u \in Server, u # s
      PROVE  Role'[u] = Role[u] /\ heartbeatCancel'[u] = heartbeatCancel[u] /\ contexts'[u] = contexts[u]
  BY <1>1 DEF transitTo, HeartbeatInv
<1>2. ASSUME s \in Server
      PROVE  /\ Role'[s] = role /\ heartbeatCancel'[s] = (role = "leader")
             /\ contexts'[s] = contexts[s] - (IF heartbeatCancel[s] THEN 1 ELSE 0)
                                           + (IF role = "leader" THEN 1 ELSE 0)
  BY <1>2 DEF transitTo, HeartbeatInv
<1>3. ASSUME s \in Server
      PROVE  contexts'[s] = IF role = "leader" THEN 1 ELSE 0
  BY <1>2, <1>3 DEF HeartbeatInv
<1>4. ASSUME NEW u \in Server
      PROVE  /\ Role'[u] \in {"leader", "candidate", "follower"}
             /\ heartbeatCancel'[u] \in BOOLEAN /\ contexts'[u] \in Nat
             /\ heartbeatCancel'[u] <=> Role'[u] = "leader"
             /\ contexts'[u] = IF Role'[u] = "leader" THEN 1 ELSE 0
  <2>1. CASE u = s
    <3>1. s \in Server
      BY <1>4, <2>1
    <3>2. Role'[u] = role /\ heartbeatCancel'[u] = (role = "leader")
      BY <1>2, <2>1, <3>1
    <3>3. contexts'[u] = IF role = "leader" THEN 1 ELSE 0
      BY <1>3, <2>1, <3>1
    <3>4. contexts'[u] \in Nat
      BY <3>3
    <3>5. heartbeatCancel'[u] \in BOOLEAN /\ (heartbeatCancel'[u] <=> Role'[u] = "leader")
      BY <3>2, Zenon
    <3>6. QED
      BY <3>2, <3>3, <3>4, <3>5, Zenon
  <2>2. CASE u # s
    BY <1>1, <1>4, <2>2 DEF HeartbeatInv
  <2>3. QED
    BY <2>1, <2>2
<1>5. /\ Role' = [u \in Server |-> Role'[u]]
      /\ heartbeatCancel' = [u \in Server |-> heartbeatCancel'[u]]
      /\ contexts' = [u \in Server |-> contexts'[u]]
  BY DEF transitTo, HeartbeatInv
<1>6. QED
  BY <1>4, <1>5 DEF HeartbeatInv

\* What does not change a role keeps the invariant.
LEMMA SameRoles ==
  ASSUME HeartbeatInv, UNCHANGED roleVars
  PROVE  HeartbeatInv'
  BY DEF HeartbeatInv, roleVars

-----------------------------------------------------------------------------
(* The steps.                                                              *)

\* The loop of Elect.
LEMMA MainKeeps ==
  ASSUME HeartbeatInv, NEW s \in Server, NEW k \in DOMAIN elections[s], MainStep(s, k)
  PROVE  HeartbeatInv'
<1>1. CASE TakeTerm(s, k)
  BY <1>1, TransitKeeps DEF TakeTerm, StepDown
<1>2. CASE WinElection(s, k)
  BY <1>2, TransitKeeps DEF WinElection, Lead
<1>3. CASE ResetVotes(s, k) \/ TakeVote(s, k) \/ Won(s, k) \/ ElectTimeout(s, k)
  <2>1. UNCHANGED raftVars
    BY <1>3 DEF ResetVotes, TakeVote, Won, ElectTimeout
  <2>2. QED
    BY <2>1, SameRoles DEF raftVars, roleVars
<1>4. QED
  BY <1>1, <1>2, <1>3 DEF MainStep

\* The goroutines of Elect and the RequestVote handlers they wait for.
LEMMA AskKeeps ==
  ASSUME HeartbeatInv, NEW s \in Server, NEW k \in DOMAIN elections[s], NEW p,
         RequestVote(s, k, p) \/ Ask(s, k, p)
  PROVE  HeartbeatInv'
<1>1. CASE LeadNow(s, k, p)
  <2>1. CASE Lead(s)
    BY <2>1, TransitKeeps DEF Lead
  <2>2. CASE UNCHANGED raftVars
    BY <2>2, SameRoles DEF raftVars, roleVars
  <2>3. QED
    BY <1>1, <2>1, <2>2 DEF LeadNow
<1>2. CASE Follow(s, k, p)
  BY <1>2, TransitKeeps DEF Follow, StepDown
<1>3. CASE GrantVote(s, k, p)
  BY <1>3, SameRoles DEF GrantVote
<1>4. CASE \/ ReadTerm(s, k, p) \/ CheckTerm(s, k, p) \/ CheckVote(s, k, p)
           \/ BuildRequest(s, k, p) \/ LoseVoteCall(s, k, p) \/ SendResult(s, k, p) \/ CountVote(s, k, p)
           \/ CheckHigher(s, k, p)
  <2>1. UNCHANGED raftVars
    BY <1>4 DEF ReadTerm, CheckTerm, CheckVote, BuildRequest, LoseVoteCall, SendResult, CountVote,
                CheckHigher
  <2>2. QED
    BY <2>1, SameRoles DEF raftVars, roleVars
<1>5. QED
  BY <1>1, <1>2, <1>3, <1>4 DEF RequestVote, Ask

\* Heartbeats: the AppendEntries handler and the goroutine that waits for it.
LEMMA BeatKeeps ==
  ASSUME HeartbeatInv, NEW b, NEW p, SendBeat(b) \/ Beat(b, p)
  PROVE  HeartbeatInv'
<1>1. CASE AppendEntries(b, p)
  <2>1. CASE transitTo(p, "follower")
    BY <2>1, TransitKeeps
  <2>2. CASE UNCHANGED roleVars
    BY <2>2, SameRoles
  <2>3. QED
    BY <1>1, <2>1, <2>2 DEF AppendEntries, HeartbeatToCandidate, HeartbeatToFollower,
                            HeartbeatToLeader
<1>2. CASE BeatFollow(b, p)
  BY <1>2, TransitKeeps DEF BeatFollow
<1>3. CASE SendBeat(b) \/ LoseBeatCall(b, p) \/ BeatReply(b, p)
  <2>1. UNCHANGED raftVars
    BY <1>3 DEF SendBeat, LoseBeatCall, BeatReply
  <2>2. QED
    BY <2>1, SameRoles DEF raftVars, roleVars
<1>4. QED
  BY <1>1, <1>2, <1>3 DEF Beat

\* Every step of the system.
LEMMA HeartbeatStep == HeartbeatInv /\ [Next]_vars => HeartbeatInv'
<1> SUFFICES ASSUME HeartbeatInv, [Next]_vars
             PROVE  HeartbeatInv'
  OBVIOUS
<1>1. ASSUME NEW s \in Server, Elect(s)
      PROVE  HeartbeatInv'
  BY <1>1, TransitKeeps DEF Elect
<1>2. ASSUME NEW s \in Server, Tick(s) \/ StartBeat(s)
      PROVE  HeartbeatInv'
  BY <1>2, SameRoles DEF Tick, StartBeat, raftVars, roleVars
<1>3. CASE Sleep \/ UNCHANGED vars
  BY <1>3, SameRoles DEF Sleep, vars, raftVars, roleVars
<1>4. QED
  BY <1>1, <1>2, <1>3, MainKeeps, AskKeeps, BeatKeeps DEF Next

\* For any number of servers, and however the goroutines of several elections, the
\* handlers and the heartbeats interleave, exactly the leaders have a sendHeartbeats
\* that is not cancelled, and none has two.
THEOREM HeartbeatsFollowRole == Spec => []OneHeartbeat
<1>1. Init => HeartbeatInv
  BY DEF Init, HeartbeatInv
<1>2. HeartbeatInv => OneHeartbeat
  BY DEF HeartbeatInv, OneHeartbeat
<1>3. QED
  BY <1>1, <1>2, HeartbeatStep, PTL DEF Spec
=============================================================================
