-------------------------------- MODULE Raft --------------------------------
(***************************************************************************)
(* Leader election of raft1/raft.go: the ticker, Elect with one goroutine  *)
(* per peer, the RequestVote and AppendEntries handlers and the heartbeats *)
(* of a leader.                                                            *)
(*                                                                         *)
(* The code holds rf.mu only around some of its accesses.  A step is one   *)
(* locked block, or one unlocked access of rf.term, rf.Role, rf.voteFor or *)
(* votes, so that whatever another goroutine can do between a check and    *)
(* the act it allows is a behaviour here.                                  *)
(*                                                                         *)
(* The log is always empty: Start is not implemented, so logUpToDate is    *)
(* true.  Clocks are left out: a follower's heartbeat timer, the ticker's  *)
(* sleep and the timeout of Elect may expire at any time.                  *)
(***************************************************************************)
EXTENDS Integers, Sequences, FiniteSets

CONSTANTS
  Server,        \* the servers of peers[]
  Zero,          \* the one with index 0
  NoVote,        \* no entry in rf.voteFor
  Unreliable,    \* whether RPCs fail
  MaxElections,  \* MaxElections[s]: how often s calls Elect
  MaxTerm,       \* the highest term
  MaxBeats       \* MaxBeats[s]: how often s sends heartbeats

ASSUME RaftAssumption ==
  /\ IsFiniteSet(Server) /\ Zero \in Server /\ NoVote \notin Server
  /\ Unreliable \in BOOLEAN
  /\ MaxElections \in [Server -> Nat] /\ MaxTerm \in Nat /\ MaxBeats \in [Server -> Nat]

VARIABLES
  Role, term, voteFor, currentLeader,  \* the fields of every Raft
  heartbeatCancel,  \* heartbeatCancel[s]: its context has not been cancelled
  contexts,         \* contexts[s]: how many sendHeartbeats of s are not cancelled
  ticking,          \* ticking[s]: the ticker is on its way into Elect
  elections,        \* elections[s][k]: the k-th call of Elect by s
  beats             \* the calls of broadcastHeartbeat past their check of Role

raftVars == <<Role, term, voteFor, currentLeader, heartbeatCancel, contexts>>
roleVars == <<Role, heartbeatCancel, contexts>>
vars == <<raftVars, ticking, elections, beats>>

Term == 0 .. MaxTerm
Peers(s) == Server \ {s}
Majority(n) == n > Cardinality(Server) \div 2

-----------------------------------------------------------------------------
(* The goroutines and their RPCs.                                          *)

\* Where a goroutine of Elect is.  From "call" to "grant" it waits for the
\* RequestVote handler of its peer, which is at that place.
VotePC == {"build", "call", "older?", "voted?", "grant", "replied",
           "count", "won?", "higher?", "follow", "done"}

Asker == [pc : VotePC, Term : Term, replyTerm : Term, VoteGranted : BOOLEAN]

NewAsker == [pc |-> "build", Term |-> 0, replyTerm |-> 0, VoteGranted |-> FALSE]

Finished(g) == [NewAsker EXCEPT !.pc = "done", !.VoteGranted = g.VoteGranted]

\* A call of Elect up to the goroutines it starts.
NewElection(s, t) ==
  [currentTerm |-> t, main |-> "reset", i |-> 0, votes |-> 1,
   voteCh |-> <<>>, termCh |-> <<>>, peer |-> [p \in Peers(s) |-> NewAsker]]

\* Where the loop of Elect is, and where its goroutine for p.
MainAt(s, k, place) == elections[s][k].main = place
Asking(s, k, p, place) == elections[s][k].peer[p].pc = place

\* When Elect has returned and its goroutines have counted, nobody looks at votes any
\* more.
Settled(x) ==
  IF x.main = "done" /\ \A p \in DOMAIN x.peer : x.peer[p].pc \in {"higher?", "follow", "done"}
  THEN [x EXCEPT !.votes = 1] ELSE x

\* The goroutine for p goes on as g.
Proceed(s, k, p, g) ==
  elections' = [elections EXCEPT ![s][k] = Settled([elections[s][k] EXCEPT !.peer[p] = g])]

BeatCall(pc, t, success) == [pc |-> pc, replyTerm |-> t, Success |-> success]

\* The call of broadcast b to p goes on as r.  When all handlers have run, nobody looks
\* at the request any more.
BeatProceed(b, p, r) ==
  LET x == [beats[b] EXCEPT !.call[p] = r] IN
  beats' = [beats EXCEPT ![b] =
              IF \E q \in DOMAIN x.call : x.call[q].pc = "sent" THEN x ELSE [x EXCEPT !.Term = 0]]

-----------------------------------------------------------------------------
(* Role changes.                                                           *)

\* Faulty: a leader elected again does not cancel its earlier heartbeats.
transitToForgets(s, role) ==
  /\ Role' = [Role EXCEPT ![s] = role]
  /\ heartbeatCancel' = [heartbeatCancel EXCEPT ![s] = (role = "leader")]
  /\ contexts' = [contexts EXCEPT ![s] =
                    IF role = "leader" THEN @ + 1 ELSE @ - (IF heartbeatCancel[s] THEN 1 ELSE 0)]

\* Faulty: the test for a context to cancel is missing.
transitToUnchecked(s, role) ==
  /\ Role' = [Role EXCEPT ![s] = role]
  /\ heartbeatCancel' = [heartbeatCancel EXCEPT ![s] = (role = "leader")]
  /\ contexts' = [contexts EXCEPT ![s] = IF role = "leader" THEN @ ELSE @ - 1]

\* transitTo: cancel the heartbeats, and start new ones for a leader.
transitTo(s, role) ==
  /\ Role' = [Role EXCEPT ![s] = role]
  /\ heartbeatCancel' = [heartbeatCancel EXCEPT ![s] = (role = "leader")]
  /\ contexts' = [contexts EXCEPT ![s] = @ - (IF heartbeatCancel[s] THEN 1 ELSE 0)
                                           + (IF role = "leader" THEN 1 ELSE 0)]

\* The block that takes a higher term from a vote reply and forgets the vote.
StepDown(s, t) ==
  /\ term' = [term EXCEPT ![s] = t]
  /\ transitTo(s, "follower")
  /\ voteFor' = [voteFor EXCEPT ![s][t] = NoVote]
  /\ UNCHANGED currentLeader

\* transitTo(Leader) in its locked block.
Lead(s) ==
  /\ transitTo(s, "leader")
  /\ UNCHANGED <<term, voteFor, currentLeader>>

-----------------------------------------------------------------------------
(* The ticker and Elect.                                                   *)

\* Make: every server starts as a candidate of term 0.
Init ==
  /\ Role = [s \in Server |-> "candidate"]
  /\ term = [s \in Server |-> 0]
  /\ voteFor = [s \in Server |-> [t \in Term |-> NoVote]]
  /\ currentLeader = [s \in Server |-> Zero]
  /\ heartbeatCancel = [s \in Server |-> FALSE]
  /\ contexts = [s \in Server |-> 0]
  /\ ticking = [s \in Server |-> FALSE]
  /\ elections = [s \in Server |-> <<>>]
  /\ beats = <<>>

\* ticker wakes up, reads Role and decides to call Elect.
Tick(s) ==
  /\ ~ticking[s]
  /\ \A k \in DOMAIN elections[s] : elections[s][k].main = "done"
  /\ Len(elections[s]) < MaxElections[s] /\ term[s] < MaxTerm
  /\ Role[s] # "leader"
  /\ ticking' = [ticking EXCEPT ![s] = TRUE]
  /\ UNCHANGED <<raftVars, elections, beats>>

\* Faulty: currentTerm is read before the term is increased.
ElectEarlyTerm(s) ==
  /\ ticking[s] /\ term[s] < MaxTerm
  /\ transitTo(s, "candidate")
  /\ term' = [term EXCEPT ![s] = @ + 1]
  /\ voteFor' = [voteFor EXCEPT ![s][term[s] + 1] = s]
  /\ elections' = [elections EXCEPT ![s] = Append(@, NewElection(s, term[s]))]
  /\ ticking' = [ticking EXCEPT ![s] = FALSE]
  /\ UNCHANGED <<currentLeader, beats>>

\* Elect up to its loop: a new term, the own vote, a goroutine per peer.
Elect(s) ==
  /\ ticking[s] /\ term[s] < MaxTerm
  /\ transitTo(s, "candidate")
  /\ term' = [term EXCEPT ![s] = @ + 1]
  /\ voteFor' = [voteFor EXCEPT ![s][term[s] + 1] = s]
  /\ elections' = [elections EXCEPT ![s] = Append(@, NewElection(s, term[s] + 1))]
  /\ ticking' = [ticking EXCEPT ![s] = FALSE]
  /\ UNCHANGED <<currentLeader, beats>>

\* Elect returns; nobody looks at its loop variables and channels any more.
Returned(x) ==
  Settled([x EXCEPT !.main = "done", !.i = 0, !.voteCh = <<>>, !.termCh = <<>>])

\* The next round of the for loop, or the end of it.
NextRound(x) ==
  IF x.i + 2 < Cardinality(Server) THEN [x EXCEPT !.i = @ + 1, !.main = "select"]
  ELSE Returned(x)

\* What "votes += 1" can leave in votes: other goroutines do the same without a
\* lock, so the value it adds to may be one that votes had before.
Incremented(n) == {m + 1 : m \in 1 .. n}

\* "votes = 1" before the loop.  The goroutines are already running: one that has
\* just counted its vote may have read votes before and written it after this.
ResetVotes(s, k) ==
  /\ MainAt(s, k, "reset")
  /\ \E n \in {1, elections[s][k].votes} :
       /\ n = 1 \/ \E p \in Peers(s) : Asking(s, k, p, "won?")
       /\ elections' = [elections EXCEPT ![s][k].votes = n,
                          ![s][k].main = IF Cardinality(Server) > 1 THEN "select" ELSE "done"]
  /\ UNCHANGED <<raftVars, ticking, beats>>

\* select takes a higher term: the election is lost.
TakeTerm(s, k) ==
  /\ MainAt(s, k, "select") /\ elections[s][k].termCh # <<>>
  /\ StepDown(s, Head(elections[s][k].termCh))
  /\ elections' = [elections EXCEPT ![s][k] = Returned(@)]
  /\ UNCHANGED <<ticking, beats>>


\* select takes an answer: "votes++" for a vote, the next round for a refusal.
TakeVote(s, k) ==
  /\ MainAt(s, k, "select") /\ elections[s][k].voteCh # <<>>
  /\ LET x == [elections[s][k] EXCEPT !.voteCh = Tail(@)] IN
     IF Head(elections[s][k].voteCh)
     THEN \E n \in Incremented(x.votes) :
            elections' = [elections EXCEPT ![s][k] = [x EXCEPT !.votes = n, !.main = "won?"]]
     ELSE elections' = [elections EXCEPT ![s][k] = NextRound(x)]
  /\ UNCHANGED <<raftVars, ticking, beats>>

\* A majority, still a candidate and in the term of this election.  The three are
\* read one after the other; until this Elect returns the server does not become a
\* candidate again, so that they might as well be read at once.
Won(s, k) ==
  /\ MainAt(s, k, "won?")
  /\ LET x == elections[s][k] IN
     elections' = [elections EXCEPT ![s][k] =
                     IF /\ Majority(x.votes)
                        /\ term[s] = x.currentTerm /\ Role[s] = "candidate"
                     THEN [x EXCEPT !.main = "lead"] ELSE NextRound(x)]
  /\ UNCHANGED <<raftVars, ticking, beats>>

WinElection(s, k) ==
  /\ MainAt(s, k, "lead")
  /\ Lead(s)
  /\ elections' = [elections EXCEPT ![s][k] = Returned(@)]
  /\ UNCHANGED <<ticking, beats>>

\* The timeout of the select.
ElectTimeout(s, k) ==
  /\ MainAt(s, k, "select")
  /\ elections' = [elections EXCEPT ![s][k] = Returned(@)]
  /\ UNCHANGED <<raftVars, ticking, beats>>

MainStep(s, k) ==
  \/ ResetVotes(s, k) \/ TakeTerm(s, k) \/ TakeVote(s, k) \/ Won(s, k)
  \/ WinElection(s, k) \/ ElectTimeout(s, k)

-----------------------------------------------------------------------------
(* RequestVote: the handler at peer p, for a goroutine of Elect.           *)

\* The handler returns; nobody looks at the request any more.
Replied(g, granted) == [g EXCEPT !.pc = "replied", !.Term = 0, !.VoteGranted = granted]

\* The goroutine reads rf.term for its request, whatever the term is by now.
BuildRequest(s, k, p) ==
  /\ Asking(s, k, p, "build")
  /\ Proceed(s, k, p, [elections[s][k].peer[p] EXCEPT !.Term = term[s], !.pc = "call"])
  /\ UNCHANGED <<raftVars, ticking, beats>>

\* reply.Term = rf.term, without the lock.
ReadTerm(s, k, p) ==
  /\ Asking(s, k, p, "call")
  /\ Proceed(s, k, p, [elections[s][k].peer[p] EXCEPT !.replyTerm = term[p], !.pc = "older?"])
  /\ UNCHANGED <<raftVars, ticking, beats>>

\* rf.term is read once more, and a request of an earlier term is refused.  The term
\* may have gone up or back since the first read: a vote can come with a reply.Term
\* above its own term.
CheckTerm(s, k, p) ==
  /\ Asking(s, k, p, "older?")
  /\ LET g == elections[s][k].peer[p] IN
     Proceed(s, k, p, IF g.Term < term[p] THEN Replied(g, FALSE) ELSE [g EXCEPT !.pc = "voted?"])
  /\ UNCHANGED <<raftVars, ticking, beats>>

\* hasVoted is read without the lock.
CheckVote(s, k, p) ==
  /\ Asking(s, k, p, "voted?")
  /\ LET g == elections[s][k].peer[p] IN
     Proceed(s, k, p, IF voteFor[p][g.Term] = NoVote THEN [g EXCEPT !.pc = "grant"] ELSE Replied(g, FALSE))
  /\ UNCHANGED <<raftVars, ticking, beats>>

\* The vote is recorded under the lock.  rf.term and rf.Role stay as they are.
GrantVote(s, k, p) ==
  /\ Asking(s, k, p, "grant")
  /\ voteFor' = [voteFor EXCEPT ![p][elections[s][k].peer[p].Term] = s]
  /\ Proceed(s, k, p, Replied(elections[s][k].peer[p], TRUE))
  /\ UNCHANGED <<roleVars, term, currentLeader, ticking, beats>>

RequestVote(s, k, p) ==
  ReadTerm(s, k, p) \/ CheckTerm(s, k, p) \/ CheckVote(s, k, p) \/ GrantVote(s, k, p)

-----------------------------------------------------------------------------
(* The rest of the goroutine.                                              *)

\* The RPC fails: the request or the reply is lost.  The reply stays empty.
LoseVoteCall(s, k, p) ==
  /\ Unreliable
  /\ Asking(s, k, p, "call") \/ Asking(s, k, p, "replied")
  /\ Proceed(s, k, p, [NewAsker EXCEPT !.pc = "done"])
  /\ UNCHANGED <<raftVars, ticking, beats>>

\* The reply arrives: a higher term goes to termCh, everything else to voteCh.
SendResult(s, k, p) ==
  /\ Asking(s, k, p, "replied")
  /\ LET g == elections[s][k].peer[p]
         x == [elections[s][k] EXCEPT !.peer[p].pc = IF g.VoteGranted THEN "count" ELSE "higher?"] IN
     elections' = [elections EXCEPT ![s][k] =
                     IF x.main = "done" THEN Settled(x)
                     ELSE IF g.replyTerm > term[s]
                     THEN [x EXCEPT !.termCh = Append(@, g.replyTerm)]
                     ELSE [x EXCEPT !.voteCh = Append(@, g.VoteGranted)]]
  /\ UNCHANGED <<raftVars, ticking, beats>>

\* "votes += 1" of the goroutine.
CountVote(s, k, p) ==
  /\ Asking(s, k, p, "count")
  /\ \E n \in Incremented(elections[s][k].votes) :
       elections' = [elections EXCEPT ![s][k].votes = n, ![s][k].peer[p].pc = "won?"]
  /\ UNCHANGED <<raftVars, ticking, beats>>

\* With a majority of votes: transitTo(Leader), whatever term and role the server
\* has by now.
LeadNow(s, k, p) ==
  /\ Asking(s, k, p, "won?")
  /\ IF Majority(elections[s][k].votes) THEN Lead(s) ELSE UNCHANGED raftVars
  /\ Proceed(s, k, p, [elections[s][k].peer[p] EXCEPT !.pc = "higher?"])
  /\ UNCHANGED <<ticking, beats>>

\* reply.Term > rf.term is read without the lock.
CheckHigher(s, k, p) ==
  /\ Asking(s, k, p, "higher?")
  /\ LET g == elections[s][k].peer[p] IN
     Proceed(s, k, p, IF g.replyTerm > term[s]
                   THEN [g EXCEPT !.pc = "follow"] ELSE Finished(g))
  /\ UNCHANGED <<raftVars, ticking, beats>>

Follow(s, k, p) ==
  /\ Asking(s, k, p, "follow")
  /\ StepDown(s, elections[s][k].peer[p].replyTerm)
  /\ Proceed(s, k, p, Finished(elections[s][k].peer[p]))
  /\ UNCHANGED <<ticking, beats>>

Ask(s, k, p) ==
  \/ BuildRequest(s, k, p) \/ LoseVoteCall(s, k, p) \/ SendResult(s, k, p) \/ CountVote(s, k, p)
  \/ LeadNow(s, k, p) \/ CheckHigher(s, k, p) \/ Follow(s, k, p)

-----------------------------------------------------------------------------
(* Heartbeats.                                                             *)

\* broadcastHeartbeat finds itself a leader; its term is read afterwards.
StartBeat(s) ==
  /\ contexts[s] > 0 /\ Role[s] = "leader"
  /\ Cardinality({b \in DOMAIN beats : beats[b].from = s}) < MaxBeats[s]
  /\ beats' = Append(beats, [from |-> s, Term |-> 0,
                             call |-> [p \in Peers(s) |-> BeatCall("read", 0, FALSE)]])
  /\ UNCHANGED <<raftVars, ticking, elections>>

SendBeat(b) ==
  /\ \A p \in DOMAIN beats[b].call : beats[b].call[p].pc = "read"
  /\ beats' = [beats EXCEPT ![b].Term = term[beats[b].from],
                 ![b].call = [p \in DOMAIN @ |-> BeatCall("sent", 0, FALSE)]]
  /\ UNCHANGED <<raftVars, ticking, elections>>

\* The AppendEntries handler, for a call without entries: what it does to the
\* server p by its role, and whether it answers Success.
HeartbeatToCandidate(b, p, success) ==
  /\ Role[p] = "candidate"
  /\ success = (beats[b].Term >= term[p])
  /\ IF success
     THEN /\ transitTo(p, "follower")
          /\ currentLeader' = [currentLeader EXCEPT ![p] = beats[b].from]
          /\ term' = [term EXCEPT ![p] = beats[b].Term]
     ELSE UNCHANGED <<roleVars, currentLeader, term>>

HeartbeatToFollower(b, p, success) ==
  /\ Role[p] = "follower"
  /\ success = (beats[b].from = currentLeader[p] \/ beats[b].Term >= term[p])
  /\ UNCHANGED <<roleVars, currentLeader, term>>

HeartbeatToLeader(b, p, success) ==
  /\ Role[p] = "leader"
  /\ success = FALSE
  /\ IF beats[b].Term > term[p]
     THEN term' = [term EXCEPT ![p] = beats[b].Term] /\ transitTo(p, "follower")
     ELSE UNCHANGED <<roleVars, term>>
  /\ UNCHANGED currentLeader

AppendEntries(b, p) ==
  /\ beats[b].call[p].pc = "sent"
  /\ \E success \in BOOLEAN :
       /\ \/ HeartbeatToCandidate(b, p, success)
          \/ HeartbeatToFollower(b, p, success)
          \/ HeartbeatToLeader(b, p, success)
       /\ BeatProceed(b, p, BeatCall("replied", term'[p], success))
  /\ UNCHANGED <<voteFor, ticking, elections>>

LoseBeatCall(b, p) ==
  /\ Unreliable
  /\ beats[b].call[p].pc \in {"sent", "replied"}
  /\ BeatProceed(b, p, BeatCall("done", 0, FALSE))
  /\ UNCHANGED <<raftVars, ticking, elections>>

\* The reply: a higher term is noticed without the lock and taken under it.
BeatReply(b, p) ==
  /\ beats[b].call[p].pc = "replied"
  /\ LET r == beats[b].call[p] IN
     BeatProceed(b, p, IF ~r.Success /\ r.replyTerm > term[beats[b].from]
                       THEN [r EXCEPT !.pc = "follow"] ELSE BeatCall("done", 0, FALSE))
  /\ UNCHANGED <<raftVars, ticking, elections>>

BeatFollow(b, p) ==
  /\ beats[b].call[p].pc = "follow"
  /\ term' = [term EXCEPT ![beats[b].from] = beats[b].call[p].replyTerm]
  /\ transitTo(beats[b].from, "follower")
  /\ BeatProceed(b, p, BeatCall("done", 0, FALSE))
  /\ UNCHANGED <<voteFor, currentLeader, ticking, elections>>

Beat(b, p) == AppendEntries(b, p) \/ LoseBeatCall(b, p) \/ BeatReply(b, p) \/ BeatFollow(b, p)

-----------------------------------------------------------------------------
\* Between two steps of the tickers nothing else may be going on.
Sleep ==
  /\ \A s \in Server : \A k \in DOMAIN elections[s] :
       /\ elections[s][k].main = "done"
       /\ \A p \in DOMAIN elections[s][k].peer : elections[s][k].peer[p].pc = "done"
  /\ \A b \in DOMAIN beats : \A p \in DOMAIN beats[b].call : beats[b].call[p].pc = "done"
  /\ UNCHANGED vars

Next ==
  \/ \E s \in Server : Tick(s) \/ Elect(s) \/ StartBeat(s)
  \/ \E s \in Server : \E k \in DOMAIN elections[s] :
       \/ MainStep(s, k)
       \/ \E p \in DOMAIN elections[s][k].peer : RequestVote(s, k, p) \/ Ask(s, k, p)
  \/ \E b \in DOMAIN beats : SendBeat(b) \/ \E p \in DOMAIN beats[b].call : Beat(b, p)
  \/ Sleep

Spec == Init /\ [][Next]_vars

-----------------------------------------------------------------------------
(* Properties.                                                             *)

\* Every variable holds what the Go declarations allow, and neither channel of
\* Elect ever holds more than its capacity, so that no goroutine blocks on it.
TypeOK ==
  /\ Role \in [Server -> {"leader", "candidate", "follower"}]
  /\ term \in [Server -> Term]
  /\ voteFor \in [Server -> [Term -> Server \cup {NoVote}]]
  /\ currentLeader \in [Server -> Server]
  /\ heartbeatCancel \in [Server -> BOOLEAN]
  /\ contexts \in [Server -> Nat]
  /\ ticking \in [Server -> BOOLEAN]
  /\ \A s \in Server : \A k \in DOMAIN elections[s] :
       LET x == elections[s][k] IN
       /\ x.currentTerm \in Term /\ x.votes \in Nat
       /\ x.main \in {"reset", "select", "won?", "lead", "done"}
       /\ x.peer \in [Peers(s) -> Asker]
       /\ Len(x.voteCh) + Len(x.termCh) < Cardinality(Server)
  /\ \A b \in DOMAIN beats :
       /\ beats[b].from \in Server /\ beats[b].Term \in Term
       /\ \A p \in Peers(beats[b].from) :
            /\ beats[b].call[p].pc \in {"read", "sent", "replied", "follow", "done"}
            /\ beats[b].call[p].replyTerm \in Term

\* The servers whose votes reached the k-th election of s, itself included.
Granters(s, k) ==
  {s} \cup {p \in Peers(s) : elections[s][k].peer[p].VoteGranted}


\* A leader has the votes of more than half of the servers, all given in the same
\* election, as the strict majority test of Elect is there to ensure.
LeaderHasMajority ==
  \A s \in Server : Role[s] = "leader" =>
    \E k \in DOMAIN elections[s] : Majority(Cardinality(Granters(s, k)))

\* A leader has one sendHeartbeats that is not cancelled, and no other server has
\* any, however often the goroutines of several elections call transitTo.
OneHeartbeat ==
  \A s \in Server : contexts[s] = IF Role[s] = "leader" THEN 1 ELSE 0

\* No term appears that no call of Elect has started: the copies of terms that the
\* handlers and goroutines pass around never run ahead of the elections.
TermsAreElected ==
  \A s \in Server : term[s] = 0 \/
    \E u \in Server : \E k \in DOMAIN elections[u] : elections[u][k].currentTerm = term[s]

\* No two servers are leaders of the same term, as checkOneLeader tests.
OneLeaderPerTerm ==
  \A s, u \in Server :
    Role[s] = "leader" /\ Role[u] = "leader" /\ term[s] = term[u] => s = u
=============================================================================
