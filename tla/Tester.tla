------------------------------- MODULE Tester -------------------------------
(***************************************************************************)
(* The tester: a group of servers that a test starts, shuts down, restarts *)
(* and partitions while clients call them, with the persisters that carry  *)
(* their state over a restart and the annotations that report the failures.*)
(*                                                                         *)
(* One goroutine runs the test.  It changes the group with the functions   *)
(* of group.go and reports with those of annotation.go, in the pairs in    *)
(* which the tests call them.  A shutdown is several steps, because the    *)
(* Calls of clients and the handlers of servers go on meanwhile; the other *)
(* functions touch nothing that those read in between.                     *)
(*                                                                         *)
(* A server instance is numbered by the call of StartServer that made it.  *)
(* Its service saves every request it handles in its persister before it   *)
(* replies, as a Raft server or a key/value server has to.                 *)
(***************************************************************************)
EXTENDS Labrpc, Integers, FiniteSets, FiniteSetsExt, SequencesExt

CONSTANTS
  MaxStarts,   \* how many instances a server may have
  MaxOps,      \* how many functions of the tester the test may call
  ClientTo     \* ClientTo[c]: the servers c may talk to at first, all for nil

ASSUME TesterAssumption ==
  /\ IsFiniteSet(Server) /\ Server = 0 .. Cardinality(Server) - 1
  /\ MaxStarts \in Nat \ {0} /\ MaxOps \in Nat /\ MaxCalls \in Nat
  /\ ClientTo \in [Client -> SUBSET Server]

VARIABLES
  connected,   \* ServerGrp.connected, as a set
  inst,        \* inst[i]: the number of the instance in ServerGrp.srvs[i]
  enabled,     \* Network.enabled, of the servers' ends: <<i, n, j>> is the end to j
               \* that was made for instance n of i
  own,         \* own[i][n]: the requests in the persister of instance n of i
  saved,       \* saved[i]: those in Server.saved, once it is no longer own[i][inst[i]]
  detached,    \* the servers whose saved is no longer the instance's persister
  clntSrvs,    \* Clnt.srvs: the servers a client may talk to
  clntEnds,    \* Clnt.ends: the <<c, s>> for which makeEnd has made an end
  gone,        \* the clients that were deleted
  acked,       \* the requests whose Call has returned true, with their server
  an,          \* the annotations
  test,        \* what the test's goroutine is doing
  kill,        \* what rfsrv.Kill has read of the persister
  parted,      \* the last change of the network was a Partition
  ops          \* how many functions the test has called

groupVars == <<connected, inst, enabled>>
persisterVars == <<own, saved, detached, kill>>
clntVars == <<clntSrvs, clntEnds, gone>>
testVars == <<an, test, parted, ops>>

vars == <<netVars, groupVars, persisterVars, clntVars, testVars, acked>>

INSTANCE Annotation

-----------------------------------------------------------------------------
(* The group: who is connected to whom.  Each function maps the record of  *)
(* connected and enabled to a new one.                                     *)

Out(i, to) == {<<i, inst[i], j>> : j \in to}

In(i, from) == {<<j, inst[j], i>> : j \in from}

\* Faulty: only the ends of the server itself are enabled.
connectOut(g, i, to) ==
  LET c == g.connected \cup {i} IN
  [connected |-> c, enabled |-> g.enabled \cup Out(i, to \cap c)]

connect(g, i, to) ==
  LET c == g.connected \cup {i} IN
  [connected |-> c, enabled |-> g.enabled \cup Out(i, to \cap c) \cup In(i, to \cap c)]

disconnect(g, i, from) ==
  [connected |-> g.connected \ {i}, enabled |-> g.enabled \ (Out(i, from) \cup In(i, from))]

InOrder(S) == SetToSortSeq(S, <)

ConnectAll(g) == FoldLeft(LAMBDA h, i : connect(h, i, Server), g, InOrder(Server))

Partition(g, p1, p2) ==
  LET side(h, p, q) ==
        FoldLeft(LAMBDA k, i : connect(disconnect(k, i, q), i, p), h, InOrder(p)) IN
  side(side(g, p1, p2), p2, p1)

Group == [connected |-> connected, enabled |-> enabled]

Becomes(g) == connected' = g.connected /\ enabled' = g.enabled

-----------------------------------------------------------------------------
(* Functions that the test calls.                                          *)

IdleTest == [op |-> "idle", todo |-> <<>>]

Calls ==
  /\ test = IdleTest
  /\ ~done
  /\ ops < MaxOps
  /\ ops' = ops + 1

Up == {i \in Server : servers[i] # 0}

\* ts.g.DisconnectAll(i), AnnotateConnection.
DisconnectAll(i) ==
  /\ Calls
  /\ ~parted
  /\ Becomes(disconnect(Group, i, Server))
  /\ an' = AnnotateConnection(an, connected')
  /\ UNCHANGED <<netVars, inst, persisterVars, clntVars, test, parted, acked>>

\* ts.g.ConnectOne(i), AnnotateConnection.
ConnectOne(i) ==
  /\ Calls
  /\ ~parted
  /\ i \in Up
  /\ Becomes(connect(Group, i, Server))
  /\ an' = AnnotateConnection(an, connected')
  /\ UNCHANGED <<netVars, inst, persisterVars, clntVars, test, parted, acked>>

\* Partitioner: ts.Group(gid).Partition(p1, p2), AnnotateTwoPartitions.
Partitioner(p1) ==
  /\ Calls
  /\ Up = Server
  /\ connected = Server
  /\ Becomes(Partition(Group, p1, Server \ p1))
  /\ an' = AnnotateTwoPartitions(an, p1, Server \ p1)
  /\ parted' = TRUE
  /\ UNCHANGED <<netVars, inst, persisterVars, clntVars, test, acked>>

\* ts.Group(gid).ConnectAll, AnnotateClearFailure, after the Partitioner has been told to
\* stop, which can be before its first partition.
Heal ==
  /\ Calls
  /\ parted \/ (Up = Server /\ connected = Server)
  /\ Becomes(ConnectAll(Group))
  /\ an' = AnnotateClearFailure(an)
  /\ parted' = FALSE
  /\ UNCHANGED <<netVars, inst, persisterVars, clntVars, test, acked>>

\* ShutdownServer(i) for one server or, in Shutdown, for all.
Shutdown(ids) ==
  /\ Calls
  /\ ~parted
  /\ ids \subseteq Up
  /\ test' = [op |-> "disconnect", todo |-> InOrder(ids)]
  /\ UNCHANGED <<netVars, groupVars, persisterVars, clntVars, an, parted, acked>>

Goto(op) == test' = [test EXCEPT !.op = op]

\* ShutdownServer: isolate the server.
ShutdownDisconnect ==
  /\ test.op = "disconnect"
  /\ Becomes(disconnect(Group, Head(test.todo), Server))
  /\ Goto("delete")
  /\ UNCHANGED <<netVars, inst, persisterVars, clntVars, an, parted, ops, acked>>

\* ShutdownServer: no reply of this instance gets out any more.
ShutdownDelete ==
  /\ test.op = "delete"
  /\ servers' = [servers EXCEPT ![Head(test.todo)] = 0]
  /\ Goto("copy")
  /\ UNCHANGED <<clntEnabled, done, call, zombies, calls>>
  /\ UNCHANGED <<groupVars, persisterVars, clntVars, an, parted, ops, acked>>

\* shutdownServer: a copy of the persister takes its place.
ShutdownCopy ==
  /\ test.op = "copy"
  /\ LET i == Head(test.todo) IN
     /\ saved' = [saved EXCEPT ![i] = own[i][inst[i]]]
     /\ detached' = detached \cup {i}
  /\ Goto("kill")
  /\ UNCHANGED <<netVars, groupVars, own, kill, clntVars, an, parted, ops, acked>>

\* rfsrv.Kill reads the persister that it was given.
KillRead ==
  /\ test.op = "kill"
  /\ LET i == Head(test.todo) IN kill' = own[i][inst[i]]
  /\ Goto("save")
  /\ UNCHANGED <<netVars, groupVars, own, saved, detached, clntVars, an, parted, ops, acked>>

\* rfsrv.Kill saves what it has read; the shutdown goes on with the next server, or
\* AnnotateShutdown reports it.
KillSave ==
  /\ test.op = "save"
  /\ LET i == Head(test.todo)
         rest == Tail(test.todo) IN
     /\ own' = [own EXCEPT ![i][inst[i]] = kill]
     /\ kill' = {}
     /\ IF rest # <<>>
        THEN test' = [op |-> "disconnect", todo |-> rest] /\ an' = an
        ELSE test' = IdleTest /\ an' = AnnotateShutdown(an, Server \ Up)
  /\ UNCHANGED <<netVars, groupVars, saved, detached, clntVars, parted, ops, acked>>

\* StartServer of one server, or of all that are down: fresh ends, a copy of the
\* saved state, a new instance under the old name.
StartServer(ids) ==
  /\ Calls
  /\ ids # {} /\ ids \cap Up = {}
  /\ \A i \in ids : inst[i] < MaxStarts
  /\ inst' = [i \in Server |-> IF i \in ids THEN inst[i] + 1 ELSE inst[i]]
  /\ own' = [i \in Server |-> IF i \in ids THEN [own[i] EXCEPT ![inst[i] + 1] = saved[i]] ELSE own[i]]
  /\ detached' = detached \ ids
  /\ saved' = [i \in Server |-> IF i \in ids THEN {} ELSE saved[i]]
  /\ servers' = [i \in Server |-> IF i \in ids THEN inst[i] + 1 ELSE servers[i]]
  /\ test' = [op |-> "connectall", todo |-> InOrder(ids)]
  /\ UNCHANGED <<clntEnabled, done, call, zombies, calls>>
  /\ UNCHANGED <<connected, enabled, kill, clntVars, an, parted, acked>>

\* The rest of restart, and of StartServers: ConnectAll, AnnotateRestart,
\* AnnotateConnection.
RestartConnect ==
  /\ test.op = "connectall"
  /\ Becomes(ConnectAll(Group))
  /\ an' = AnnotateConnection(AnnotateRestart(an, ToSet(test.todo)), connected')
  /\ test' = IdleTest
  /\ UNCHANGED <<netVars, inst, persisterVars, clntVars, parted, ops, acked>>

-----------------------------------------------------------------------------
(* Clients.                                                                *)

\* Faulty: the ends to all servers, made or not.
EndsToAll(c) == {c} \X Server

Ends(c) == {e \in clntEnds : e[1] = c}

\* Faulty: a new end is always enabled.
makeEndEnabled(c, s) ==
  /\ clntEnds' = clntEnds \cup {<<c, s>>}
  /\ clntEnabled' = IF <<c, s>> \in clntEnds THEN clntEnabled ELSE clntEnabled \cup {<<c, s>>}

makeEnd(c, s) ==
  /\ clntEnds' = clntEnds \cup {<<c, s>>}
  /\ clntEnabled' = IF <<c, s>> \in clntEnds \/ s \notin clntSrvs[c]
                    THEN clntEnabled ELSE clntEnabled \cup {<<c, s>>}

Call(c, s) ==
  /\ c \notin gone
  /\ ~done
  /\ Send(c, s)
  /\ makeEnd(c, s)
  /\ UNCHANGED <<servers, done, zombies>>
  /\ UNCHANGED <<groupVars, persisterVars, clntSrvs, gone, testVars, acked>>

\* The Call returns to the client.
CallReturns(c) ==
  /\ Return(c)
  /\ acked' = IF call[c].pc = "reply" THEN acked \cup {<<call[c].id, call[c].to>>} ELSE acked
  /\ UNCHANGED <<groupVars, persisterVars, clntVars, testVars>>

Network(c) ==
  /\ NetStep(c)
  /\ UNCHANGED <<groupVars, persisterVars, clntVars, testVars, acked>>

ClntConnectAll(c) ==
  /\ Calls
  /\ c \notin gone
  /\ clntEnabled' = clntEnabled \cup Ends(c)
  /\ clntSrvs' = [clntSrvs EXCEPT ![c] = Server]
  /\ UNCHANGED <<servers, done, call, zombies, calls>>
  /\ UNCHANGED <<groupVars, persisterVars, clntEnds, gone, an, test, parted, acked>>

ClntDisconnectAll(c) ==
  /\ Calls
  /\ c \notin gone
  /\ clntEnabled' = clntEnabled \ Ends(c)
  /\ clntSrvs' = [clntSrvs EXCEPT ![c] = {}]
  /\ UNCHANGED <<servers, done, call, zombies, calls>>
  /\ UNCHANGED <<groupVars, persisterVars, clntEnds, gone, an, test, parted, acked>>

\* DeleteClient, by a client that has finished.
DeleteClient(c) ==
  /\ Calls
  /\ c \notin gone
  /\ call[c].pc = "idle"
  /\ clntEnabled' = clntEnabled \ Ends(c)
  /\ gone' = gone \cup {c}
  /\ UNCHANGED <<servers, done, call, zombies, calls>>
  /\ UNCHANGED <<groupVars, persisterVars, clntSrvs, clntEnds, an, test, parted, acked>>

\* Config.Cleanup: all clients are removed and the network is closed.  (It kills the
\* services too, of which nothing is read any more.)
Cleanup ==
  /\ test = IdleTest
  /\ ~done
  /\ done' = TRUE
  /\ gone' = Client
  /\ clntEnabled' = {}
  /\ UNCHANGED <<servers, call, zombies, calls>>
  /\ UNCHANGED <<groupVars, persisterVars, clntSrvs, clntEnds, testVars, acked>>

-----------------------------------------------------------------------------
(* The service of an instance: what it has handled is in its persister, and *)
(* only then does it reply.                                                 *)

Persist(s, n, id) == own' = [own EXCEPT ![s][n] = @ \cup {id}]

Handler(c) ==
  /\ Handled(c)
  /\ Persist(call[c].to, call[c].inst, call[c].id)
  /\ UNCHANGED <<groupVars, saved, detached, kill, clntVars, testVars, acked>>

\* A handler whose Call was given up.
ZombieHandler(z) ==
  /\ Persist(z.to, z.inst, z.id)
  /\ zombies' = zombies \ {z}
  /\ UNCHANGED <<servers, clntEnabled, done, call, calls>>
  /\ UNCHANGED <<groupVars, saved, detached, kill, clntVars, testVars, acked>>

-----------------------------------------------------------------------------
\* MakeConfig: MakeNetwork, MakeGroupStart and the clients; nothing has failed yet.
Init ==
  /\ servers = [i \in Server |-> 1]
  /\ clntEnabled = {}
  /\ done = FALSE
  /\ call = [c \in Client |-> Idle(FALSE)]
  /\ zombies = {}
  /\ calls = 0
  /\ connected = Server
  /\ inst = [i \in Server |-> 1]
  /\ enabled = {<<i, 1, j>> : i \in Server, j \in Server}
  /\ own = [i \in Server |-> [n \in 1 .. MaxStarts |-> {}]]
  /\ saved = [i \in Server |-> {}]
  /\ detached = {}
  /\ clntSrvs = ClientTo
  /\ clntEnds = {}
  /\ gone = {}
  /\ acked = {}
  /\ an = AnnotateTest
  /\ test = IdleTest
  /\ kill = {}
  /\ parted = FALSE
  /\ ops = 0

TestStep ==
  \/ ShutdownDisconnect
  \/ ShutdownDelete
  \/ ShutdownCopy
  \/ KillRead
  \/ KillSave
  \/ RestartConnect

TestCall ==
  \/ \E i \in Server : DisconnectAll(i) \/ ConnectOne(i)
  \/ \E p1 \in SUBSET Server : Partitioner(p1)
  \/ Heal
  \/ \E i \in Server : Shutdown({i}) \/ StartServer({i})
  \/ Shutdown(Server)
  \/ StartServer(Server)
  \/ \E c \in Client : ClntConnectAll(c) \/ ClntDisconnectAll(c) \/ DeleteClient(c)
  \/ Cleanup

Next ==
  \/ TestCall
  \/ TestStep
  \/ \E c \in Client :
       \/ \E s \in Server : Call(c, s)
       \/ Network(c)
       \/ Handler(c)
       \/ CallReturns(c)
  \/ \E z \in zombies : ZombieHandler(z)

\* processReq looks at a waiting Call every 100 ms, and every goroutine runs.
Fairness ==
  \A c \in Client : WF_vars(Network(c)) /\ WF_vars(Handler(c)) /\ WF_vars(CallReturns(c))

Spec == Init /\ [][Next]_vars /\ Fairness

-----------------------------------------------------------------------------
Ids == 1 .. MaxCalls

\* The state has the shape that labrpc.go, group.go, srv.go and clnts.go declare.
TypeOK ==
  /\ servers \in [Server -> 0 .. MaxStarts]
  /\ inst \in [Server -> 1 .. MaxStarts]
  /\ \A i \in Up : servers[i] = inst[i]
  /\ clntEnabled \subseteq clntEnds /\ clntEnds \subseteq Client \X Server
  /\ enabled \subseteq Server \X (1 .. MaxStarts) \X Server
  /\ connected \subseteq Server /\ detached \subseteq Server
  /\ own \in [Server -> [1 .. MaxStarts -> SUBSET Ids]]
  /\ saved \in [Server -> SUBSET Ids]
  /\ acked \subseteq Ids \X Server
  /\ zombies \subseteq [to : Server, inst : 1 .. MaxStarts, id : Ids]
  /\ \A c \in Client : call[c].pc \in {"running", "hung", "handled", "reply"} => call[c].inst # 0

\* What StartServer would give the next instance of i.
Saved(i) == IF i \in detached THEN saved[i] ELSE own[i][inst[i]]

\* A request that a server has answered positively is in the persister that its next
\* instance gets, whatever shutdowns, restarts and late handlers there were: the
\* "possibility of the server returning a positive reply to an Append but persisting
\* the result in the superseded Persister" (ShutdownServer) does not exist.
PositiveReplyPersisted == \A a \in acked : a[1] \in Saved(a[2])

\* Once a test has called the tester and the call is over, the group's flags say who
\* can talk: two live servers have both their ends enabled iff both are `connected',
\* unless Partition was used (GetConnected, and the comment in annotation.go).
ConnectedIsPrecise ==
  test = IdleTest /\ ~parted =>
    \A i, j \in Up :
      i # j => (<<i, inst[i], j>> \in enabled <=> {i, j} \subseteq connected)

\* What the visualiser shows is what the network does: live servers are drawn in one
\* group iff they can talk both ways, and the crashed ones are those that are down.
FaultShown ==
  test = IdleTest =>
    /\ an.shown.crash = Server \ Up
    /\ \A i, j \in Up :
         i # j => ( {<<i, inst[i], j>>, <<j, inst[j], i>>} \subseteq enabled <=>
                    \/ an.shown = NoFault
                    \/ \E g \in an.shown.partition : {i, j} \subseteq g )

\* No function of the tester records an interval that nothing has begun, although
\* annotateContinuousEnd takes an entry from a map that may not have it: whenever an
\* annotation is ended one is shown, through every mixture of crashes, disconnections and
\* partitions.  The exception is a test that clears failures after a Partitioner that
\* has made none.
NoBlankInterval == [][an'.blank /\ ~an.blank => Heal /\ ~parted]_vars

\* A client reaches only servers it is allowed to, although its ends are made lazily,
\* by a Call that runs beside ConnectAll and DisconnectAll.
ClientConfined == \A e \in clntEnabled : e[2] \in clntSrvs[e[1]] /\ e[1] \notin gone

\* "Call() is guaranteed to return (perhaps after a delay) *except* if the handler
\* function on the server side does not return" (labrpc.go), and even that one returns
\* once the server is shut down or the end disabled.
CallReturnsUnlessHung ==
  \A c \in Client : []<>(call[c].pc = "idle" \/ (call[c].pc = "hung" /\ ~isServerDead(c)))
=============================================================================
