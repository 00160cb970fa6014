------------------------------- MODULE KVSrv -------------------------------
(***************************************************************************)
(* The key/value service of kvsrv1: one server, its clerks, and the        *)
(* labrpc calls between them.                                              *)
(*                                                                         *)
(* The server keeps a map from keys to versioned values and runs each      *)
(* handler under its mutex, so a handler is one step.  A clerk runs one    *)
(* operation at a time and repeats its RPC until a Call returns true.  A   *)
(* Call fails when the network drops the request, drops the reply, or      *)
(* finds the client's end disabled.  When the end is disabled while the    *)
(* handler is still running, the Call fails at once and the handler        *)
(* finishes later: such a Put is kept in `orphans'.                        *)
(*                                                                         *)
(* This module has no application: a module that extends it decides which  *)
(* operations a client starts, and what it does with their results.        *)
(***************************************************************************)
EXTENDS Naturals

CONSTANTS
  Client,          \* the clients, each with one clerk
  Key,             \* the keys they use
  Value,           \* the values they store, "" included
  Unreliable,      \* whether the network may drop requests and replies
  MaxDisconnects   \* how often the tester may disable a client's end

NoString == ""   \* the zero value of a Go string

ASSUME KVSrvAssumption ==
  /\ Key # {}
  /\ NoString \in Value
  /\ Unreliable \in BOOLEAN
  /\ MaxDisconnects \in Nat

VARIABLES
  kv,        \* KVServer.kv: the server's map
  call,      \* call[c]: the operation client c's clerk is running
  orphans,   \* Puts whose Call has failed but whose handler is still to run
  enabled,   \* enabled[c]: whether the end from c to the server is enabled
  discs      \* how often an end has been disabled

kvVars == <<kv, call, orphans, enabled, discs>>

-----------------------------------------------------------------------------
(* The data: versioned values, replies, and the state of a clerk.          *)

Entry == [Value : Value, Version : Nat]

Err == {"OK", "ErrNoKey", "ErrVersion", "ErrMaybe"}

Reply == [Err : Err \cup {NoString}, Value : Value, Version : Nat]

ErrReply(e) == [Err |-> e, Value |-> NoString, Version |-> 0]

NoReply == ErrReply(NoString)

\* A clerk's operation: its arguments, the local `retry' of Clerk.Put, how far
\* the current Call has come, and the reply of the last handler that ran for it.
Call == [op : {"Get", "Put"}, Key : Key, Value : Value, Version : Nat,
         retry : BOOLEAN, rpc : {"idle", "sent", "running", "executed"},
         reply : Reply]

Orphan == [id : Client \X Nat, Key : Key, Value : Value, Version : Nat]

-----------------------------------------------------------------------------
(* The server's handlers, as functions of its map.                         *)

GetReply(m, k) ==
  IF k \in DOMAIN m
  THEN [Err |-> "OK", Value |-> m[k].Value, Version |-> m[k].Version]
  ELSE ErrReply("ErrNoKey")

\* Faulty: the server does not compare versions.
PutErrUnchecked(m, args) ==
  IF args.Key \in DOMAIN m \/ args.Version = 0 THEN "OK" ELSE "ErrNoKey"

\* Faulty: the server takes any version it has had.
PutErrAtMost(m, args) ==
  IF args.Key \in DOMAIN m
  THEN IF m[args.Key].Version >= args.Version THEN "OK" ELSE "ErrVersion"
  ELSE IF args.Version = 0 THEN "OK" ELSE "ErrNoKey"

PutErr(m, args) ==
  IF args.Key \in DOMAIN m
  THEN IF m[args.Key].Version = args.Version THEN "OK" ELSE "ErrVersion"
  ELSE IF args.Version = 0 THEN "OK" ELSE "ErrNoKey"

\* Faulty: the version counts down.
PutStoreDown(m, args) ==
  IF PutErr(m, args) = "OK"
  THEN [k \in DOMAIN m \cup {args.Key} |->
          IF k = args.Key THEN [Value |-> args.Value, Version |-> args.Version - 1] ELSE m[k]]
  ELSE m

PutStore(m, args) ==
  IF PutErr(m, args) = "OK"
  THEN [k \in DOMAIN m \cup {args.Key} |->
          IF k = args.Key
          THEN [Value |-> args.Value, Version |-> args.Version + 1]
          ELSE m[k]]
  ELSE m

-----------------------------------------------------------------------------
(* The clerk.                                                              *)

GetCall(k) ==
  [op |-> "Get", Key |-> k, Value |-> NoString, Version |-> 0,
   retry |-> FALSE, rpc |-> "sent", reply |-> NoReply]

PutCall(k, v, ver) ==
  [op |-> "Put", Key |-> k, Value |-> v, Version |-> ver,
   retry |-> FALSE, rpc |-> "sent", reply |-> NoReply]

NoCall ==
  [op |-> "Get", Key |-> CHOOSE k \in Key : TRUE, Value |-> NoString, Version |-> 0,
   retry |-> FALSE, rpc |-> "idle", reply |-> NoReply]

\* The same operation, its current Call at another stage.
Stage(cl, retry, rpc, reply) ==
  [op |-> cl.op, Key |-> cl.Key, Value |-> cl.Value, Version |-> cl.Version,
   retry |-> retry, rpc |-> rpc, reply |-> reply]

\* Faulty: Put does not note that it has called before.
ResendForgets(cl) == Stage(cl, FALSE, "sent", cl.reply)

\* A failed Call: Put notes the retry, both operations call again.
Resend(cl) == Stage(cl, cl.op = "Put", "sent", cl.reply)

\* Faulty: Put passes ErrVersion on after a retry.
ClerkErrCertain(cl) == cl.reply.Err

\* What Get and Put return once a Call has returned true.
ClerkErr(cl) ==
  IF cl.retry /\ cl.reply.Err = "ErrVersion" THEN "ErrMaybe" ELSE cl.reply.Err

\* Client c's operation has its result; the application goes on with `next'.
Return(c, next) ==
  /\ call[c].rpc = "executed"
  /\ enabled[c]
  /\ call' = [call EXCEPT ![c] = next]
  /\ UNCHANGED <<kv, orphans, enabled, discs>>

\* An idle client starts an operation.
Start(c, next) ==
  /\ call[c].rpc = "idle"
  /\ call' = [call EXCEPT ![c] = next]
  /\ UNCHANGED <<kv, orphans, enabled, discs>>

-----------------------------------------------------------------------------
(* The network and the server.                                             *)

\* processReq finds the end enabled and starts the handler's goroutine.
Dispatch(c) ==
  /\ call[c].rpc = "sent"
  /\ enabled[c]
  /\ call' = [call EXCEPT ![c] = Stage(@, @.retry, "running", @.reply)]
  /\ UNCHANGED <<kv, orphans, enabled, discs>>

\* processReq drops the request.
DropRequest(c) ==
  /\ call[c].rpc = "sent"
  /\ enabled[c]
  /\ Unreliable
  /\ call' = [call EXCEPT ![c] = Resend(@)]
  /\ UNCHANGED <<kv, orphans, enabled, discs>>

\* processReq finds the end disabled, and simulates a timeout.
TimeOut(c) ==
  /\ call[c].rpc = "sent"
  /\ ~enabled[c]
  /\ call' = [call EXCEPT ![c] = Resend(@)]
  /\ UNCHANGED <<kv, orphans, enabled, discs>>

\* The handler runs, KVServer.Get or KVServer.Put.
Execute(c) ==
  /\ call[c].rpc = "running"
  /\ LET cl == call[c] IN
     IF cl.op = "Get"
     THEN /\ call' = [call EXCEPT ![c] = Stage(cl, cl.retry, "executed", GetReply(kv, cl.Key))]
          /\ kv' = kv
     ELSE /\ call' = [call EXCEPT ![c] = Stage(cl, cl.retry, "executed", ErrReply(PutErr(kv, cl)))]
          /\ kv' = PutStore(kv, cl)
  /\ UNCHANGED <<orphans, enabled, discs>>

\* processReq drops the reply, or finds the end disabled after the handler ran.
LoseReply(c) ==
  /\ call[c].rpc = "executed"
  /\ Unreliable \/ ~enabled[c]
  /\ call' = [call EXCEPT ![c] = Resend(@)]
  /\ UNCHANGED <<kv, orphans, enabled, discs>>

\* processReq stops waiting for a handler because the end has been disabled.
\* A Get that nobody waits for has no effect and is forgotten.
Abandon(c) ==
  /\ call[c].rpc = "running"
  /\ ~enabled[c]
  /\ orphans' = IF call[c].op = "Put"
                THEN orphans \cup {[id |-> <<c, discs>>, Key |-> call[c].Key,
                                    Value |-> call[c].Value, Version |-> call[c].Version]}
                ELSE orphans
  /\ call' = [call EXCEPT ![c] = Resend(@)]
  /\ UNCHANGED <<kv, enabled, discs>>

\* The handler of an abandoned Put runs at last; its reply is drained.
ExecuteOrphan(o) ==
  /\ o \in orphans
  /\ kv' = PutStore(kv, o)
  /\ orphans' = orphans \ {o}
  /\ UNCHANGED <<call, enabled, discs>>

\* The tester disables and enables the client's end.
Disconnect(c) ==
  /\ enabled[c]
  /\ discs < MaxDisconnects
  /\ enabled' = [enabled EXCEPT ![c] = FALSE]
  /\ discs' = discs + 1
  /\ UNCHANGED <<kv, call, orphans>>

Connect(c) ==
  /\ ~enabled[c]
  /\ enabled' = [enabled EXCEPT ![c] = TRUE]
  /\ UNCHANGED <<kv, call, orphans, discs>>

-----------------------------------------------------------------------------
KVInit ==
  /\ kv = [k \in {} |-> [Value |-> NoString, Version |-> 0]]
  /\ call = [c \in Client |-> NoCall]
  /\ orphans = {}
  /\ enabled = [c \in Client |-> TRUE]
  /\ discs = 0

\* Every step of the service that the application has no part in.
KVStep ==
  \/ \E c \in Client : \/ Dispatch(c)
                       \/ DropRequest(c)
                       \/ TimeOut(c)
                       \/ Execute(c)
                       \/ LoseReply(c)
                       \/ Abandon(c)
                       \/ Disconnect(c)
                       \/ Connect(c)
  \/ \E o \in orphans : ExecuteOrphan(o)

\* labrpc drops one request and one reply in ten, independently, and the tester
\* connects an end again: a Call that is repeated forever gets through.
KVFairness ==
  \A c \in Client : /\ SF_kvVars(Dispatch(c))
                    /\ WF_kvVars(Execute(c))
                    /\ WF_kvVars(Connect(c))

\* The variables of the service have their types.
KVTypeOK ==
  /\ DOMAIN kv \subseteq Key
  /\ kv \in [DOMAIN kv -> Entry]
  /\ call \in [Client -> Call]
  /\ orphans \subseteq Orphan
  /\ enabled \in [Client -> BOOLEAN]
  /\ discs \in Nat
=============================================================================
