---------------------------- MODULE KVSrvProofs ----------------------------
(***************************************************************************)
(* Facts about the key/value service that hold whatever its clients do.    *)
(***************************************************************************)
EXTENDS KVSrv, TLAPS

-----------------------------------------------------------------------------
(* Type correctness of the operations and of the service.                  *)

\* The operations a clerk starts with are well typed.
LEMMA CallTypes ==
  ASSUME NEW k \in Key, NEW v \in Value, NEW ver \in Nat
  PROVE  /\ GetCall(k) \in Call
         /\ PutCall(k, v, ver) \in Call
         /\ NoCall \in Call
  BY KVSrvAssumption DEF GetCall, PutCall, NoCall, NoReply, ErrReply, Call, Reply, Err

\* So is an operation whose Call has come to another stage,
LEMMA StageTypes ==
  ASSUME NEW cl \in Call, NEW retry \in BOOLEAN, NEW reply \in Reply,
         NEW rpc \in {"idle", "sent", "running", "executed"}
  PROVE  Stage(cl, retry, rpc, reply) \in Call
  BY DEF Stage, Call

\* or is repeated by the clerk.
LEMMA ResendType ==
  ASSUME NEW cl \in Call
  PROVE  Resend(cl) \in Call
  BY StageTypes DEF Resend, Call

\* The handlers of KVServer return replies, and keep the map a map of versioned
\* values.
LEMMA HandlerTypes ==
  ASSUME KVTypeOK, NEW k \in Key,
         NEW args, args.Key \in Key, args.Value \in Value, args.Version \in Nat
  PROVE  /\ GetReply(kv, k) \in Reply
         /\ ErrReply(PutErr(kv, args)) \in Reply
         /\ DOMAIN PutStore(kv, args) \subseteq Key
         /\ PutStore(kv, args) \in [DOMAIN PutStore(kv, args) -> Entry]
<1>1. GetReply(kv, k) \in Reply
  BY KVSrvAssumption DEF GetReply, ErrReply, KVTypeOK, Entry, Reply, Err
<1>2. ErrReply(PutErr(kv, args)) \in Reply
  BY KVSrvAssumption DEF PutErr, NoReply, ErrReply, Reply, Err
<1>3. /\ DOMAIN PutStore(kv, args) \subseteq Key
      /\ PutStore(kv, args) \in [DOMAIN PutStore(kv, args) -> Entry]
  <2>1. CASE PutErr(kv, args) = "OK"
    <3> DEFINE D == DOMAIN kv \cup {args.Key}
               e == [Value |-> args.Value, Version |-> args.Version + 1]
    <3>1. e \in Entry
      BY DEF Entry
    <3>2. PutStore(kv, args) = [x \in D |-> IF x = args.Key THEN e ELSE kv[x]]
      BY <2>1 DEF PutStore
    <3>3. \A x \in D : (IF x = args.Key THEN e ELSE kv[x]) \in Entry
      BY <3>1 DEF KVTypeOK
    <3> HIDE DEF e
    <3>4. QED
      BY <3>2, <3>3 DEF KVTypeOK
  <2>2. CASE PutErr(kv, args) # "OK"
    BY <2>2 DEF PutStore, KVTypeOK
  <2>3. QED
    BY <2>1, <2>2
<1>4. QED
  BY <1>1, <1>2, <1>3

\* A client that starts or ends an operation keeps the service well typed.
LEMMA ClientTypes ==
  ASSUME KVTypeOK, NEW c \in Client, NEW next \in Call,
         Start(c, next) \/ Return(c, next)
  PROVE  KVTypeOK'
  BY DEF KVTypeOK, Start, Return

\* So does every step of the network, the server and the tester.
LEMMA KVStepTypes ==
  ASSUME KVTypeOK, KVStep
  PROVE  KVTypeOK'
<1>1. ASSUME NEW c \in Client, Dispatch(c)
      PROVE  KVTypeOK'
  BY <1>1, StageTypes DEF KVTypeOK, Dispatch, Call
<1>2. ASSUME NEW c \in Client, DropRequest(c) \/ TimeOut(c) \/ LoseReply(c)
      PROVE  KVTypeOK'
  BY <1>2, ResendType DEF KVTypeOK, DropRequest, TimeOut, LoseReply
<1>3. ASSUME NEW c \in Client, Execute(c)
      PROVE  KVTypeOK'
  <2>1. /\ call[c] \in Call /\ call[c].Key \in Key /\ call[c].Value \in Value
        /\ call[c].Version \in Nat
    BY DEF KVTypeOK, Call
  <2>2. CASE call[c].op = "Get"
    BY <1>3, <2>1, <2>2, HandlerTypes, StageTypes DEF KVTypeOK, Execute, Call
  <2>3. CASE call[c].op # "Get"
    <3>1. /\ kv' = PutStore(kv, call[c])
          /\ call' = [call EXCEPT ![c] = Stage(call[c], call[c].retry, "executed",
                                             ErrReply(PutErr(kv, call[c])))]
          /\ UNCHANGED <<orphans, enabled, discs>>
      BY <1>3, <2>3 DEF Execute
    <3>2. ErrReply(PutErr(kv, call[c])) \in Reply
      BY <2>1, HandlerTypes
    <3>3. call' \in [Client -> Call]
      BY <2>1, <3>1, <3>2, StageTypes DEF KVTypeOK, Call
    <3>4. DOMAIN kv' \subseteq Key /\ kv' \in [DOMAIN kv' -> Entry]
      BY <2>1, <3>1, HandlerTypes
    <3>5. QED
      BY <3>1, <3>3, <3>4 DEF KVTypeOK
  <2>4. QED
    BY <2>2, <2>3
<1>4. ASSUME NEW c \in Client, Abandon(c)
      PROVE  KVTypeOK'
  <2>1. call[c] \in Call
    BY DEF KVTypeOK
  <2>2. [id |-> <<c, discs>>, Key |-> call[c].Key,
         Value |-> call[c].Value, Version |-> call[c].Version] \in Orphan
    BY <2>1 DEF KVTypeOK, Call, Orphan
  <2>3. QED
    BY <1>4, <2>1, <2>2, ResendType DEF KVTypeOK, Abandon
<1>5. ASSUME NEW c \in Client, Disconnect(c) \/ Connect(c)
      PROVE  KVTypeOK'
  <2>1. enabled' \in [Client -> BOOLEAN]
    BY <1>5 DEF KVTypeOK, Disconnect, Connect
  <2>2. discs' \in Nat
    BY <1>5 DEF KVTypeOK, Disconnect, Connect
  <2>3. UNCHANGED <<kv, call, orphans>>
    BY <1>5 DEF Disconnect, Connect
  <2>4. QED
    BY <2>1, <2>2, <2>3 DEF KVTypeOK
<1>6. ASSUME NEW o \in orphans, ExecuteOrphan(o)
      PROVE  KVTypeOK'
  <2>1. o.Key \in Key /\ o.Value \in Value /\ o.Version \in Nat
    BY <1>6 DEF KVTypeOK, Orphan
  <2>2. QED
    BY <1>6, <2>1, HandlerTypes DEF KVTypeOK, ExecuteOrphan
<1>7. QED
  BY <1>1, <1>2, <1>3, <1>4, <1>5, <1>6 DEF KVStep
=============================================================================
