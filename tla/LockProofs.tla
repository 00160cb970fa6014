----------------------------- MODULE LockProofs -----------------------------
(***************************************************************************)
(* Proofs that the lock of module Lock excludes two holders, never loses   *)
(* track of itself and can always be released, for every set of clients    *)
(* with names of their own and every behaviour of the network.             *)
(***************************************************************************)
EXTENDS LockClientProofs

-----------------------------------------------------------------------------
(* Every step of the service preserves the invariant.                      *)

\* A clerk in the middle of a Put is a client that takes or releases the lock,
\* and its version is not ahead of the key's.
LEMMA PuttingFacts ==
  ASSUME TypeOK, LockInv, NEW c \in Client
  PROVE  /\ call[c].op = "Put" /\ call[c].rpc # "idle" => pc[c] \in {"put", "put0", "release"}
         /\ call[c].op = "Get" /\ call[c].rpc # "idle" => pc[c] \in {"get", "check", "check0"}
         /\ pc[c] \in {"put", "put0"} =>
              /\ call[c].Key = lk_l /\ call[c].Value = Name[c] /\ call[c].op = "Put"
              /\ call[c].Version = TakenAt(c) /\ call[c].Version <= Ver
         /\ pc[c] = "release" =>
              /\ call[c].Key = lk_l /\ call[c].Value = NoString /\ call[c].op = "Put"
              /\ call[c].Version = version[c] + 1 /\ call[c].Version <= Ver
<1>1. ClientInv(c) /\ pc[c] \in PC /\ Ver \in Nat /\ version[c] \in Nat /\ TakenAt(c) \in Nat
  BY StateTypes, Zenon DEF LockInv, TypeOK, TakenAt
<1>2. CASE pc[c] \in {"idle", "held"}
  BY <1>1, <1>2, Zenon DEF ClientInv, IdleInv, HeldInv
<1>3. CASE pc[c] \in {"get", "check", "check0"}
  BY <1>1, <1>3, Zenon DEF ClientInv, GetInv, CheckInv, Getting
<1>4. CASE pc[c] \in {"put", "put0"}
  BY <1>1, <1>4, Zenon DEF ClientInv, PutInv, Putting
<1>5. CASE pc[c] = "release"
  BY <1>1, <1>5 DEF ClientInv, ReleaseInv, Putting
<1>6. QED
  BY <1>1, <1>2, <1>3, <1>4, <1>5, Zenon DEF PC

\* A Call that starts, or starts again, without the server's having done anything.
LEMMA RestageClient ==
  ASSUME TypeOK, LockInv, NEW c \in Client, kv' = kv, UNCHANGED lockVars,
         NEW retry \in BOOLEAN, NEW rpc \in {"sent", "running"}, NEW reply,
         call[c].rpc # "idle",
         call'[c] = Stage(call[c], retry, rpc, reply),
         call[c].op = "Put" /\ ~retry => FirstTry(c)
  PROVE  ClientInv(c)'
<1>1. /\ call'[c].op = call[c].op /\ call'[c].Key = call[c].Key
      /\ call'[c].Value = call[c].Value /\ call'[c].Version = call[c].Version
      /\ call'[c].retry = retry /\ call'[c].rpc = rpc
  BY SMTT(30) DEF Stage
<1>2. /\ Ver' = Ver /\ Val' = Val /\ (Exists' <=> Exists)
      /\ pc'[c] = pc[c] /\ version'[c] = version[c] /\ TakenAt(c)' = TakenAt(c)
  BY SameState DEF lockVars, TakenAt
<1>3. ~Executed(c)' /\ (call[c].op = "Put" /\ FirstTry(c)' => FirstTry(c))
  BY <1>1, Zenon DEF Executed, FirstTry
<1>4. ClientInv(c)
  BY Zenon DEF LockInv
<1>5. CASE pc[c] \in {"idle", "held"}
  BY <1>4, <1>5, Zenon DEF ClientInv, IdleInv, HeldInv
<1>6. CASE pc[c] \in {"get", "check", "check0"}
  BY <1>1, <1>2, <1>3, <1>4, <1>6, ZenonT(60) DEF ClientInv, GetInv, CheckInv, Getting
<1>7. CASE pc[c] \in {"put", "put0"}
  BY <1>1, <1>2, <1>3, <1>4, <1>7, ZenonT(60) DEF ClientInv, PutInv, Putting
<1>8. CASE pc[c] = "release"
  BY <1>1, <1>2, <1>3, <1>4, <1>8, ZenonT(60) DEF ClientInv, ReleaseInv, Putting
<1>9. QED
  BY <1>5, <1>6, <1>7, <1>8, Zenon DEF TypeOK, PC

\* Puts in flight keep their place while their client's Call is restarted.
LEMMA RestageOrphans ==
  ASSUME TypeOK, LockInv, NEW c \in Client, kv' = kv, UNCHANGED lockVars,
         NEW retry \in BOOLEAN, NEW rpc, NEW reply,
         call' = [call EXCEPT ![c] = Stage(call[c], retry, rpc, reply)],
         call[c].op = "Put" /\ call[c].retry => retry,
         NEW o \in orphans
  PROVE  OrphanInv(o)'
<1>1. OrphanInv(o) /\ Ver' = Ver /\ o.id[1] \in Client /\ pc' = pc
  BY SameState, Zenon DEF LockInv, TypeOK, KVTypeOK, Orphan, lockVars
<1>2. CASE o.Version < Ver
  BY <1>1, <1>2, Zenon DEF OrphanInv
<1>3. CASE ~(o.Version < Ver) /\ o.id[1] = c
  <2>1. pc[c] \in {"put", "put0", "release"} /\ call[c].retry
    BY <1>1, <1>3, Zenon DEF OrphanInv
  <2>2. call[c].op = "Put"
    BY <2>1, PuttingFacts, Zenon
  <2>3. /\ call'[c].retry
        /\ call'[c].Value = call[c].Value /\ call'[c].Version = call[c].Version
    BY <2>1, <2>2, Zenon DEF Stage, TypeOK, KVTypeOK
  <2>4. QED
    BY <1>1, <1>3, <2>3, Zenon DEF OrphanInv
<1>4. CASE ~(o.Version < Ver) /\ o.id[1] # c
  <2>1. call'[o.id[1]] = call[o.id[1]]
    BY <1>1, <1>4, Zenon DEF TypeOK, KVTypeOK
  <2>2. QED
    BY <1>1, <1>4, <2>1, Zenon DEF OrphanInv
<1>5. QED
  BY <1>2, <1>3, <1>4, Zenon

\* A step of one Call leaves the Calls of the others alone.
LEMMA OthersSame ==
  ASSUME TypeOK, NEW c \in Client, NEW new, call' = [call EXCEPT ![c] = new],
         UNCHANGED lockVars
  PROVE  call'[c] = new /\ \A d \in Client : d # c => Same(d)
  BY Zenon DEF Same, TypeOK, KVTypeOK, lockVars

\* The network and the tester: no handler runs.
LEMMA NetworkSteps ==
  ASSUME TypeOK, LockInv, NEW c \in Client, UNCHANGED lockVars,
         \/ Dispatch(c) \/ DropRequest(c) \/ TimeOut(c) \/ LoseReply(c)
         \/ Abandon(c) \/ Disconnect(c) \/ Connect(c)
  PROVE  LockInv'
<1>1. CASE Disconnect(c) \/ Connect(c)
  <2>1. kv' = kv /\ orphans' = orphans /\ \A d \in Client : Same(d)
    BY <1>1, Zenon DEF Disconnect, Connect, Same, lockVars
  <2>2. Ver' = Ver /\ (Exists' <=> Exists) /\ Ver \in Nat
    BY <2>1, SameState, StateTypes
  <2>3. \A d \in Client : ClientInv(d)'
    BY <2>1, ClientFrame, Zenon DEF LockInv
  <2>4. ASSUME NEW o \in orphans PROVE OrphanInv(o)'
    <3>1. o.id[1] \in Client /\ OrphanInv(o)
      BY Zenon DEF TypeOK, KVTypeOK, Orphan, LockInv
    <3>2. QED
      BY <2>1, <2>2, <3>1, OrphanFrame DEF Same
  <2>5. QED
    BY <2>1, <2>2, <2>3, <2>4, Zenon DEF LockInv
<1>2. CASE Dispatch(c)
  <2>1. /\ call' = [call EXCEPT ![c] = Stage(call[c], call[c].retry, "running", call[c].reply)]
        /\ call[c].rpc = "sent" /\ kv' = kv /\ orphans' = orphans
    BY <1>2, Zenon DEF Dispatch
  <2>2. call[c].retry \in BOOLEAN /\ (call[c].op = "Put" /\ ~call[c].retry => FirstTry(c))
    BY <2>1, Zenon DEF FirstTry, TypeOK, KVTypeOK, Call
  <2>3. ClientInv(c)'
    BY ZenonT(30), <2>1, <2>2, OthersSame, RestageClient
  <2>4. \A o \in orphans : OrphanInv(o)'
    BY ZenonT(30), <2>1, <2>2, RestageOrphans
  <2>5. QED
    BY ZenonT(30), <2>1, <2>3, <2>4, OthersSame, LocalStep
<1>3. CASE DropRequest(c) \/ TimeOut(c) \/ LoseReply(c) \/ Abandon(c)
  <2>1. /\ call' = [call EXCEPT ![c] = Stage(call[c], call[c].op = "Put", "sent", call[c].reply)]
        /\ call[c].rpc # "idle" /\ kv' = kv
    BY <1>3, Zenon DEF DropRequest, TimeOut, LoseReply, Abandon, Resend
  <2>2. ClientInv(c)'
    BY ZenonT(30), <2>1, OthersSame, RestageClient
  <2>3. \A o \in orphans : OrphanInv(o)'
    BY ZenonT(30), <2>1, RestageOrphans
  <2>4. \A d \in Client : ClientInv(d)'
    BY ZenonT(30), <2>1, <2>2, OthersSame, ClientFrame DEF LockInv
  <2>5. ASSUME NEW o \in orphans' PROVE OrphanInv(o)'
    <3>1. CASE o \in orphans
      BY <2>3, <3>1, Zenon
    <3>2. CASE o \notin orphans
      <4>1. /\ call[c].op = "Put"
            /\ o = [id |-> <<c, discs>>, Key |-> call[c].Key,
                    Value |-> call[c].Value, Version |-> call[c].Version]
        BY <1>3, <3>2, Zenon DEF DropRequest, TimeOut, LoseReply, Abandon
      <4>2. pc[c] \in {"put", "put0", "release"} /\ call[c].Key = lk_l /\ pc' = pc
        BY <2>1, <4>1, PuttingFacts, Zenon DEF lockVars
      <4>3. /\ call'[c].retry /\ call'[c].Value = call[c].Value
            /\ call'[c].Version = call[c].Version
        BY ZenonT(30), <2>1, <4>1 DEF Stage, TypeOK, KVTypeOK
      <4>4. QED
        BY <4>1, <4>2, <4>3, Zenon DEF OrphanInv
    <3>3. QED
      BY <3>1, <3>2, Zenon
  <2>6. QED
    BY <2>1, <2>4, <2>5, SameState, SMTT(30) DEF LockInv
<1>4. QED
  BY <1>1, <1>2, <1>3, Zenon

\* A Get that runs at the server tells its client what the invariant says it may
\* rely on.
LEMMA ExecuteGet ==
  ASSUME TypeOK, LockInv, NEW c \in Client, UNCHANGED lockVars, Execute(c), call[c].op = "Get"
  PROVE  LockInv'
<1> DEFINE r == GetReply(kv, call[c].Key)
<1>1. /\ call[c].rpc = "running" /\ kv' = kv /\ orphans' = orphans
      /\ call' = [call EXCEPT ![c] = Stage(call[c], call[c].retry, "executed", r)]
  BY Zenon DEF Execute
<1>2. /\ pc[c] \in {"get", "check", "check0"} /\ ClientInv(c)
      /\ call[c].retry \in BOOLEAN
  BY <1>1, PuttingFacts, Zenon DEF LockInv, TypeOK, KVTypeOK, Call
<1>3. call[c].Key = lk_l
  BY <1>2, Zenon DEF ClientInv, GetInv, CheckInv, Getting
<1>4. /\ Exists => r.Err = "OK" /\ r.Version = Ver /\ r.Value = Val
      /\ ~Exists => r.Err = "ErrNoKey"
  BY <1>3, GetFacts, Zenon
<1>5. /\ Ver' = Ver /\ Val' = Val /\ (Exists' <=> Exists) /\ Ver \in Nat
      /\ ~Exists => Ver = 0
      /\ pc'[c] = pc[c] /\ version'[c] = version[c] /\ TakenAt(c)' = TakenAt(c)
  BY <1>1, SameState, StateTypes DEF lockVars, TakenAt
<1> HIDE DEF r
<1>6. /\ call'[c].op = "Get" /\ call'[c].Key = lk_l /\ call'[c].rpc = "executed"
      /\ call'[c].reply = r
  BY <1>1, <1>3, Zenon DEF Stage, TypeOK, KVTypeOK
<1>7. ClientInv(c)'
  <2>1. CASE pc[c] = "get"
    <3>1. Val # Name[c] /\ (~Exists => version[c] = 0)
      BY <1>2, <2>1, Zenon DEF ClientInv, GetInv
    <3>2. GetInv(c)'
      BY <1>4, <1>5, <1>6, <3>1, SMTT(30) DEF GetInv, Getting
    <3>3. QED
      BY <1>5, <2>1, <3>1, <3>2, Zenon DEF ClientInv
  <2>2. CASE pc[c] \in {"check", "check0"}
    <3>1. /\ Ver > TakenAt(c) /\ (Val = Name[c] => Ver = TakenAt(c) + 1)
          /\ TakenAt(c) \in Nat
      BY <1>2, <2>2, Zenon DEF ClientInv, CheckInv, TakenAt, TypeOK
    <3>2. Exists
      BY <1>5, <3>1, SMTT(30)
    <3>3. CheckInv(c)'
      BY <1>4, <1>5, <1>6, <3>1, <3>2, Zenon DEF CheckInv, Getting
    <3>4. QED
      BY <1>2, <1>5, <2>2, <3>2, <3>3, Zenon DEF ClientInv
  <2>3. QED
    BY <1>2, <2>1, <2>2, Zenon
<1>8. \A o \in orphans : OrphanInv(o)'
  BY ZenonT(30), <1>1, <1>2, RestageOrphans
<1>9. QED
  BY ZenonT(30), <1>1, <1>7, <1>8, OthersSame, LocalStep

\* The others survive a write that is not about them: their own name is stored
\* neither before nor after it.
LEMMA WriteFrame ==
  ASSUME TypeOK, NEW d \in Client, ClientInv(d), Same(d),
         Exists', Ver' = Ver + 1, Val # Name[d], Val' # Name[d]
  PROVE  ClientInv(d)'
<1>1. /\ Ver \in Nat /\ TakenAt(d)' = TakenAt(d) /\ TakenAt(d) \in Nat
      /\ (Executed(d)' <=> Executed(d)) /\ (FirstTry(d)' <=> FirstTry(d))
      /\ call[d].Version \in Nat /\ call[d].reply.Version \in Nat /\ version[d] \in Nat
  BY StateTypes, Zenon DEF Same, TakenAt, Executed, FirstTry, TypeOK, KVTypeOK, Call, Reply
<1>2. CASE pc[d] = "idle"
  BY Zenon, <1>1, <1>2 DEF Same, ClientInv, IdleInv
<1>3. CASE pc[d] = "get"
  BY SMTT(30), <1>1, <1>3 DEF Same, ClientInv, GetInv, Getting
<1>4. CASE pc[d] \in {"put", "put0"}
  <2>1. PutInv(d) /\ (pc[d] = "put0" => version[d] = 0)
    BY <1>4, Zenon DEF ClientInv
  <2>2. Putting(d, Name[d], TakenAt(d))'
    BY <1>1, <2>1, SMTT(30) DEF Same, PutInv, Putting
  <2>3. Ver' > TakenAt(d) /\ ~(Executed(d) /\ call[d].reply.Err = "OK")
    BY <1>1, <2>1, SMTT(30) DEF PutInv
  <2>4. PutInv(d)'
    BY <1>1, <2>2, <2>3, SMTT(30) DEF Same, PutInv
  <2>5. QED
    BY <1>4, <2>1, <2>4, Zenon DEF Same, ClientInv
<1>5. CASE pc[d] \in {"check", "check0"}
  BY <1>1, <1>5, SMTT(30) DEF Same, ClientInv, CheckInv, Getting
<1>6. CASE pc[d] = "held"
  BY Zenon, <1>6 DEF ClientInv, HeldInv
<1>7. CASE pc[d] = "release"
  <2>1. ReleaseInv(d) /\ pc'[d] = pc[d] /\ version'[d] = version[d] /\ call'[d] = call[d]
    BY <1>7, Zenon DEF Same, ClientInv
  <2>2. Ver > version[d] + 1 /\ ~FirstTry(d)
    BY <2>1, Zenon DEF ReleaseInv
  <2>3. Ver' > version[d] + 1
    BY <1>1, <2>2, SMTT(30)
  <2>4. Putting(d, NoString, version[d] + 1)'
    BY <1>1, <2>1, <2>3, Zenon DEF ReleaseInv, Putting
  <2>5. Executed(d)' => ClerkErr(call[d])' # "ErrVersion"
    BY <1>1, <2>1, Zenon DEF ReleaseInv, ClerkErr
  <2>6. ReleaseInv(d)'
    BY <1>1, <2>1, <2>2, <2>3, <2>4, <2>5, Zenon DEF ReleaseInv
  <2>7. QED
    BY <1>7, <2>1, <2>6, Zenon DEF ClientInv
<1>8. QED
  BY <1>2, <1>3, <1>4, <1>5, <1>6, <1>7, Zenon DEF TypeOK, PC

\* A Put of c that finds its version takes the lock for c, or frees it of c.
LEMMA WriteStep ==
  ASSUME TypeOK, LockInv, UniqueNames, NEW c \in Client, UNCHANGED lockVars,
         pc[c] \in {"put", "put0", "release"}, Ver = call[c].Version,
         NEW a, a.Key = lk_l, a.Version = call[c].Version, a.Value = call[c].Value,
         kv' = PutStore(kv, a), orphans' \subseteq orphans,
         \A d \in Client : d # c => Same(d),
         NEW rpc, NEW reply, call'[c] = Stage(call[c], call[c].retry, rpc, reply),
         rpc = "executed" => reply.Err = "OK",
         rpc # "executed" => rpc = call[c].rpc /\ call[c].retry
  PROVE  LockInv'
<1>1. /\ ClientInv(c) /\ Ver \in Nat /\ TakenAt(c) \in Nat /\ version[c] \in Nat
      /\ Name[c] # NoString /\ (Exists => Ver > 0) /\ call[c].Version \in Nat
  BY StateTypes, NameFacts, Zenon DEF LockInv, TypeOK, TakenAt, KVTypeOK, Call
<1>2. Exists' /\ Ver' = Ver + 1 /\ Val' = call[c].Value
  BY <1>1, PutFacts, PutEffect, SMTT(30)
<1>3. /\ call'[c].op = call[c].op /\ call'[c].Key = call[c].Key
      /\ call'[c].Value = call[c].Value /\ call'[c].Version = call[c].Version
      /\ call'[c].retry = call[c].retry /\ call'[c].rpc = rpc /\ call'[c].reply = reply
      /\ pc'[c] = pc[c] /\ version'[c] = version[c] /\ TakenAt(c)' = TakenAt(c)
  <2>1. pc'[c] = pc[c] /\ version'[c] = version[c] /\ TakenAt(c)' = TakenAt(c)
    BY Zenon DEF lockVars, TakenAt
  <2>2. QED
    BY <2>1, SMTT(30) DEF Stage
<1>4. ~FirstTry(c)' /\ (Executed(c)' => reply.Err = "OK")
  BY <1>3, Zenon DEF FirstTry, Executed
<1>5. /\ ClientInv(c)'
      /\ \/ Val = NoString /\ Val' = Name[c]
         \/ Val = Name[c] /\ Val' = NoString
  <2>1. CASE pc[c] \in {"put", "put0"}
    <3>1. PutInv(c) /\ (pc[c] = "put0" => version[c] = 0) /\ call[c].rpc # "idle"
      BY <1>1, <2>1, Zenon DEF ClientInv, PutInv, Putting
    <3>2. /\ call[c].op = "Put" /\ call[c].Key = lk_l /\ call[c].Value = Name[c]
          /\ call[c].Version = TakenAt(c)
      BY Zenon, <2>1, PuttingFacts
    <3>3. Val = NoString /\ Val' = Name[c] /\ Ver' = TakenAt(c) + 1
      BY <1>2, <3>1, <3>2, Zenon DEF PutInv
    <3>4. Putting(c, Name[c], TakenAt(c))'
      BY <1>1, <1>3, <1>4, <3>1, <3>2, <3>3, SMTT(30) DEF Putting
    <3>5. PutInv(c)'
      BY SMTT(30), <1>1, <1>3, <1>4, <3>3, <3>4 DEF PutInv, ClerkErr
    <3>6. QED
      BY Zenon, <1>2, <1>3, <2>1, <3>1, <3>3, <3>5 DEF ClientInv
  <2>2. CASE pc[c] = "release"
    <3>1. ReleaseInv(c) /\ call[c].rpc # "idle"
      <4>1. ReleaseInv(c)
        BY <1>1, <2>2, Zenon DEF ClientInv
      <4>2. QED
        BY <4>1, Zenon DEF ReleaseInv, Putting
    <3>2. /\ call[c].op = "Put" /\ call[c].Key = lk_l /\ call[c].Value = NoString
          /\ call[c].Version = version[c] + 1
      BY Zenon, <2>2, PuttingFacts
    <3>3. Val = Name[c] /\ Val' = NoString /\ Ver' > version[c] + 1
      BY <1>1, <1>2, <3>1, <3>2, SMTT(30) DEF ReleaseInv
    <3>4. Putting(c, NoString, version[c] + 1)'
      BY <1>1, <1>3, <1>4, <3>1, <3>2, <3>3, Zenon DEF Putting
    <3>5. ReleaseInv(c)'
      BY <1>1, <1>3, <1>4, <3>3, <3>4, Zenon DEF ReleaseInv, ClerkErr
    <3>6. QED
      BY Zenon, <1>2, <1>3, <2>2, <3>3, <3>5 DEF ClientInv
  <2>3. QED
    BY <2>1, <2>2, Zenon
<1>6. ASSUME NEW d \in Client, d # c PROVE ClientInv(d)'
  <2>1. ClientInv(d) /\ Same(d) /\ Val # Name[d] /\ Val' # Name[d]
    BY <1>5, <1>6, NameFacts, Zenon DEF LockInv, UniqueNames
  <2>2. QED
    BY <1>2, <2>1, WriteFrame, Zenon
<1>7. ASSUME NEW o \in orphans PROVE OrphanInv(o)'
  <2>1. /\ o.id[1] \in Client /\ OrphanInv(o) /\ Ver' \in Nat /\ Ver' >= Ver /\ pc' = pc
    BY SMTT(30), <1>1, <1>2 DEF LockInv, TypeOK, KVTypeOK, Orphan, lockVars
  <2>2. /\ call'[o.id[1]].retry = call[o.id[1]].retry
        /\ call'[o.id[1]].Value = call[o.id[1]].Value
        /\ call'[o.id[1]].Version = call[o.id[1]].Version
    BY <1>3, <2>1, ZenonT(60) DEF Same
  <2>3. QED
    BY <2>1, <2>2, OrphanFrame, ZenonT(60)
<1>8. QED
  BY <1>1, <1>2, <1>5, <1>6, <1>7, SMTT(30) DEF LockInv

\* The Put a clerk is waiting for runs at the server.
LEMMA ExecutePut ==
  ASSUME TypeOK, LockInv, UniqueNames, NEW c \in Client, UNCHANGED lockVars,
         Execute(c), call[c].op = "Put"
  PROVE  LockInv'
<1> DEFINE e == PutErr(kv, call[c])
<1>1. /\ call[c].rpc = "running" /\ kv' = PutStore(kv, call[c]) /\ orphans' = orphans
      /\ call' = [call EXCEPT ![c] = Stage(call[c], call[c].retry, "executed", ErrReply(e))]
  BY Zenon DEF Execute
<1>2. /\ pc[c] \in {"put", "put0", "release"} /\ call[c].Key = lk_l
      /\ call[c].Version <= Ver /\ call[c].Version \in Nat /\ call[c].retry \in BOOLEAN
  BY <1>1, PuttingFacts, Zenon DEF TypeOK, KVTypeOK, Call
<1>3. /\ Ver = call[c].Version => e = "OK"
      /\ Ver # call[c].Version => e = "ErrVersion" /\ PutStore(kv, call[c]) = kv
  BY <1>2, PutFacts, Zenon DEF LockInv
<1>4. ErrReply(e).Err = e
  BY Zenon DEF ErrReply
<1>5. CASE Ver = call[c].Version
  BY ZenonT(30), <1>1, <1>2, <1>3, <1>4, <1>5, OthersSame, WriteStep
<1> HIDE DEF e
<1>6. CASE Ver # call[c].Version
  <2>1. /\ kv' = kv /\ ClientInv(c) /\ Ver \in Nat /\ Ver > call[c].Version
        /\ TakenAt(c) \in Nat /\ version[c] \in Nat
    BY <1>1, <1>2, <1>3, <1>6, StateTypes, SMTT(30) DEF LockInv, TypeOK, TakenAt
  <2>2. /\ Ver' = Ver /\ Val' = Val /\ (Exists' <=> Exists)
        /\ pc'[c] = pc[c] /\ version'[c] = version[c] /\ TakenAt(c)' = TakenAt(c)
    BY <2>1, SameState, SMTT(30) DEF lockVars, TakenAt
  <2>3. /\ call'[c].op = "Put" /\ call'[c].Key = lk_l
        /\ call'[c].Value = call[c].Value /\ call'[c].Version = call[c].Version
        /\ call'[c].retry = call[c].retry /\ call'[c].rpc = "executed"
        /\ call'[c].reply.Err = "ErrVersion"
    BY <1>1, <1>2, <1>3, <1>4, <1>6, Zenon DEF Stage, TypeOK, KVTypeOK
  <2>4. ~FirstTry(c)' /\ (~call[c].retry => FirstTry(c))
    BY <1>1, <2>3, Zenon DEF FirstTry
  <2>5. ClientInv(c)'
    <3>1. CASE pc[c] \in {"put", "put0"}
      <4>1. PutInv(c) /\ Putting(c, Name[c], TakenAt(c))
        BY <2>1, <3>1, Zenon DEF ClientInv, PutInv
      <4>2. Putting(c, Name[c], TakenAt(c))'
        BY Zenon, <2>1, <2>2, <2>3, <4>1 DEF Putting
      <4>3. PutInv(c)'
        BY Zenon, <2>1, <2>2, <2>3, <2>4, <4>1, <4>2 DEF PutInv, ClerkErr
      <4>4. QED
        BY Zenon, <2>1, <2>2, <3>1, <4>3 DEF ClientInv
    <3>2. CASE pc[c] = "release"
      <4>1. ReleaseInv(c) /\ Putting(c, NoString, version[c] + 1)
        BY Zenon, <2>1, <3>2 DEF ClientInv, ReleaseInv
      <4>2. Putting(c, NoString, version[c] + 1)'
        BY Zenon, <2>1, <2>2, <2>3, <4>1 DEF Putting
      <4>3. Val # Name[c] /\ Ver > version[c] + 1 /\ call[c].retry
        BY <2>1, <2>4, <4>1, SMTT(30) DEF ReleaseInv, Putting
      <4>4. ReleaseInv(c)'
        BY <2>2, <2>3, <2>4, <4>2, <4>3, Zenon DEF ReleaseInv, ClerkErr
      <4>5. QED
        BY Zenon, <2>1, <2>2, <3>2, <4>4 DEF ClientInv
    <3>3. QED
      BY <1>2, <3>1, <3>2, Zenon
  <2>6. \A o \in orphans : OrphanInv(o)'
    BY ZenonT(30), <1>1, <1>2, <2>1, RestageOrphans
  <2>7. QED
    BY ZenonT(30), <1>1, <2>1, <2>5, <2>6, OthersSame, LocalStep
<1>7. QED
  BY <1>5, <1>6, Zenon

\* A Put that nobody waits for any more runs at the server: it has no effect, or
\* it is the one its client is repeating.
LEMMA ExecuteOrphanStep ==
  ASSUME TypeOK, LockInv, UniqueNames, UNCHANGED lockVars, NEW o \in orphans, ExecuteOrphan(o)
  PROVE  LockInv'
<1>1. /\ kv' = PutStore(kv, o) /\ orphans' \subseteq orphans /\ call' = call
      /\ \A d \in Client : Same(d)
  BY Zenon DEF ExecuteOrphan, Same, lockVars
<1>2. /\ OrphanInv(o) /\ o.Version \in Nat /\ o.id[1] \in Client /\ o.Key = lk_l
      /\ Ver \in Nat /\ (Exists => Ver > 0)
  BY StateTypes, Zenon DEF LockInv, OrphanInv, TypeOK, KVTypeOK, Orphan
<1>3. CASE kv' = kv
  <2>1. Ver' = Ver /\ (Exists' <=> Exists)
    BY <1>3, SameState
  <2>2. \A d \in Client : ClientInv(d)'
    BY <1>1, <1>3, ClientFrame, Zenon DEF LockInv
  <2>3. ASSUME NEW p \in orphans PROVE OrphanInv(p)'
    <3>1. p.id[1] \in Client /\ OrphanInv(p)
      BY Zenon DEF TypeOK, KVTypeOK, Orphan, LockInv
    <3>2. QED
      BY <1>1, <1>2, <2>1, <3>1, OrphanFrame DEF Same
  <2>4. QED
    BY <1>1, <1>2, <2>1, <2>2, <2>3, Zenon DEF LockInv
<1>4. CASE kv' # kv
  <2> DEFINE c == o.id[1]
  <2>1. ~(o.Version < Ver)
    BY <1>1, <1>2, <1>4, PutFacts, SMTT(30)
  <2>2. /\ pc[c] \in {"put", "put0", "release"} /\ call[c].retry
        /\ call[c].Value = o.Value /\ call[c].Version = o.Version
    BY <1>2, <2>1, Zenon DEF OrphanInv
  <2>3. call[c].Version <= Ver
    BY <1>2, <2>2, PuttingFacts, Zenon
  <2>4. Ver = call[c].Version
    BY <1>2, <2>1, <2>2, <2>3
  <2>5. call[c].rpc # "executed"
    <3>1. ClientInv(c)
      BY Zenon, <1>2 DEF LockInv
    <3>2. Executed(c) => Ver > call[c].Version
      BY <2>2, <3>1, Zenon DEF ClientInv, PutInv, ReleaseInv, Putting
    <3>3. QED
      BY <1>2, <2>2, <2>4, <3>2 DEF Executed
  <2>6. call'[c] = Stage(call[c], call[c].retry, call[c].rpc, call[c].reply)
    BY <1>1, <1>2, Zenon DEF Stage, TypeOK, KVTypeOK, Call
  <2> HIDE DEF c
  <2>7. c \in Client
    BY <1>2, Zenon DEF c
  <2>8. QED
    BY ZenonT(30), <1>1, <1>2, <2>2, <2>4, <2>5, <2>6, <2>7, WriteStep
<1>5. QED
  BY <1>3, <1>4, Zenon

-----------------------------------------------------------------------------
(* The theorems.                                                           *)

\* Every step of the system preserves the invariant.
LEMMA LockInvStep ==
  ASSUME UniqueNames, TypeOK, LockInv, [Next]_vars
  PROVE  LockInv'
<1>1. ASSUME NEW c \in Client, ClientStep(c) PROVE LockInv'
  BY <1>1, ClientSteps, Zenon
<1>2. CASE KVStep /\ UNCHANGED lockVars
  <2>1. ASSUME NEW c \in Client, Execute(c) PROVE LockInv'
    <3>1. call[c].op \in {"Get", "Put"}
      BY Zenon DEF TypeOK, KVTypeOK, Call
    <3>2. QED
      BY <1>2, <2>1, <3>1, ExecuteGet, ExecutePut, Zenon
  <2>2. QED
    BY <1>2, <2>1, NetworkSteps, ExecuteOrphanStep, Zenon DEF KVStep
<1>3. CASE UNCHANGED vars
  <2>1. /\ kv' = kv /\ orphans' = orphans /\ \A d \in Client : Same(d)
    BY <1>3, Zenon DEF vars, kvVars, lockVars, Same
  <2>2. Ver' = Ver /\ (Exists' <=> Exists) /\ Ver \in Nat
    BY <2>1, SameState, StateTypes
  <2>3. \A d \in Client : ClientInv(d)'
    BY <2>1, ClientFrame, Zenon DEF LockInv
  <2>4. ASSUME NEW o \in orphans PROVE OrphanInv(o)'
    <3>1. o.id[1] \in Client /\ OrphanInv(o)
      BY Zenon DEF TypeOK, KVTypeOK, Orphan, LockInv
    <3>2. QED
      BY <2>1, <2>2, <3>1, OrphanFrame DEF Same
  <2>5. QED
    BY <2>1, <2>2, <2>3, <2>4, Zenon DEF LockInv
<1>4. QED
  BY <1>1, <1>2, <1>3, Zenon DEF Next, Finished

\* The invariant excludes what the safety properties exclude.
LEMMA LockInvSafe ==
  ASSUME UniqueNames, TypeOK, LockInv
  PROVE  MutualExclusion /\ NoLeakedLock /\ ReleaseSucceeds
<1>1. MutualExclusion
  BY ZenonT(60) DEF LockInv, ClientInv, HeldInv, UniqueNames, MutualExclusion
<1>2. NoLeakedLock
  <2>1. SUFFICES ASSUME NEW c \in Client, Exists, kv[lk_l].Value = Name[c]
                 PROVE  pc[c] \notin {"idle", "get"}
    BY Zenon DEF NoLeakedLock, Exists
  <2>2. ClientInv(c) /\ Val = Name[c]
    BY <2>1, Zenon DEF LockInv, Val
  <2>3. QED
    BY <2>2, Zenon DEF ClientInv, IdleInv, GetInv
<1>3. ReleaseSucceeds
  <2>1. SUFFICES ASSUME NEW c \in Client, pc[c] = "release", call[c].rpc = "executed"
                 PROVE  /\ ClerkErr(call[c]) \in {"OK", "ErrMaybe"}
                        /\ kv[lk_l].Version > version[c] + 1
    BY Zenon DEF ReleaseSucceeds
  <2>2. ReleaseInv(c) /\ Ver \in Nat /\ version[c] \in Nat /\ (~Exists => Ver = 0)
    BY <2>1, StateTypes, Zenon DEF LockInv, ClientInv, TypeOK
  <2>3. /\ ClerkErr(call[c]) # "ErrVersion" /\ call[c].reply.Err \in {"OK", "ErrVersion"}
        /\ Ver > version[c] + 1
    BY <2>1, <2>2, Zenon DEF ReleaseInv, Putting, Executed
  <2>4. Exists
    BY <2>2, <2>3
  <2>5. kv[lk_l].Version > version[c] + 1
    BY <2>3, <2>4, Zenon DEF Ver
  <2>6. ClerkErr(call[c]) \in {"OK", "ErrMaybe"}
    BY <2>3, Zenon DEF ClerkErr
  <2>7. QED
    BY <2>5, <2>6, Zenon
<1>4. QED
  BY <1>1, <1>2, <1>3, Zenon

\* The inductive invariant holds whenever the clients have names of their own.
THEOREM LockInvariant ==
  ASSUME UniqueNames
  PROVE  Spec => []LockInv
<1>1. TypeOK /\ Init => LockInv
  BY LockInvInit, Zenon
<1>2. TypeOK /\ LockInv /\ [Next]_vars => LockInv'
  BY LockInvStep, Zenon
<1>3. QED
  BY <1>1, <1>2, TypeInit, TypeCorrect, PTL DEF Spec

\* Lock.Acquire: for any number of clients with names of their own, no loss,
\* repetition or delay of RPCs lets two of them hold the lock.
THEOREM LockSafe ==
  ASSUME UniqueNames
  PROVE  Spec => []MutualExclusion
<1>1. TypeOK /\ LockInv => MutualExclusion
  BY LockInvSafe, Zenon
<1>2. QED
  BY <1>1, TypeCorrect, LockInvariant, PTL

\* Lock.Acquire never starts over, and Release never returns, while the stored
\* lock state names the client.
THEOREM LockNotLeaked ==
  ASSUME UniqueNames
  PROVE  Spec => []NoLeakedLock
<1>1. TypeOK /\ LockInv => NoLeakedLock
  BY LockInvSafe, Zenon
<1>2. QED
  BY <1>1, TypeCorrect, LockInvariant, PTL

\* Lock.Release may ignore what its Put returns: the lock is free of its holder.
THEOREM ReleaseWorks ==
  ASSUME UniqueNames
  PROVE  Spec => []ReleaseSucceeds
<1>1. TypeOK /\ LockInv => ReleaseSucceeds
  BY LockInvSafe, Zenon
<1>2. QED
  BY <1>1, TypeCorrect, LockInvariant, PTL
=============================================================================
