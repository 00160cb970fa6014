--------------------------- MODULE LockInvProofs ----------------------------
(***************************************************************************)
(* The inductive invariant of module Lock, for every set of clients with   *)
(* names of their own and every behaviour of the network: what it says,    *)
(* that it holds initially, and what leaves its parts alone.  The steps of *)
(* the clients are in LockClientProofs, those of the service in LockProofs.*)
(***************************************************************************)
EXTENDS Lock, KVSrvProofs, TLAPS

-----------------------------------------------------------------------------
(* The inductive invariant.                                                *)

\* What makes the lock safe, as an inductive invariant.  The stored state names c
\* exactly while c's uncertain Put has been performed and not yet undone, at the
\* version after the one the Put was sent with.  A Put still in flight either
\* carries a version the key has passed, or is the one its client is waiting for.
Exists == lk_l \in DOMAIN kv

Ver == IF Exists THEN kv[lk_l].Version ELSE 0

Val == IF Exists THEN kv[lk_l].Value ELSE NoString

\* The version at which c tries to take the lock.
TakenAt(c) == IF pc[c] \in {"put", "check"} THEN newVersion[c] ELSE 0

Executed(c) == call[c].rpc = "executed"

\* Only a Call that failed may have been performed without the clerk's knowledge.
FirstTry(c) == call[c].rpc \in {"sent", "running"} /\ ~call[c].retry

Getting(c) ==
  /\ call[c].op = "Get" /\ call[c].Key = lk_l /\ call[c].rpc # "idle"

Putting(c, v, ver) ==
  /\ call[c].op = "Put" /\ call[c].Key = lk_l /\ call[c].rpc # "idle"
  /\ call[c].Value = v /\ call[c].Version = ver
  /\ Executed(c) => call[c].reply.Err \in {"OK", "ErrVersion"} /\ Ver > ver

IdleInv(c) == call[c].rpc = "idle" /\ Val # Name[c]

GetInv(c) ==
  /\ Getting(c)
  /\ Val # Name[c]
  /\ Executed(c) =>
       LET r == call[c].reply IN
       \/ r.Err = "OK" /\ Ver >= r.Version /\ (Ver = r.Version => Val = r.Value)
       \/ r.Err = "ErrNoKey" /\ version[c] = 0

PutInv(c) ==
  LET v == TakenAt(c) IN
  /\ Putting(c, Name[c], v)
  /\ Ver >= v
  /\ Ver = v => Val = NoString
  /\ Val = Name[c] => Ver = v + 1
  /\ FirstTry(c) => Val # Name[c]
  /\ Executed(c) /\ call[c].reply.Err = "OK" => Val = Name[c]
  /\ Executed(c) /\ ClerkErr(call[c]) = "ErrVersion" => Val # Name[c]

CheckInv(c) ==
  LET v == TakenAt(c) IN
  /\ Getting(c)
  /\ Ver > v
  /\ Val = Name[c] => Ver = v + 1
  /\ Executed(c) => call[c].reply.Err = "OK"
  /\ Executed(c) => (call[c].reply.Value = Name[c] <=> Val = Name[c])

HeldInv(c) ==
  /\ call[c].rpc = "idle"
  /\ Val = Name[c] /\ Ver = version[c] + 1

ReleaseInv(c) ==
  /\ Putting(c, NoString, version[c] + 1)
  /\ \/ Val = Name[c] /\ Ver = version[c] + 1
     \/ Val # Name[c] /\ Ver > version[c] + 1
  /\ FirstTry(c) => Val = Name[c]
  /\ Executed(c) => ClerkErr(call[c]) # "ErrVersion"

ClientInv(c) ==
  /\ pc[c] = "idle" => IdleInv(c)
  /\ pc[c] = "get" => GetInv(c)
  /\ pc[c] \in {"put", "put0"} => PutInv(c)
  /\ pc[c] \in {"check", "check0"} => CheckInv(c)
  /\ pc[c] = "held" => HeldInv(c)
  /\ pc[c] = "release" => ReleaseInv(c)
  /\ pc[c] \in {"put0", "check0"} => version[c] = 0
  /\ ~Exists => version[c] = 0

OrphanInv(o) ==
  /\ o.Key = lk_l
  /\ \/ o.Version < Ver
     \/ LET c == o.id[1] IN
        /\ pc[c] \in {"put", "put0", "release"}
        /\ call[c].retry
        /\ call[c].Value = o.Value
        /\ call[c].Version = o.Version

LockInv ==
  /\ Exists => Ver > 0
  /\ \A c \in Client : ClientInv(c)
  /\ \A o \in orphans : OrphanInv(o)

-----------------------------------------------------------------------------
(* Type correctness.                                                       *)

\* MakeLock and MakeKVServer leave well typed states.
LEMMA TypeInit == Init => TypeOK
<1> SUFFICES ASSUME Init PROVE TypeOK
  OBVIOUS
<1>1. NoCall \in Call
  BY KVSrvAssumption, CallTypes
<1>2. KVTypeOK
  BY <1>1 DEF Init, KVInit, KVTypeOK
<1>3. QED
  BY <1>2 DEF Init, LockInit, TypeOK, PC

\* Every step of Acquire and Release keeps the state well typed.
LEMMA ClientStepTypes ==
  ASSUME TypeOK, NEW c \in Client, ClientStep(c)
  PROVE  TypeOK'
<1>1. /\ GetCall(lk_l) \in Call /\ NoCall \in Call
      /\ \A ver \in Nat : PutCall(lk_l, Name[c], ver) \in Call /\ PutCall(lk_l, NoString, ver) \in Call
  BY KVSrvAssumption, LockAssumption, CallTypes, Zenon DEF lk_l
<1>2. call[c].reply.Version \in Nat /\ version[c] \in Nat /\ newVersion[c] \in Nat
  BY Zenon DEF TypeOK, KVTypeOK, Call, Reply
<1>3. KVTypeOK
  BY Zenon DEF TypeOK
<1>4. ASSUME NEW next \in Call, Start(c, next) \/ Return(c, next),
             pc' \in [Client -> PC], newVersion' \in [Client -> Nat],
             version' \in [Client -> Nat], rounds' \in [Client -> Nat]
      PROVE  TypeOK'
  BY <1>3, <1>4, ClientTypes, Zenon DEF TypeOK
<1>5. CASE Acquire(c)
  BY <1>1, <1>2, <1>4, <1>5, Zenon DEF Acquire, TypeOK, PC
<1>6. CASE AcquireHeld(c)
  BY <1>1, <1>2, <1>4, <1>6, Zenon DEF AcquireHeld, TypeOK, PC, lockVars
<1>7. CASE AcquireFree(c)
  BY <1>1, <1>2, <1>4, <1>7, Zenon DEF AcquireFree, TypeOK, PC
<1>8. CASE AcquireFirst(c)
  BY <1>1, <1>2, <1>4, <1>8, Zenon DEF AcquireFirst, TypeOK, PC
<1>9. CASE AcquirePutOK(c)
  BY <1>1, <1>2, <1>4, <1>9, Zenon DEF AcquirePutOK, TypeOK, PC
<1>10. CASE AcquirePutMaybe(c)
  BY <1>1, <1>2, <1>4, <1>10, Zenon DEF AcquirePutMaybe, TypeOK, PC
<1>11. CASE AcquirePutFailed(c)
  BY <1>1, <1>2, <1>4, <1>11, Zenon DEF AcquirePutFailed, TypeOK, PC
<1>12. CASE AcquireCheckMine(c)
  BY <1>1, <1>2, <1>4, <1>12, Zenon DEF AcquireCheckMine, TypeOK, PC
<1>13. CASE AcquireCheckOther(c)
  BY <1>1, <1>2, <1>4, <1>13, Zenon DEF AcquireCheckOther, TypeOK, PC
<1>14. CASE Release(c)
  <2>1. version[c] + 1 \in Nat
    BY <1>2
  <2>2. PutCall(lk_l, NoString, version[c] + 1) \in Call
    BY <1>1, <2>1, Zenon
  <2>3. Start(c, PutCall(lk_l, NoString, version[c] + 1))
    BY <1>14, Zenon DEF Release
  <2>4. /\ pc' \in [Client -> PC] /\ newVersion' \in [Client -> Nat]
        /\ version' \in [Client -> Nat] /\ rounds' \in [Client -> Nat]
    BY <1>14, Zenon DEF Release, TypeOK, PC
  <2>5. QED
    BY <1>4, <2>2, <2>3, <2>4, Zenon
<1>15. CASE ReleaseReturns(c)
  <2>1. rounds' \in [Client -> Nat]
    BY <1>15 DEF ReleaseReturns, TypeOK
  <2>2. /\ pc' \in [Client -> PC] /\ newVersion' \in [Client -> Nat]
        /\ version' \in [Client -> Nat]
    BY <1>15, Zenon DEF ReleaseReturns, TypeOK, PC
  <2>3. Return(c, NoCall)
    BY <1>15, Zenon DEF ReleaseReturns
  <2>4. QED
    BY <1>1, <1>4, <2>1, <2>2, <2>3, Zenon
<1>get. QED
  BY <1>5, <1>6, <1>7, <1>8, <1>9, <1>10, <1>11, <1>12, <1>13, <1>14, <1>15, Zenon DEF ClientStep

\* So does every step of the system.
LEMMA TypeStep == TypeOK /\ [Next]_vars => TypeOK'
<1> SUFFICES ASSUME TypeOK, [Next]_vars PROVE TypeOK'
  OBVIOUS
<1>1. ASSUME NEW c \in Client, ClientStep(c)
      PROVE  TypeOK'
  BY <1>1, ClientStepTypes
<1>2. CASE KVStep /\ UNCHANGED lockVars
  BY <1>2, KVStepTypes DEF TypeOK, lockVars
<1>3. CASE UNCHANGED vars
  BY <1>3 DEF TypeOK, KVTypeOK, vars, kvVars, lockVars
<1>4. QED
  BY <1>1, <1>2, <1>3 DEF Next, Finished

\* The state of the service, the clerks and the clients is always well typed.
THEOREM TypeCorrect == Spec => []TypeOK
<1>1. QED
  BY TypeInit, TypeStep, PTL DEF Spec
-----------------------------------------------------------------------------
(* What the lock's state and the handlers have to do with each other.      *)

\* A name passed to MakeLock is a value that can be stored, and not "".
LEMMA NameFacts ==
  ASSUME NEW c \in Client
  PROVE  Name[c] \in Value /\ Name[c] # NoString
  BY LockAssumption, Zenon

\* The version and the value of the lock state are a number and a value.
LEMMA StateTypes ==
  ASSUME TypeOK
  PROVE  /\ Ver \in Nat /\ Val \in Value
         /\ ~Exists => Ver = 0 /\ Val = NoString
  BY KVSrvAssumption, Zenon DEF TypeOK, KVTypeOK, Entry, Ver, Val, Exists

\* They depend on the map of the server only.
LEMMA SameState ==
  ASSUME kv' = kv
  PROVE  Ver' = Ver /\ Val' = Val /\ Exists' = Exists
  BY Zenon DEF Ver, Val, Exists

\* A Put whose version is not ahead of the key's is performed exactly when the
\* versions are equal, also when the key does not exist.
LEMMA PutFacts ==
  ASSUME TypeOK, Exists => Ver > 0, NEW a, a.Key = lk_l, a.Version \in Nat, a.Version <= Ver
  PROVE  /\ Ver = a.Version => PutErr(kv, a) = "OK"
         /\ Ver # a.Version => PutErr(kv, a) = "ErrVersion" /\ PutStore(kv, a) = kv
<1>1. CASE Exists
  <2>1. Ver = kv[a.Key].Version /\ a.Key \in DOMAIN kv
    BY <1>1, Zenon DEF Ver, Exists
  <2>2. QED
    BY <2>1, Zenon DEF PutErr, PutStore
<1>2. CASE ~Exists
  <2>1. Ver = 0 /\ a.Key \notin DOMAIN kv
    BY <1>2, Zenon DEF Ver, Exists
  <2>2. a.Version = 0
    BY <2>1
  <2>3. QED
    BY <2>1, <2>2, Zenon DEF PutErr
<1>3. QED
  BY <1>1, <1>2, Zenon

\* What KVServer.Put leaves behind when it performs the Put.
LEMMA PutEffect ==
  ASSUME TypeOK, NEW a, a.Key = lk_l, PutErr(kv, a) = "OK", kv' = PutStore(kv, a)
  PROVE  Exists' /\ Ver' = a.Version + 1 /\ Val' = a.Value
<1>1. kv' = [k \in DOMAIN kv \cup {lk_l} |->
               IF k = lk_l THEN [Value |-> a.Value, Version |-> a.Version + 1] ELSE kv[k]]
  BY Zenon DEF PutStore
<1>2. lk_l \in DOMAIN kv' /\ kv'[lk_l] = [Value |-> a.Value, Version |-> a.Version + 1]
  BY <1>1, Zenon
<1>3. QED
  BY <1>2 DEF Exists, Ver, Val

\* What KVServer.Get says of the lock state.
LEMMA GetFacts ==
  ASSUME TypeOK
  PROVE  LET r == GetReply(kv, lk_l) IN
         /\ Exists => r.Err = "OK" /\ r.Version = Ver /\ r.Value = Val
         /\ ~Exists => r.Err = "ErrNoKey"
  BY Zenon DEF GetReply, ErrReply, Exists, Ver, Val

-----------------------------------------------------------------------------
(* The invariant holds initially, and steps of others do not disturb it.   *)

\* The invariant holds when no client has called Acquire yet.
LEMMA LockInvInit == TypeOK /\ Init => LockInv
<1> SUFFICES ASSUME TypeOK, Init PROVE LockInv
  OBVIOUS
<1>1. ~Exists /\ Val = NoString
  BY DEF Init, KVInit, Exists, Val
<1>2. ASSUME NEW c \in Client
      PROVE  ClientInv(c)
  BY <1>1, NameFacts DEF Init, KVInit, LockInit, NoCall, ClientInv, IdleInv
<1>3. QED
  BY <1>1, <1>2 DEF Init, KVInit, LockInv

\* What a client's part of the invariant depends on.
Same(c) ==
  /\ call'[c] = call[c] /\ pc'[c] = pc[c]
  /\ newVersion'[c] = newVersion[c] /\ version'[c] = version[c]

\* What the invariant says of a client depends on that client and the map only.
LEMMA ClientFrame ==
  ASSUME NEW d \in Client, ClientInv(d), kv' = kv, Same(d)
  PROVE  ClientInv(d)'
<1>1. Ver' = Ver /\ Val' = Val /\ Exists' = Exists
  BY SameState, Zenon
<1>2. TakenAt(d)' = TakenAt(d) /\ Executed(d)' = Executed(d) /\ FirstTry(d)' = FirstTry(d)
  BY Zenon DEF Same, TakenAt, Executed, FirstTry
<1>3. QED
  BY <1>1, <1>2, Zenon DEF Same, ClientInv, IdleInv, GetInv, PutInv, CheckInv, HeldInv, ReleaseInv, Getting,
       Putting, ClerkErr

\* What it says of an abandoned Put depends on its client and the map only.
LEMMA OrphanFrame ==
  ASSUME TypeOK, NEW o \in orphans, OrphanInv(o), Ver' \in Nat, Ver' >= Ver,
         pc'[o.id[1]] = pc[o.id[1]],
         call[o.id[1]].retry => call'[o.id[1]].retry,
         call'[o.id[1]].Value = call[o.id[1]].Value,
         call'[o.id[1]].Version = call[o.id[1]].Version
  PROVE  OrphanInv(o)'
<1>1. o.Version \in Nat /\ Ver \in Nat
  BY StateTypes, Zenon DEF TypeOK, KVTypeOK, Orphan
<1>2. CASE o.Version < Ver
  BY <1>1, <1>2 DEF OrphanInv
<1>3. CASE ~(o.Version < Ver)
  BY <1>3, Zenon DEF OrphanInv
<1>4. QED
  BY <1>2, <1>3, Zenon

\* A Put of c that is still in flight when c goes on to something else can no
\* longer be performed.
LEMMA OrphanPassed ==
  ASSUME TypeOK, LockInv, NEW c \in Client, NEW o \in orphans, o.id[1] = c,
         pc[c] \notin {"put", "put0", "release"} \/ Executed(c)
  PROVE  o.Version < Ver
<1>1. OrphanInv(o) /\ ClientInv(c)
  BY Zenon DEF LockInv
<1>2. CASE pc[c] \notin {"put", "put0", "release"}
  BY <1>1, <1>2, Zenon DEF OrphanInv
<1>3. CASE pc[c] \in {"put", "put0"} /\ Executed(c)
  <2>1. Ver > call[c].Version
    BY <1>1, <1>3, Zenon DEF ClientInv, PutInv, Putting
  <2>2. QED
    BY <1>1, <2>1, Zenon DEF OrphanInv
<1>4. CASE pc[c] = "release" /\ Executed(c)
  <2>1. Ver > call[c].Version
    BY <1>1, <1>4, Zenon DEF ClientInv, ReleaseInv, Putting
  <2>2. QED
    BY <1>1, <2>1, Zenon DEF OrphanInv
<1>5. QED
  BY <1>2, <1>3, <1>4, Zenon

\* For a step of c that leaves the server alone it is enough to look at c.
LEMMA LocalStep ==
  ASSUME TypeOK, LockInv, NEW c \in Client, kv' = kv, orphans' = orphans,
         \A d \in Client : d # c => Same(d),
         ClientInv(c)',
         \A o \in orphans : o.id[1] = c => OrphanInv(o)'
  PROVE  LockInv'
<1>1. Ver' = Ver /\ Exists' = Exists /\ Ver \in Nat
  BY SameState, StateTypes, Zenon
<1>2. ASSUME NEW d \in Client
      PROVE  ClientInv(d)'
  BY ClientFrame, Zenon DEF LockInv
<1>3. ASSUME NEW o \in orphans, o.id[1] # c
      PROVE  OrphanInv(o)'
  <2>1. o.id[1] \in Client
    BY <1>3, Zenon DEF TypeOK, KVTypeOK, Orphan
  <2>2. Same(o.id[1]) /\ OrphanInv(o)
    BY <1>3, <2>1, Zenon DEF LockInv
  <2>3. QED
    BY <1>1, <2>2, OrphanFrame DEF Same
<1>4. QED
  BY <1>1, <1>2, <1>3, Zenon DEF LockInv

\* The same for a step in which the client starts or ends a clerk operation.
LEMMA ClientLocalStep ==
  ASSUME TypeOK, LockInv, NEW c \in Client, kv' = kv, orphans' = orphans,
         \A d \in Client : d # c => Same(d),
         pc[c] \notin {"put", "put0", "release"} \/ Executed(c),
         ClientInv(c)'
  PROVE  LockInv'
<1>1. Ver' = Ver
  BY SameState, Zenon
<1>2. ASSUME NEW o \in orphans, o.id[1] = c
      PROVE  OrphanInv(o)'
  BY <1>1, <1>2, OrphanPassed, Zenon DEF OrphanInv, LockInv
<1>3. QED
  BY <1>2, LocalStep, Zenon
=============================================================================
