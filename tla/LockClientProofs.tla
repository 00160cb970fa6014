-------------------------- MODULE LockClientProofs --------------------------
(***************************************************************************)
(* Every step of Acquire and Release keeps the inductive invariant of      *)
(* module LockInvProofs.                                                   *)
(***************************************************************************)
EXTENDS LockInvProofs

-----------------------------------------------------------------------------
(* Every step of a client preserves the invariant.                         *)

\* The fields of the operations a client starts.
LEMMA CallFields ==
  ASSUME NEW v, NEW ver
  PROVE  /\ GetCall(lk_l).op = "Get" /\ GetCall(lk_l).Key = lk_l
         /\ GetCall(lk_l).rpc = "sent" /\ NoCall.rpc = "idle"
         /\ LET p == PutCall(lk_l, v, ver) IN
            /\ p.op = "Put" /\ p.Key = lk_l /\ p.Value = v /\ p.Version = ver
            /\ p.rpc = "sent" /\ ~p.retry
  BY Zenon DEF GetCall, PutCall, NoCall

\* Acquire and Release, step by step.
LEMMA ClientSteps ==
  ASSUME TypeOK, LockInv, UniqueNames, NEW c \in Client, ClientStep(c)
  PROVE  LockInv'
<1>1. /\ Name[c] # NoString /\ Ver \in Nat
      /\ ~Exists => Ver = 0 /\ Val = NoString
      /\ version[c] \in Nat /\ newVersion[c] \in Nat
      /\ Ver >= 0 /\ (Ver = 0 => Val = NoString)
  <2>1. Exists => Ver > 0
    BY Zenon DEF LockInv
  <2>2. Ver \in Nat /\ (~Exists => Ver = 0 /\ Val = NoString)
    BY StateTypes, Zenon
  <2>3. Ver >= 0 /\ (Ver = 0 => Val = NoString)
    BY <2>1, <2>2
  <2>4. Name[c] # NoString /\ version[c] \in Nat /\ newVersion[c] \in Nat
    BY NameFacts, Zenon DEF TypeOK
  <2>5. QED
    BY <2>2, <2>3, <2>4, Zenon
<1>2. ClientInv(c)
  BY Zenon DEF LockInv
<1>3. ASSUME NEW next, Start(c, next) \/ Return(c, next)
      PROVE  /\ call'[c] = next /\ kv' = kv /\ orphans' = orphans
             /\ Ver' = Ver /\ Val' = Val /\ (Exists' <=> Exists)
             /\ \A d \in Client : d # c => call'[d] = call[d]
  BY <1>3, SameState DEF Start, Return, TypeOK, KVTypeOK
<1>get. ASSUME Start(c, GetCall(lk_l)) \/ Return(c, GetCall(lk_l)), pc'[c] = "get",
              version'[c] = version[c], Val # Name[c], ~Exists => version[c] = 0
       PROVE  ClientInv(c)'
  <2>1. /\ Val' = Val /\ (Exists' <=> Exists) /\ call'[c].op = "Get" /\ call'[c].Key = lk_l
        /\ call'[c].rpc = "sent"
    <3>1. Val' = Val /\ (Exists' <=> Exists) /\ call'[c] = GetCall(lk_l)
      BY <1>3, <1>get, Zenon
    <3>2. QED
      BY <3>1, CallFields, Zenon
  <2>2. GetInv(c)'
    BY <1>get, <2>1, Zenon DEF GetInv, Getting, Executed
  <2>3. QED
    BY <1>get, <2>1, <2>2, Zenon DEF ClientInv
<1>4. CASE Acquire(c)
  <2>1. /\ Start(c, GetCall(lk_l))
        /\ pc[c] = "idle" /\ pc'[c] = "get" /\ version'[c] = version[c]
    BY <1>4, Zenon DEF Acquire, TypeOK
  <2>2. \A d \in Client : d # c => Same(d)
    BY <1>3, <1>4, <2>1, Zenon DEF Acquire, Same, TypeOK
  <2>3. Val # Name[c] /\ (~Exists => version[c] = 0)
    BY <1>2, <2>1, Zenon DEF ClientInv, IdleInv
  <2>4. ClientInv(c)'
    BY <1>get, <2>1, <2>3, Zenon
  <2>5. QED
    BY <1>3, <2>1, <2>2, <2>4, ClientLocalStep, Zenon
<1>5. CASE AcquireHeld(c)
  <2>1. /\ Return(c, GetCall(lk_l)) /\ Executed(c)
        /\ pc[c] = "get" /\ pc'[c] = "get"
        /\ version'[c] = version[c]
    BY <1>5, Zenon DEF AcquireHeld, Return, Start, Executed, TypeOK, lockVars
  <2>2. \A d \in Client : d # c => Same(d)
    BY <1>3, <1>5, <2>1, Zenon DEF AcquireHeld, Same, TypeOK, lockVars
  <2>3. Val # Name[c] /\ (~Exists => version[c] = 0)
    BY Zenon, <1>1, <1>2, <2>1 DEF ClientInv, GetInv
  <2>4. ClientInv(c)'
    BY <1>get, <2>1, <2>3, Zenon
  <2>5. QED
    BY <1>3, <2>1, <2>2, <2>4, ClientLocalStep, Zenon
<1>6. CASE AcquireFree(c)
  <2>1. /\ Return(c, PutCall(lk_l, Name[c], call[c].reply.Version)) /\ Executed(c)
        /\ pc[c] = "get" /\ pc'[c] = "put"
        /\ version'[c] = version[c]
        /\ newVersion'[c] = call[c].reply.Version
        /\ call[c].reply.Err = "OK" /\ call[c].reply.Value = NoString
    BY <1>6, Zenon DEF AcquireFree, Return, Start, Executed, TypeOK
  <2>2. \A d \in Client : d # c => Same(d)
    BY <1>3, <1>6, <2>1, Zenon DEF AcquireFree, Same, TypeOK
  <2>3. /\ Val # Name[c] /\ (~Exists => version[c] = 0)
        /\ Ver >= call[c].reply.Version
        /\ Ver = call[c].reply.Version => Val = NoString
    BY <1>1, <1>2, <2>1, Zenon DEF ClientInv, GetInv
  <2>4. TakenAt(c)' = call[c].reply.Version
    BY Zenon, <2>1 DEF TakenAt
  <2>5. ClientInv(c)'
    BY SMTT(60), <1>1, <1>3, <2>1, <2>3, <2>4, CallFields DEF ClientInv, PutInv, Putting, Executed, FirstTry
  <2>6. QED
    BY <1>3, <2>1, <2>2, <2>5, ClientLocalStep, Zenon
<1>7. CASE AcquireFirst(c)
  <2>1. /\ Return(c, PutCall(lk_l, Name[c], 0)) /\ Executed(c)
        /\ pc[c] = "get" /\ pc'[c] = "put0"
        /\ version'[c] = version[c]
        /\ call[c].reply.Err # "OK"
    BY <1>7, Zenon DEF AcquireFirst, Return, Start, Executed, TypeOK
  <2>2. \A d \in Client : d # c => Same(d)
    BY <1>3, <1>7, <2>1, Zenon DEF AcquireFirst, Same, TypeOK
  <2>3. Val # Name[c] /\ version[c] = 0 /\ (Ver = 0 => Val = NoString)
    BY <1>1, <1>2, <2>1, Zenon DEF ClientInv, GetInv
  <2>4. TakenAt(c)' = 0
    BY <2>1, Zenon DEF TakenAt
  <2>5. ClientInv(c)'
    BY <1>1, <1>3, <2>1, <2>3, <2>4, CallFields, SMTT(60) DEF ClientInv, PutInv, Putting, Executed, FirstTry
  <2>6. QED
    BY <1>3, <2>1, <2>2, <2>5, ClientLocalStep, Zenon
<1>8. CASE AcquirePutOK(c)
  <2>1. /\ Return(c, NoCall) /\ Executed(c)
        /\ pc[c] \in {"put", "put0"} /\ pc'[c] = "held"
        /\ version'[c] = (IF pc[c] = "put" THEN newVersion[c] ELSE version[c])
        /\ ClerkErr(call[c]) = "OK"
    BY <1>8, Zenon DEF AcquirePutOK, Return, Start, Executed, TypeOK
  <2>2. \A d \in Client : d # c => Same(d)
    BY Zenon, <1>3, <1>8, <2>1 DEF AcquirePutOK, Same, TypeOK
  <2>3. /\ version'[c] = TakenAt(c) /\ Val = Name[c] /\ Ver = TakenAt(c) + 1
    BY Zenon, <1>1, <1>2, <2>1 DEF ClientInv, PutInv, TakenAt, ClerkErr
  <2>4. ClientInv(c)'
    BY SMTT(60), <1>1, <1>3, <2>1, <2>3, CallFields DEF ClientInv, HeldInv
  <2>5. QED
    BY <1>3, <2>1, <2>2, <2>4, ClientLocalStep, Zenon
<1>9. CASE AcquirePutMaybe(c)
  <2>1. /\ Return(c, GetCall(lk_l)) /\ Executed(c)
        /\ pc[c] \in {"put", "put0"} /\ pc'[c] = (IF pc[c] = "put" THEN "check" ELSE "check0")
        /\ version'[c] = version[c] /\ newVersion'[c] = newVersion[c]
    BY <1>9, Zenon DEF AcquirePutMaybe, Return, Start, Executed, TypeOK
  <2>2. \A d \in Client : d # c => Same(d)
    BY Zenon, <1>3, <1>9, <2>1 DEF AcquirePutMaybe, Same, TypeOK
  <2>3. /\ Ver > TakenAt(c) /\ (Val = Name[c] => Ver = TakenAt(c) + 1)
        /\ pc[c] = "put0" => version[c] = 0
        /\ ~Exists => version[c] = 0
    BY <1>1, <1>2, <2>1, Zenon DEF ClientInv, PutInv, Putting
  <2>4. TakenAt(c)' = TakenAt(c)
    BY Zenon, <2>1 DEF TakenAt
  <2>5. ClientInv(c)'
    BY SMTT(60), <1>1, <1>3, <2>1, <2>3, <2>4, CallFields DEF ClientInv, CheckInv, Getting, Executed
  <2>6. QED
    BY <1>3, <2>1, <2>2, <2>5, ClientLocalStep, Zenon
<1>10. CASE AcquirePutFailed(c)
  <2>1. /\ Return(c, GetCall(lk_l)) /\ Executed(c)
        /\ pc[c] \in {"put", "put0"} /\ pc'[c] = "get"
        /\ version'[c] = version[c]
        /\ ClerkErr(call[c]) \notin {"OK", "ErrMaybe"}
    BY <1>10, Zenon DEF AcquirePutFailed, Return, Start, Executed, TypeOK
  <2>2. \A d \in Client : d # c => Same(d)
    BY <1>3, <1>10, <2>1, Zenon DEF AcquirePutFailed, Same, TypeOK
  <2>3. Val # Name[c] /\ (~Exists => version[c] = 0)
    BY Zenon, <1>1, <1>2, <2>1 DEF ClientInv, PutInv, Putting, ClerkErr
  <2>4. ClientInv(c)'
    BY <1>get, <2>1, <2>3, Zenon
  <2>5. QED
    BY <1>3, <2>1, <2>2, <2>4, ClientLocalStep, Zenon
<1>11. CASE AcquireCheckMine(c)
  <2>1. /\ Return(c, NoCall) /\ Executed(c)
        /\ pc[c] \in {"check", "check0"} /\ pc'[c] = "held"
        /\ version'[c] = (IF pc[c] = "check" THEN newVersion[c] ELSE version[c])
        /\ call[c].reply.Value = Name[c]
    BY <1>11, Zenon DEF AcquireCheckMine, Return, Start, Executed, TypeOK
  <2>2. \A d \in Client : d # c => Same(d)
    BY <1>3, <1>11, <2>1, Zenon DEF AcquireCheckMine, Same, TypeOK
  <2>3. /\ version'[c] = TakenAt(c) /\ Val = Name[c] /\ Ver = TakenAt(c) + 1
    <3>1. CheckInv(c) /\ (pc[c] = "check0" => version[c] = 0)
      BY <1>2, <2>1, Zenon DEF ClientInv
    <3>2. Val = Name[c] /\ Ver = TakenAt(c) + 1
      BY <2>1, <3>1, Zenon DEF CheckInv
    <3>3. version'[c] = TakenAt(c)
      BY <2>1, <3>1, Zenon DEF TakenAt
    <3>4. QED
      BY <3>2, <3>3, Zenon
  <2>4. ClientInv(c)'
    <3>1. Ver' = Ver /\ Val' = Val /\ (Exists' <=> Exists) /\ call'[c].rpc = "idle"
      BY <1>3, <2>1, CallFields, SMTT(30)
    <3>2. HeldInv(c)' /\ Exists'
      BY <1>1, <2>3, <3>1, Zenon DEF HeldInv, Val
    <3>3. QED
      BY <2>1, <3>2, Zenon DEF ClientInv
  <2>5. QED
    BY <1>3, <2>1, <2>2, <2>4, ClientLocalStep, Zenon
<1>12. CASE AcquireCheckOther(c)
  <2>1. /\ Return(c, GetCall(lk_l)) /\ Executed(c)
        /\ pc[c] \in {"check", "check0"} /\ pc'[c] = "get"
        /\ version'[c] = version[c]
        /\ ~(call[c].reply.Err = "OK" /\ call[c].reply.Value = Name[c])
    BY <1>12, Zenon DEF AcquireCheckOther, Return, Start, Executed, TypeOK
  <2>2. \A d \in Client : d # c => Same(d)
    BY <1>3, <1>12, <2>1, Zenon DEF AcquireCheckOther, Same, TypeOK
  <2>3. Val # Name[c] /\ (~Exists => version[c] = 0)
    BY Zenon, <1>1, <1>2, <2>1 DEF ClientInv, CheckInv
  <2>4. ClientInv(c)'
    BY <1>get, <2>1, <2>3, Zenon
  <2>5. QED
    BY <1>3, <2>1, <2>2, <2>4, ClientLocalStep, Zenon
<1>13. CASE Release(c)
  <2>1. /\ Start(c, PutCall(lk_l, NoString, version[c] + 1))
        /\ pc[c] = "held" /\ pc'[c] = "release"
        /\ version'[c] = version[c]
    BY <1>13, Zenon DEF Release, Return, Start, Executed, TypeOK
  <2>2. \A d \in Client : d # c => Same(d)
    BY <1>3, <1>13, <2>1, Zenon DEF Release, Same, TypeOK
  <2>3. /\ Val = Name[c] /\ Ver = version[c] + 1
        /\ ~Exists => version[c] = 0
    BY Zenon, <1>1, <1>2, <2>1 DEF ClientInv, HeldInv
  <2>4. ClientInv(c)'
    BY <1>1, <1>3, <2>1, <2>3, CallFields, SMTT(60) DEF ClientInv, ReleaseInv, Putting, Executed, FirstTry
  <2>5. QED
    BY <1>3, <2>1, <2>2, <2>4, ClientLocalStep, Zenon
<1>14. CASE ReleaseReturns(c)
  <2>1. /\ Return(c, NoCall) /\ Executed(c)
        /\ pc[c] = "release" /\ pc'[c] = "idle"
        /\ version'[c] = version[c]
    BY <1>14, Zenon DEF ReleaseReturns, Return, Start, Executed, TypeOK
  <2>2. \A d \in Client : d # c => Same(d)
    BY Zenon, <1>3, <1>14, <2>1 DEF ReleaseReturns, Same, TypeOK
  <2>3. Val # Name[c] /\ (~Exists => version[c] = 0)
    BY SMTT(30), <1>1, <1>2, <2>1 DEF ClientInv, ReleaseInv, Putting
  <2>4. ClientInv(c)'
    <3>1. Val' = Val /\ (Exists' <=> Exists) /\ call'[c].rpc = "idle"
      <4>1. Val' = Val /\ (Exists' <=> Exists) /\ call'[c] = NoCall
        BY <1>3, <2>1, Zenon
      <4>2. QED
        BY <4>1, CallFields, Zenon
    <3>2. IdleInv(c)'
      BY <2>3, <3>1, Zenon DEF IdleInv
    <3>3. QED
      BY <2>1, <2>3, <3>1, <3>2, Zenon DEF ClientInv
  <2>5. QED
    BY <1>3, <2>1, <2>2, <2>4, ClientLocalStep, Zenon
<1>15. QED
  BY <1>4, <1>5, <1>6, <1>7, <1>8, <1>9, <1>10, <1>11, <1>12, <1>13, <1>14, Zenon DEF ClientStep
=============================================================================
