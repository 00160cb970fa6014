------------------------------- MODULE Lock -------------------------------
(***************************************************************************)
(* The lock of kvsrv1/lock: clients that acquire and release one lock,     *)
(* whose state is the value of a key of the key/value service.  The value  *)
(* is "" when the lock is free and the holder's name when it is held.      *)
(*                                                                         *)
(* A step of a client is what it does between two clerk operations: take   *)
(* the result of one, update its own variables, and start the next.  The   *)
(* service underneath (module KVSrv) loses, repeats and delays RPCs.       *)
(***************************************************************************)
EXTENDS KVSrv

CONSTANTS
  Name,        \* Name[c]: the string client c passes to MakeLock
  MaxRounds    \* how often a client acquires and releases the lock

ASSUME LockAssumption ==
  /\ "key" \in Key
  /\ Name \in [Client -> Value]
  /\ \A c \in Client : Name[c] # NoString
  /\ MaxRounds \in Nat

VARIABLES
  pc,          \* where client c is in Acquire and Release
  newVersion,  \* newVersion[c]: the local variable of Acquire
  version,     \* version[c]: the field lk.version
  rounds       \* rounds[c]: how often c has released the lock

lockVars == <<pc, newVersion, version, rounds>>

vars == <<kvVars, lockVars>>

lk_l == "key"    \* MakeLock stores the constant "key" in lk.l

PC == {"idle", "get", "put", "check", "put0", "check0", "held", "release"}

\* The test gives every client a random name of its own.
UniqueNames == \A c, d \in Client : Name[c] = Name[d] => c = d

-----------------------------------------------------------------------------
\* MakeLock, for every client.
LockInit ==
  /\ pc = [c \in Client |-> "idle"]
  /\ newVersion = [c \in Client |-> 0]
  /\ version = [c \in Client |-> 0]
  /\ rounds = [c \in Client |-> 0]

\* Acquire starts: Get the lock state.
Acquire(c) ==
  /\ pc[c] = "idle"
  /\ rounds[c] < MaxRounds
  /\ Start(c, GetCall(lk_l))
  /\ pc' = [pc EXCEPT ![c] = "get"]
  /\ UNCHANGED <<newVersion, version, rounds>>

\* The Get returned OK and a name: somebody holds the lock, ask again.
AcquireHeld(c) ==
  /\ pc[c] = "get"
  /\ call[c].reply.Err = "OK" /\ call[c].reply.Value # NoString
  /\ Return(c, GetCall(lk_l))
  /\ UNCHANGED lockVars

\* The Get returned OK and "": try to take the lock at that version.
AcquireFree(c) ==
  /\ pc[c] = "get"
  /\ call[c].reply.Err = "OK" /\ call[c].reply.Value = NoString
  /\ Return(c, PutCall(lk_l, Name[c], call[c].reply.Version))
  /\ pc' = [pc EXCEPT ![c] = "put"]
  /\ newVersion' = [newVersion EXCEPT ![c] = call[c].reply.Version]
  /\ UNCHANGED <<version, rounds>>

\* The Get returned an error: the key has never been written, create it.
AcquireFirst(c) ==
  /\ pc[c] = "get"
  /\ call[c].reply.Err # "OK"
  /\ Return(c, PutCall(lk_l, Name[c], 0))
  /\ pc' = [pc EXCEPT ![c] = "put0"]
  /\ UNCHANGED <<newVersion, version, rounds>>

\* Faulty: ErrMaybe is taken for success.
AcquirePutTrusts(c) ==
  /\ pc[c] \in {"put", "put0"}
  /\ ClerkErr(call[c]) \in {"OK", "ErrMaybe"}
  /\ Return(c, NoCall)
  /\ pc' = [pc EXCEPT ![c] = "held"]
  /\ version' = [version EXCEPT ![c] = IF pc[c] = "put" THEN newVersion[c] ELSE @]
  /\ UNCHANGED <<newVersion, rounds>>

\* The Put returned OK: the lock is taken.  Only the branch for an existing key
\* stores its version in lk.version.
AcquirePutOK(c) ==
  /\ pc[c] \in {"put", "put0"}
  /\ ClerkErr(call[c]) = "OK"
  /\ Return(c, NoCall)
  /\ pc' = [pc EXCEPT ![c] = "held"]
  /\ version' = [version EXCEPT ![c] = IF pc[c] = "put" THEN newVersion[c] ELSE @]
  /\ UNCHANGED <<newVersion, rounds>>

\* Faulty: after ErrMaybe the client starts over without a look.
AcquireMaybeRestarts(c) ==
  /\ pc[c] \in {"put", "put0"}
  /\ ClerkErr(call[c]) = "ErrMaybe"
  /\ Return(c, GetCall(lk_l))
  /\ pc' = [pc EXCEPT ![c] = "get"]
  /\ UNCHANGED <<newVersion, version, rounds>>

\* The Put returned ErrMaybe: look whether it was performed.
AcquirePutMaybe(c) ==
  /\ pc[c] \in {"put", "put0"}
  /\ ClerkErr(call[c]) = "ErrMaybe"
  /\ Return(c, GetCall(lk_l))
  /\ pc' = [pc EXCEPT ![c] = IF pc[c] = "put" THEN "check" ELSE "check0"]
  /\ UNCHANGED <<newVersion, version, rounds>>

\* Faulty: ErrMaybe is one of the errors after which the client starts over.
AcquirePutDistrusts(c) ==
  /\ pc[c] \in {"put", "put0"}
  /\ ClerkErr(call[c]) # "OK"
  /\ Return(c, GetCall(lk_l))
  /\ pc' = [pc EXCEPT ![c] = "get"]
  /\ UNCHANGED <<newVersion, version, rounds>>

\* The Put returned another error: start over.
AcquirePutFailed(c) ==
  /\ pc[c] \in {"put", "put0"}
  /\ ClerkErr(call[c]) \notin {"OK", "ErrMaybe"}
  /\ Return(c, GetCall(lk_l))
  /\ pc' = [pc EXCEPT ![c] = "get"]
  /\ UNCHANGED <<newVersion, version, rounds>>

\* Faulty: the version is not stored when the Put turns out to have worked.
AcquireCheckForgets(c) ==
  /\ pc[c] \in {"check", "check0"}
  /\ call[c].reply.Err = "OK" /\ call[c].reply.Value = Name[c]
  /\ Return(c, NoCall)
  /\ pc' = [pc EXCEPT ![c] = "held"]
  /\ UNCHANGED <<newVersion, version, rounds>>

\* The second Get found the client's own name: the uncertain Put was performed.
AcquireCheckMine(c) ==
  /\ pc[c] \in {"check", "check0"}
  /\ call[c].reply.Err = "OK" /\ call[c].reply.Value = Name[c]
  /\ Return(c, NoCall)
  /\ pc' = [pc EXCEPT ![c] = "held"]
  /\ version' = [version EXCEPT ![c] = IF pc[c] = "check" THEN newVersion[c] ELSE @]
  /\ UNCHANGED <<newVersion, rounds>>

\* The second Get found something else: start over.
AcquireCheckOther(c) ==
  /\ pc[c] \in {"check", "check0"}
  /\ ~(call[c].reply.Err = "OK" /\ call[c].reply.Value = Name[c])
  /\ Return(c, GetCall(lk_l))
  /\ pc' = [pc EXCEPT ![c] = "get"]
  /\ UNCHANGED <<newVersion, version, rounds>>

\* Faulty: Release passes the version from before the lock was taken.
ReleaseEarly(c) ==
  /\ pc[c] = "held"
  /\ Start(c, PutCall(lk_l, NoString, version[c]))
  /\ pc' = [pc EXCEPT ![c] = "release"]
  /\ UNCHANGED <<newVersion, version, rounds>>

\* The holder calls Release: one Put of "" at the version it took the lock at, plus 1.
Release(c) ==
  /\ pc[c] = "held"
  /\ Start(c, PutCall(lk_l, NoString, version[c] + 1))
  /\ pc' = [pc EXCEPT ![c] = "release"]
  /\ UNCHANGED <<newVersion, version, rounds>>

\* Release logs the result of its Put, whatever it is, and returns.
ReleaseReturns(c) ==
  /\ pc[c] = "release"
  /\ Return(c, NoCall)
  /\ pc' = [pc EXCEPT ![c] = "idle"]
  /\ rounds' = [rounds EXCEPT ![c] = @ + 1]
  /\ UNCHANGED <<newVersion, version>>

-----------------------------------------------------------------------------
Init == KVInit /\ LockInit

ClientStep(c) ==
  \/ Acquire(c)
  \/ AcquireHeld(c)
  \/ AcquireFree(c)
  \/ AcquireFirst(c)
  \/ AcquirePutOK(c)
  \/ AcquirePutMaybe(c)
  \/ AcquirePutFailed(c)
  \/ AcquireCheckMine(c)
  \/ AcquireCheckOther(c)
  \/ Release(c)
  \/ ReleaseReturns(c)

\* All rounds are over; without this step the end would be a deadlock.
Finished ==
  /\ \A c \in Client : pc[c] = "idle" /\ rounds[c] = MaxRounds
  /\ UNCHANGED vars

Next ==
  \/ \E c \in Client : ClientStep(c)
  \/ Finished
  \/ KVStep /\ UNCHANGED lockVars

Spec == Init /\ [][Next]_vars

\* A client never stops between two clerk operations, and a holder releases.
\* Strong fairness: the reply that lets the client go on may be dropped, but
\* not every time.
FairSpec == Spec /\ KVFairness /\ \A c \in Client : SF_vars(ClientStep(c))

-----------------------------------------------------------------------------
(* Properties.                                                             *)

\* The variables of the service, the clerks and the clients have their types.
TypeOK ==
  /\ KVTypeOK
  /\ pc \in [Client -> PC]
  /\ newVersion \in [Client -> Nat]
  /\ version \in [Client -> Nat]
  /\ rounds \in [Client -> Nat]

\* Between the return of Acquire and the call of Release a client is alone:
\* no lost, repeated or late RPC makes two clients leave Acquire (the check
\* "two clients acquired lock" of lock_test.go).
MutualExclusion ==
  \A c, d \in Client : pc[c] = "held" /\ pc[d] = "held" => c = d

\* The stored lock state never names a client that has given up on the Put, or
\* has returned from Release: otherwise nobody would ever free the lock.
NoLeakedLock ==
  \A c \in Client :
    (lk_l \in DOMAIN kv /\ kv[lk_l].Value = Name[c]) => pc[c] \notin {"idle", "get"}

\* Release does not look at the result of its only Put.  It need not: the result
\* is never ErrVersion or ErrNoKey, and whatever it is, the Put was performed.
ReleaseSucceeds ==
  \A c \in Client :
    pc[c] = "release" /\ call[c].rpc = "executed" =>
      /\ ClerkErr(call[c]) \in {"OK", "ErrMaybe"}
      /\ kv[lk_l].Version > version[c] + 1

\* No schedule of clients and losses blocks the lock for good: every client
\* gets through its rounds of Acquire and Release.
AllRoundsComplete == \A c \in Client : <>(rounds[c] = MaxRounds /\ pc[c] = "idle")
=============================================================================
