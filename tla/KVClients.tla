----------------------------- MODULE KVClients -----------------------------
(***************************************************************************)
(* Clients that use the key/value service freely: any mix of Get and Put,  *)
(* on any key.  Every Put stores a value of its own, so that a write can   *)
(* be traced to the operation it belongs to, however late it happens.      *)
(***************************************************************************)
EXTENDS KVSrv, Sequences, FiniteSets

CONSTANTS
  MaxOps,       \* how many operations a client calls
  OpValue       \* OpValue[<<c, n>>]: the value that the n-th operation of c puts

ASSUME KVClientsAssumption ==
  /\ MaxOps \in Nat
  /\ OpValue \in [Client \X (1 .. MaxOps) -> Value \ {NoString}]
  /\ \A i, j \in DOMAIN OpValue : OpValue[i] = OpValue[j] => i = j

VARIABLES
  opn,      \* opn[c]: how many operations c has called
  resp,     \* resp[c]: what the last operation of c to return has returned
  results,  \* results[i]: what the Put with id i has returned, or ""
  log,      \* log[k]: the values the server has stored under k, in order
  ahead     \* some Put has named a version that its key had not reached

histVars == <<opn, resp, results, log, ahead>>

vars == <<kvVars, histVars>>

OpId == Client \X (1 .. MaxOps)

-----------------------------------------------------------------------------
CurrentVersion(k) == IF k \in DOMAIN kv THEN kv[k].Version ELSE 0

\* The versions that clients pass: one that the key has or has had, perhaps stale by
\* now, and for a missing key also 1, as TestReliablePut does.
PutVersions(k) == IF k \in DOMAIN kv THEN 0 .. kv[k].Version ELSE {0, 1}

\* The history of the server's writes: a write always changes the version.
Observe ==
  log' = [k \in Key |->
            IF k \in DOMAIN kv' /\ (k \notin DOMAIN kv \/ kv'[k].Version # kv[k].Version)
            THEN Append(log[k], kv'[k].Value)
            ELSE log[k]]

CallGet(c) ==
  /\ opn[c] < MaxOps
  /\ \E k \in Key : Start(c, GetCall(k))
  /\ opn' = [opn EXCEPT ![c] = @ + 1]
  /\ UNCHANGED <<resp, results, log, ahead>>

CallPut(c) ==
  /\ opn[c] < MaxOps
  /\ \E k \in Key : \E ver \in PutVersions(k) :
       /\ Start(c, PutCall(k, OpValue[<<c, opn[c] + 1>>], ver))
       /\ ahead' = (ahead \/ ver > CurrentVersion(k))
  /\ opn' = [opn EXCEPT ![c] = @ + 1]
  /\ UNCHANGED <<resp, results, log>>

ReturnGet(c) ==
  /\ call[c].op = "Get"
  /\ Return(c, NoCall)
  /\ resp' = [resp EXCEPT ![c] = call[c].reply]
  /\ UNCHANGED <<opn, results, log, ahead>>

ReturnPut(c) ==
  /\ call[c].op = "Put"
  /\ Return(c, NoCall)
  /\ resp' = [resp EXCEPT ![c] = ErrReply(ClerkErr(call[c]))]
  /\ results' = [results EXCEPT ![<<c, opn[c]>>] = ClerkErr(call[c])]
  /\ UNCHANGED <<opn, log, ahead>>

Init ==
  /\ KVInit
  /\ opn = [c \in Client |-> 0]
  /\ resp = [c \in Client |-> NoReply]
  /\ results = [i \in OpId |-> NoString]
  /\ log = [k \in Key |-> <<>>]
  /\ ahead = FALSE

\* All operations are over; without this step the end would be a deadlock.
Finished ==
  /\ \A c \in Client : opn[c] = MaxOps /\ call[c].rpc = "idle"
  /\ UNCHANGED vars

Next ==
  \/ \E c \in Client : CallGet(c) \/ CallPut(c) \/ ReturnGet(c) \/ ReturnPut(c)
  \/ KVStep /\ Observe /\ UNCHANGED <<opn, resp, results, ahead>>
  \/ Finished

Spec == Init /\ [][Next]_vars

-----------------------------------------------------------------------------
(* Properties.                                                             *)

Stored(i) == \E k \in Key : \E n \in 1 .. Len(log[k]) : log[k][n] = OpValue[i]

\* The variables of the service and the history have their types.
TypeOK ==
  /\ KVTypeOK
  /\ opn \in [Client -> 0 .. MaxOps]
  /\ resp \in [Client -> Reply]
  /\ results \in [OpId -> Err \cup {NoString}]
  /\ log \in [Key -> Seq(Value)]
  /\ ahead \in BOOLEAN

\* A Put that is sent many times, some copies of it executed long after the
\* Clerk has returned, is performed at most once.
AtMostOnce ==
  \A k \in Key : \A m, n \in 1 .. Len(log[k]) : log[k][m] = log[k][n] => m = n

\* Clerk.Put tells the truth: OK means that the Put was performed, ErrVersion
\* that it was not and never will be, not even by a copy still on its way.
HonestResults ==
  \A i \in OpId : /\ results[i] = "OK" => Stored(i)
                  /\ results[i] = "ErrVersion" => ~Stored(i)

\* The version of a key counts the Puts it has seen, and its value is that of
\* the last one: no Put is lost or overwritten without notice.
VersionCountsPuts ==
  \A k \in Key : /\ CurrentVersion(k) = Len(log[k])
                 /\ k \in DOMAIN kv => kv[k].Value = log[k][Len(log[k])]

-----------------------------------------------------------------------------
(* The clerks and the server implement KvModel.                            *)

Effect(c) ==
  CASE call[c].op = "Get" /\ call[c].reply = NoReply -> "none"
    [] call[c].op = "Get" /\ call[c].reply # NoReply -> "read"
    [] call[c].op = "Put" /\ Stored(<<c, opn[c]>>) -> "applied"
    [] call[c].op = "Put" /\ ~Stored(<<c, opn[c]>>) ->
         IF call[c].reply.Err = NoString THEN "none" ELSE "refused"

\* The state of every key, an absent one being the empty value at version 0,
KvSt ==
  [k \in Key |-> IF k \in DOMAIN kv THEN kv[k] ELSE [Value |-> NoString, Version |-> 0]]

\* and the operation of every client, with what it has done so far.
KvPend ==
  [c \in Client |->
     IF call[c].rpc = "idle" THEN [op |-> "idle"]
     ELSE [op |-> call[c].op, Key |-> call[c].Key, Value |-> call[c].Value,
           Version |-> call[c].Version, effect |-> Effect(c),
           read |-> IF call[c].op = "Get"
                    THEN [Value |-> call[c].reply.Value, Version |-> call[c].reply.Version]
                    ELSE [Value |-> NoString, Version |-> 0]]]

Kv == INSTANCE KvModel WITH st <- KvSt, pend <- KvPend

\* As long as no Put has named a version from the future, every history of Clerk
\* operations is one that KvModel accepts, whatever the network does to their RPCs.
\* The Puts that kvtest1 logs for the linearizability checker never name one: their
\* versions are 0, come from a Get, or follow one that was used up.  After a Put that
\* does, nothing is claimed: the server answers ErrNoKey for a missing key, which
\* KvModel does not accept, and a late copy of the Put may still be performed.
Linearizable == Kv!Init /\ [][ahead' \/ Kv!Next]_<<KvSt, KvPend, resp>>
=============================================================================
