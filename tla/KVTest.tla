------------------------------- MODULE KVTest -------------------------------
(***************************************************************************)
(* The clients that kvtest runs against the key/value service, and the     *)
(* checks that it makes of what they leave behind.                         *)
(*                                                                         *)
(* SpawnClientsAndWait starts the clients, sleeps, sends each the done     *)
(* signal and collects how many of its Puts were OK and how many maybe.    *)
(* `mode' says what function the clients run:                              *)
(*   "append"  OneClientAppend: all append to the list under one key       *)
(*   "put"     OneClientPut: all put to one key                            *)
(*   "once"    PutAtLeastOnce, each client to a key of its own             *)
(* What is stored is JSON text; ToString plays the part of Marshal.        *)
(***************************************************************************)
EXTENDS KVSrv, Integers, FiniteSets, SequencesExt

CONSTANTS
  MaxIters,   \* MaxIters[c]: how many iterations c makes
  MaxVersion, \* how high PutAtLeastOnce may count, for it repeats every maybe
  KeyOf       \* KeyOf[c]: the key of client c in mode "once"

ASSUME KVTestAssumption ==
  /\ "k" \in Key
  /\ KeyOf \in [Client -> Key \ {"k"}]
  /\ \A c, d \in Client : KeyOf[c] = KeyOf[d] => c = d
  /\ MaxIters \in [Client -> Nat] /\ MaxVersion \in Nat

VARIABLES
  mode,     \* the function that the clients run
  pc,       \* pc[c]: what c does next
  i,        \* i[c]: how many iterations c has finished
  ver,      \* ver[c]: the version that c puts with
  err,      \* err[c]: what the last Put of c has returned
  res,      \* res[c]: the ClntRes of c
  phase,    \* where SpawnClientsAndWait is
  signals,  \* how many done signals it has sent
  fatal     \* Fatalf was called

testVars == <<mode, pc, i, ver, err, res, phase, signals, fatal>>

vars == <<kvVars, testVars>>

-----------------------------------------------------------------------------
(* What is stored.                                                         *)

entry == UNION {{[Id |-> c, N |-> n] : n \in 0 .. MaxIters[c] - 1} : c \in Client}

EntryV == [Id : Client, V : 0 .. MaxVersion]

ListsOfLength[n \in Nat] ==
  IF n = 0 THEN {<<>>} ELSE {Append(l, e) : l \in ListsOfLength[n - 1], e \in entry}

Lists == UNION {ListsOfLength[n] : n \in 0 .. Cardinality(entry)}

Marshal(v) == ToString(v)

Texts == {Marshal(v) : v \in Lists} \cup {Marshal(e) : e \in EntryV} \cup {Marshal(e) : e \in entry}

\* json.Unmarshal into a list, and into an EntryV.
UnmarshalList == [t \in {Marshal(v) : v \in Lists} |-> CHOOSE v \in Lists : Marshal(v) = t]

UnmarshalEntryV == [t \in {Marshal(e) : e \in EntryV} |-> CHOOSE e \in EntryV : Marshal(e) = t]

-----------------------------------------------------------------------------
(* SpawnClientsAndWait and runClient.                                      *)

\* The time is up; done is sent to one client after the other.
TimeUp ==
  /\ phase = "sleep"
  /\ phase' = "signal"
  /\ UNCHANGED <<kvVars, mode, pc, i, ver, err, res, signals, fatal>>

\* A client's select finds a signal waiting: the client returns its result.
Done(c) ==
  /\ pc[c] = "select"
  /\ phase = "signal"
  /\ signals' = signals + 1
  /\ pc' = [pc EXCEPT ![c] = "returned"]
  /\ UNCHANGED <<kvVars, mode, i, ver, err, res, phase, fatal>>

\* All signals are sent and all results received.
Collect ==
  /\ phase = "signal"
  /\ \A c \in Client : pc[c] = "returned"
  /\ phase' = "check"
  /\ UNCHANGED <<kvVars, mode, pc, i, ver, err, res, signals, fatal>>

\* The client goes on to `to', with `n' more finished iterations.
Goes(c, to, n) ==
  /\ pc' = [pc EXCEPT ![c] = to]
  /\ i' = [i EXCEPT ![c] = @ + n]

\* Faulty: an OK is also counted as a maybe.
CountsBoth(c, e) ==
  res' = [res EXCEPT ![c] = IF e = "OK" THEN [Nok |-> @.Nok + 1, Nmaybe |-> @.Nmaybe + 1]
                            ELSE [@ EXCEPT !.Nmaybe = @ + 1]]

Counts(c, e) ==
  res' = [res EXCEPT ![c] = IF e = "OK" THEN [@ EXCEPT !.Nok = @ + 1] ELSE [@ EXCEPT !.Nmaybe = @ + 1]]

\* Fatalf ends the test.
Fatalf(c) ==
  /\ Return(c, NoCall)
  /\ fatal' = TRUE
  /\ UNCHANGED <<mode, pc, i, ver, err, res, phase, signals>>

-----------------------------------------------------------------------------
(* OneClientAppend.                                                        *)

AppendGet(c) ==
  /\ mode = "append" /\ pc[c] = "select" /\ i[c] < MaxIters[c]
  /\ Start(c, GetCall("k"))
  /\ Goes(c, "get", 0)
  /\ UNCHANGED <<mode, ver, err, res, phase, signals, fatal>>

\* GetJson has returned: append (me, i) and put, with the version that was read.
AppendPut(c) ==
  /\ mode = "append" /\ pc[c] = "get"
  /\ LET r == call[c].reply IN
     IF r.Err = "OK"
     THEN /\ Return(c, PutCall("k", Marshal(Append(UnmarshalList[r.Value], [Id |-> c, N |-> i[c]])), r.Version))
          /\ Goes(c, "put", 0)
          /\ UNCHANGED <<mode, ver, err, res, phase, signals, fatal>>
     ELSE Fatalf(c)

\* Faulty: after a maybe the next entry is put, but the maybe is not counted.
AppendNextForgets(c) ==
  /\ mode = "append" /\ pc[c] = "put"
  /\ LET e == ClerkErr(call[c]) IN
     IF e \in {"OK", "ErrMaybe"}
     THEN /\ Return(c, NoCall) /\ Goes(c, "select", 1)
          /\ IF e = "OK" THEN Counts(c, e) ELSE res' = res
     ELSE Return(c, GetCall("k")) /\ Goes(c, "get", 0) /\ res' = res
  /\ UNCHANGED <<mode, ver, err, phase, signals, fatal>>

\* PutJson has returned: the next entry, or the same again after ErrVersion.
AppendNext(c) ==
  /\ mode = "append" /\ pc[c] = "put"
  /\ LET e == ClerkErr(call[c]) IN
     IF e \in {"OK", "ErrMaybe"}
     THEN Return(c, NoCall) /\ Goes(c, "select", 1) /\ Counts(c, e)
     ELSE Return(c, GetCall("k")) /\ Goes(c, "get", 0) /\ res' = res
  /\ UNCHANGED <<mode, ver, err, phase, signals, fatal>>

-----------------------------------------------------------------------------
(* OneClientPut and OnePut.                                                *)

PutEntry(c, v) == PutCall("k", Marshal([Id |-> c, V |-> v]), v)

OnePut(c) ==
  /\ mode = "put" /\ pc[c] = "select" /\ i[c] < MaxIters[c]
  /\ Start(c, PutEntry(c, ver[c]))
  /\ Goes(c, "put", 0)
  /\ UNCHANGED <<mode, ver, err, res, phase, signals, fatal>>

\* Faulty: ErrMaybe is not expected.
OnePutGetCertain(c) ==
  /\ mode = "put" /\ pc[c] = "put"
  /\ LET e == ClerkErr(call[c]) IN
     IF e \in {"OK", "ErrVersion"}
     THEN /\ Return(c, GetCall("k"))
          /\ err' = [err EXCEPT ![c] = e]
          /\ Goes(c, "get", 0)
          /\ UNCHANGED <<mode, ver, res, phase, signals, fatal>>
     ELSE Fatalf(c)

\* PutJson has returned; read back.
OnePutGet(c) ==
  /\ mode = "put" /\ pc[c] = "put"
  /\ LET e == ClerkErr(call[c]) IN
     IF e \in {"OK", "ErrVersion", "ErrMaybe"}
     THEN /\ Return(c, GetCall("k"))
          /\ err' = [err EXCEPT ![c] = e]
          /\ Goes(c, "get", 0)
          /\ UNCHANGED <<mode, ver, res, phase, signals, fatal>>
     ELSE Fatalf(c)

\* My put?
WrongValue(c, r) ==
  /\ err[c] = "OK" /\ r.Version = ver[c] + 1
  /\ UnmarshalEntryV[r.Value].Id # c /\ UnmarshalEntryV[r.Value].V # ver[c]

\* Faulty: a Put that may have happened is not counted.
OnePutNextForgets(c) ==
  /\ mode = "put" /\ pc[c] = "get"
  /\ LET r == call[c].reply IN
     IF r.Err # "OK" \/ WrongValue(c, r) THEN Fatalf(c)
     ELSE /\ ver' = [ver EXCEPT ![c] = r.Version]
          /\ IF err[c] \in {"OK", "ErrMaybe"}
             THEN /\ Return(c, NoCall) /\ Goes(c, "select", 1)
                  /\ IF err[c] = "OK" THEN Counts(c, err[c]) ELSE res' = res
             ELSE Return(c, PutEntry(c, r.Version)) /\ Goes(c, "put", 0) /\ res' = res
          /\ UNCHANGED <<mode, err, phase, signals, fatal>>

\* Faulty: it puts again with the version that was refused.
OnePutNextStale(c) ==
  /\ mode = "put" /\ pc[c] = "get"
  /\ LET r == call[c].reply IN
     IF r.Err # "OK" \/ WrongValue(c, r) THEN Fatalf(c)
     ELSE /\ IF err[c] \in {"OK", "ErrMaybe"}
             THEN Return(c, NoCall) /\ Goes(c, "select", 1) /\ Counts(c, err[c])
             ELSE Return(c, PutEntry(c, ver[c])) /\ Goes(c, "put", 0) /\ res' = res
          /\ UNCHANGED <<mode, ver, err, phase, signals, fatal>>

\* GetJson has returned: done with this put, or again with the version read.
OnePutNext(c) ==
  /\ mode = "put" /\ pc[c] = "get"
  /\ LET r == call[c].reply IN
     IF r.Err # "OK" \/ WrongValue(c, r) THEN Fatalf(c)
     ELSE /\ ver' = [ver EXCEPT ![c] = r.Version]
          /\ IF err[c] \in {"OK", "ErrMaybe"}
             THEN Return(c, NoCall) /\ Goes(c, "select", 1) /\ Counts(c, err[c])
             ELSE Return(c, PutEntry(c, r.Version)) /\ Goes(c, "put", 0) /\ res' = res
          /\ UNCHANGED <<mode, err, phase, signals, fatal>>

-----------------------------------------------------------------------------
(* PutAtLeastOnce; here the value is the number of the iteration.          *)

OnceCall(c, v) == PutCall(KeyOf[c], Marshal([Id |-> c, N |-> i[c]]), v)

PutAtLeastOnce(c) ==
  /\ mode = "once" /\ pc[c] = "select" /\ i[c] < MaxIters[c]
  /\ Start(c, OnceCall(c, ver[c]))
  /\ Goes(c, "put", 0)
  /\ UNCHANGED <<mode, ver, err, res, phase, signals, fatal>>

\* Faulty: ErrMaybe is taken for OK but not counted as a version.
PutAtLeastOnceNextStays(c) ==
  /\ mode = "once" /\ pc[c] = "put"
  /\ LET e == ClerkErr(call[c]) IN
     CASE e = "OK" ->
            /\ Return(c, NoCall) /\ Goes(c, "select", 1)
            /\ ver' = [ver EXCEPT ![c] = @ + 1]
            /\ UNCHANGED <<mode, err, res, phase, signals, fatal>>
       [] OTHER ->
            /\ Return(c, NoCall) /\ Goes(c, "select", 1)
            /\ UNCHANGED <<mode, ver, err, res, phase, signals, fatal>>

PutAtLeastOnceNext(c) ==
  /\ mode = "once" /\ pc[c] = "put"
  /\ LET e == ClerkErr(call[c]) IN
     CASE e = "OK" ->
            /\ Return(c, NoCall) /\ Goes(c, "select", 1)
            /\ ver' = [ver EXCEPT ![c] = @ + 1]
            /\ UNCHANGED <<mode, err, res, phase, signals, fatal>>
       [] e \in {"ErrMaybe", "ErrVersion"} ->
            /\ ver[c] < MaxVersion
            /\ Return(c, OnceCall(c, ver[c] + 1))
            /\ ver' = [ver EXCEPT ![c] = @ + 1]
            /\ UNCHANGED <<mode, pc, i, err, res, phase, signals, fatal>>
       [] OTHER ->
            IF ver[c] # 0 THEN Fatalf(c)
            ELSE Return(c, OnceCall(c, ver[c])) /\ UNCHANGED testVars

-----------------------------------------------------------------------------
Init ==
  /\ mode \in {"append", "put", "once"}
  /\ kv = IF mode = "append" THEN [k \in {"k"} |-> [Value |-> Marshal(<<>>), Version |-> 1]]
          ELSE [k \in {} |-> [Value |-> NoString, Version |-> 0]]
  /\ call = [c \in Client |-> NoCall]
  /\ orphans = {}
  /\ enabled = [c \in Client |-> TRUE]
  /\ discs = 0
  /\ pc = [c \in Client |-> "select"]
  /\ i = [c \in Client |-> 0]
  /\ ver = [c \in Client |-> 0]
  /\ err = [c \in Client |-> NoString]
  /\ res = [c \in Client |-> [Nok |-> 0, Nmaybe |-> 0]]
  /\ phase = "sleep"
  /\ signals = 0
  /\ fatal = FALSE

ClientStep(c) ==
  \/ AppendGet(c) \/ AppendPut(c) \/ AppendNext(c)
  \/ OnePut(c) \/ OnePutGet(c) \/ OnePutNext(c)
  \/ PutAtLeastOnce(c) \/ PutAtLeastOnceNext(c)

AtBound == \E c \in Client : mode = "once" /\ ver[c] >= MaxVersion

\* The test is over, or a client has counted as far as the model lets it.
Finished ==
  /\ phase = "check" \/ AtBound
  /\ UNCHANGED vars

Next ==
  \/ TimeUp
  \/ Collect
  \/ \E c \in Client : Done(c) \/ ClientStep(c)
  \/ KVStep /\ UNCHANGED testVars
  \/ Finished

\* The sleep ends and the signals are sent; a client runs, its Calls get through
\* (KVFairness), and its select takes a signal that is waiting.
Spec ==
  /\ Init /\ [][Next]_vars
  /\ KVFairness
  /\ WF_vars(TimeUp \/ Collect)
  /\ \A c \in Client : SF_vars(Done(c) \/ ClientStep(c))

-----------------------------------------------------------------------------
(* The checks of kvtest.                                                   *)

\* CheckAppends goes through the list and counts, per client, what to expect next and
\* how many entries were skipped; `old' is an entry that comes too late.
Scan(es) ==
  LET zero == [c \in Client |-> 0]
      step(a, e) ==
        [old |-> a.old \/ a.expect[e.Id] > e.N,
         expect |-> [a.expect EXCEPT ![e.Id] = e.N + 1],
         skipped |-> [a.skipped EXCEPT ![e.Id] = @ + (e.N - a.expect[e.Id])]] IN
  FoldLeft(LAMBDA a, e : IF a.old THEN a ELSE step(a, e),
           [old |-> FALSE, expect |-> zero, skipped |-> zero], es)

CheckAppends(es, rs, v) ==
  LET scan == Scan(es) IN
  /\ ~scan.old
  /\ Len(es) + 1 = v
  /\ \A c \in Client : /\ scan.skipped[c] <= rs[c].Nmaybe
                       /\ scan.expect[c] <= rs[c].Nok + rs[c].Nmaybe

Total(rs, f) == FoldLeft(LAMBDA n, c : n + rs[c][f], 0, SetToSeq(DOMAIN rs))

CheckPutConcurrent(v, rs, reliable) ==
  IF reliable THEN v = Total(rs, "Nok") ELSE v <= Total(rs, "Nok") + Total(rs, "Nmaybe")

-----------------------------------------------------------------------------
(* Properties.                                                             *)

\* The variables of the service and of the test have their types.
TypeOK ==
  /\ KVTypeOK
  /\ pc \in [Client -> {"select", "get", "put", "returned"}]
  /\ \A c \in Client : i[c] \in 0 .. MaxIters[c] /\ res[c].Nok + res[c].Nmaybe <= i[c]
  /\ ver \in [Client -> Nat]
  /\ err \in [Client -> Err \cup {NoString}]
  /\ res \in [Client -> [Nok : Nat, Nmaybe : Nat]]
  /\ signals \in 0 .. Cardinality(Client)

\* The list that CheckAppends reads once all clients have returned passes its checks,
\* however late the last copy of a Put reaches the server: each client's entries are in
\* order, and what is missing was reported as ErrMaybe.
AppendsCheck ==
  phase = "check" /\ mode = "append" =>
    CheckAppends(UnmarshalList[kv["k"].Value], res, kv["k"].Version)

\* The version that CheckPutConcurrent reads passes its check, and the one for a
\* reliable network holds of every test in which no Put was a maybe.
PutsCheck ==
  phase = "check" /\ mode = "put" /\ "k" \in DOMAIN kv =>
    /\ CheckPutConcurrent(kv["k"].Version, res, ~Unreliable)
    /\ Total(res, "Nmaybe") = 0 => CheckPutConcurrent(kv["k"].Version, res, TRUE)

\* When PutAtLeastOnce returns, the version it returns and the value it was given are
\* what a Get finds, for as long as the client does nothing: the ErrMaybe of a client
\* alone on its key always means that its Put happened ("the Put must have happened,
\* since the test uses only one client", TestUnreliableNet).
OnceIsStored ==
  mode = "once" =>
    \A c \in Client :
      pc[c] \in {"select", "returned"} /\ i[c] > 0 =>
        kv[KeyOf[c]] = [Value |-> Marshal([Id |-> c, N |-> i[c] - 1]), Version |-> ver[c]]

\* A client that was told OK and reads the next version reads back its own entry, both
\* fields of it; OnePut calls Fatalf only when both are wrong.
OwnPutReadBack ==
  \A c \in Client :
    /\ mode = "put" /\ pc[c] = "get" /\ call[c].rpc = "executed"
    /\ err[c] = "OK" /\ call[c].reply.Version = ver[c] + 1
    => UnmarshalEntryV[call[c].reply.Value] = [Id |-> c, V |-> ver[c]]

\* No client meets an error that its function does not expect.
NoFatalf == ~fatal

\* SpawnClientsAndWait returns: no client misses the signal, and none is still retrying.
TestEnds == <>(phase = "check" \/ AtBound)
=============================================================================
