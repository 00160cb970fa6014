------------------------------ MODULE KvModel ------------------------------
(***************************************************************************)
(* What the key/value service promises its clients: the sequential model   *)
(* that models1/kv.go hands to the linearizability checker, and the rule   *)
(* of linearizability that every operation takes effect once, at a moment  *)
(* between its call and its return.                                        *)
(***************************************************************************)
EXTENDS Naturals

CONSTANTS Client, Key, Value

VARIABLES
  st,     \* st[k]: the KvState of key k
  pend,   \* pend[c]: the operation client c has called and its effect so far
  resp    \* resp[c]: the KvOutput of the last operation of c that returned

KvState == [Value : Value, Version : Nat]

\* A Get may look at the state more than once; the last look counts.
Pending == [op : {"Get", "Put"}, Key : Key, Value : Value, Version : Nat,
            effect : {"none", "read", "applied", "refused"}, read : KvState]

Empty == [Value |-> "", Version |-> 0]

Idle == [op |-> "idle"]

Init ==
  /\ st = [k \in Key |-> Empty]
  /\ pend = [c \in Client |-> Idle]
  /\ resp = [c \in Client |-> [Err |-> "", Value |-> "", Version |-> 0]]

\* A client calls an operation.
Invoke(c) ==
  /\ pend[c] = Idle
  /\ pend'[c] \in Pending /\ pend'[c].effect = "none" /\ pend'[c].read = Empty
  /\ UNCHANGED <<st, resp>>

\* Step, for a get.
StepGet(c) ==
  /\ pend[c].op = "Get"
  /\ UNCHANGED <<st, resp>>
  /\ pend'[c] = [pend[c] EXCEPT !.effect = "read", !.read = st[pend[c].Key]]

\* Step, for a put: its effect depends on whether the version is the current one.
StepPut(c) ==
  /\ pend[c].op = "Put"
  /\ pend[c].effect = "none"
  /\ resp' = resp
  /\ LET k == pend[c].Key IN
     IF st[k].Version = pend[c].Version
     THEN /\ pend'[c] = [pend[c] EXCEPT !.effect = "applied"]
          /\ st' = [st EXCEPT ![k] = [Value |-> pend[c].Value, Version |-> @.Version + 1]]
     ELSE /\ pend'[c] = [pend[c] EXCEPT !.effect = "refused"]
          /\ st' = st

\* The outputs that Step accepts for the effect an operation has had; of a get it
\* compares the value only.
Accepts(p, out) ==
  \/ p.op = "Get" /\ p.effect = "read" /\ out.Value = p.read.Value
  \/ p.op = "Put" /\ p.effect = "applied" /\ out.Err \in {"OK", "ErrMaybe"}
  \/ p.op = "Put" /\ p.effect = "refused" /\ out.Err \in {"ErrVersion", "ErrMaybe"}

\* The operation returns an output that fits its effect.
Respond(c) ==
  /\ pend[c] # Idle
  /\ pend'[c] = Idle
  /\ st' = st
  /\ Accepts(pend[c], resp'[c])

Step(c) == Invoke(c) \/ StepGet(c) \/ StepPut(c) \/ Respond(c)

\* One client moves, and what belongs to the others stays as it is.
Next ==
  \E c \in Client :
    /\ Step(c)
    /\ \A d \in Client \ {c} : pend'[d] = pend[d] /\ resp'[d] = resp[d]

Spec == Init /\ [][Next]_<<st, pend, resp>>
=============================================================================
