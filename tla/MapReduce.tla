----------------------------- MODULE MapReduce -----------------------------
(***************************************************************************)
(* The MapReduce system: the coordinator and the workers (mr/worker.go),   *)
(* with the intermediate and output files they share.                      *)
(*                                                                         *)
(* A map task creates (and thereby truncates) its intermediate files and   *)
(* then writes them; a reduce task reads the intermediate files of all map *)
(* tasks and then appends to its output file, here in two parts.  A file   *)
(* is reduced to whether it exists and is complete, an output file to the  *)
(* sequence of the parts written to it.                                    *)
(***************************************************************************)
EXTENDS Coordinator, Sequences

CONSTANTS
  Mishap,       \* what may go wrong: "crash" (a worker process ends) and "lapse"
                \* (the heartbeats of a live worker are ten seconds late)
  MaxMishaps,   \* how often it may
  Staggered     \* whether a worker starts only when the others have registered

ASSUME MapReduceAssumption ==
  /\ Mishap \subseteq {"crash", "lapse"} /\ MaxMishaps \in Nat
  /\ Staggered \in BOOLEAN

VARIABLES
  wpc,       \* wpc[w]: what worker w is doing
  wid,       \* wid[w]: its WorkerID
  wfile,     \* wfile[w]: the index of its File, None without one
  inter,     \* inter[t]: map task t's files are "missing", "empty" or "full"
  out,       \* out[t]: the parts appended to the output file of reduce task t
  mishaps    \* how many mishaps there have been

workerVars == <<wpc, wid, wfile>>

fileVars == <<inter, out>>

vars == <<coVars, workerVars, fileVars, mishaps>>

Ended == {"exit", "fatal", "crashed", "missing"}

Parts == 1 .. 2

-----------------------------------------------------------------------------
Init ==
  /\ CoInit
  /\ wpc = [w \in Worker |-> "start"]
  /\ wid = [w \in Worker |-> None]
  /\ wfile = [w \in Worker |-> None]
  /\ inter = [t \in MapTask |-> "missing"]
  /\ out = [t \in ReduceTask |-> <<>>]
  /\ mishaps = 0

\* A worker at one place goes to another.
Goes(w, from, to) ==
  /\ wpc[w] = from
  /\ wpc' = [wpc EXCEPT ![w] = to]

\* w's call has its reply; the handler is over.
Reply(w, place) ==
  /\ hpc[w] = place
  /\ hpc' = [hpc EXCEPT ![w] = "none"]

-----------------------------------------------------------------------------
(* The worker.                                                             *)

\* A worker process starts and calls Register.
Start(w) ==
  /\ Serving
  /\ Staggered => \A v \in Worker : wpc[v] # "registering"
  /\ Goes(w, "start", "registering")
  /\ hpc' = [hpc EXCEPT ![w] = "register"]
  /\ UNCHANGED <<State, Counter, taskVars, Workers, up, hid, hfile, hw, hi, hall, hret, scan>>
  /\ UNCHANGED <<wid, wfile, fileVars, mishaps>>

Registered(w) ==
  /\ Reply(w, "registered")
  /\ Goes(w, "registering", "idle")
  /\ wid' = [wid EXCEPT ![w] = hid[w]]
  /\ hid' = [hid EXCEPT ![w] = None]
  /\ UNCHANGED <<State, Counter, taskVars, Workers, up, hfile, hw, hi, hall, hret, scan>>
  /\ UNCHANGED <<wfile, fileVars, mishaps>>

\* report: the task that was completed, or -1.
Report(w) ==
  /\ Serving
  /\ Goes(w, "idle", "reporting")
  /\ hpc' = [hpc EXCEPT ![w] = IF wfile[w] = None THEN "lookup" ELSE "mark"]
  /\ hid' = [hid EXCEPT ![w] = wid[w]]
  /\ hfile' = [hfile EXCEPT ![w] = wfile[w]]
  /\ UNCHANGED <<State, Counter, taskVars, Workers, up, hw, hi, hall, hret, scan>>
  /\ UNCHANGED <<wid, wfile, fileVars, mishaps>>

\* Report's answer: exit, ask again later, or run the task.
Answered(w) ==
  /\ \/ /\ Reply(w, "done") /\ Goes(w, "reporting", "exit")
        /\ wfile' = wfile
     \/ /\ Reply(w, "wait") /\ Goes(w, "reporting", "idle")
        /\ wfile' = [wfile EXCEPT ![w] = None]
     \/ /\ Reply(w, "doing")
        /\ Goes(w, "reporting", IF hret[w] \in MapTask THEN "create" ELSE "read")
        /\ wfile' = [wfile EXCEPT ![w] = hret[w]]
  /\ hret' = [hret EXCEPT ![w] = None]
  /\ UNCHANGED <<State, Counter, taskVars, Workers, up, hid, hfile, hw, hi, hall, scan>>
  /\ UNCHANGED <<wid, fileVars, mishaps>>

\* os.Create of a map task's intermediate files, which truncates them.
MapCreate(w) ==
  /\ Goes(w, "create", "write")
  /\ inter' = [inter EXCEPT ![wfile[w]] = "empty"]
  /\ UNCHANGED <<coVars, wid, wfile, out, mishaps>>

MapWrite(w) ==
  /\ Goes(w, "write", "idle")
  /\ inter' = [inter EXCEPT ![wfile[w]] = "full"]
  /\ UNCHANGED <<coVars, wid, wfile, out, mishaps>>

\* A reduce task reads the files of all map tasks; a missing one is fatal.
ReduceRead(w) ==
  /\ Goes(w, "read", IF \E t \in MapTask : inter[t] = "missing" THEN "missing" ELSE "append")
  /\ UNCHANGED <<coVars, wid, wfile, fileVars, mishaps>>

\* The output file is opened for appending; its lines are written one by one.
ReduceAppend(w) ==
  \E p \in Parts :
    /\ Goes(w, IF p = 1 THEN "append" ELSE "append2", IF p = 1 THEN "append2" ELSE "idle")
    /\ out' = [out EXCEPT ![wfile[w]] = Append(@, p)]
    /\ UNCHANGED <<coVars, wid, wfile, inter, mishaps>>

\* A call fails because the coordinator is gone: at the latest the next
\* heartbeat ends the worker.
LoseCoordinator(w) ==
  /\ ~Serving
  /\ wpc[w] \notin Ended
  /\ wpc' = [wpc EXCEPT ![w] = "fatal"]
  /\ UNCHANGED <<coVars, wid, wfile, fileVars, mishaps>>

Crash(w) ==
  /\ wpc[w] \notin Ended \cup {"start"}
  /\ "crash" \in Mishap /\ mishaps < MaxMishaps
  /\ wpc' = [wpc EXCEPT ![w] = "crashed"]
  /\ mishaps' = mishaps + 1
  /\ UNCHANGED <<coVars, wid, wfile, fileVars>>

WorkerStep(w) ==
  \/ Start(w) \/ Registered(w) \/ Report(w) \/ Answered(w)
  \/ MapCreate(w) \/ MapWrite(w) \/ ReduceRead(w) \/ ReduceAppend(w)
  \/ LoseCoordinator(w)

-----------------------------------------------------------------------------
(* Heartbeats and time.                                                    *)

Beats(id) == \E w \in Worker : wid[w] = id /\ wpc[w] \notin Ended

\* The heartbeat of a live worker arrives in time to refresh its entry.
Beat(id) ==
  /\ id \in DOMAIN Workers /\ Workers[id] = "stale"
  /\ Beats(id)
  /\ Heartbeat(id)
  /\ UNCHANGED <<workerVars, fileVars, mishaps>>

\* Ten seconds pass without a heartbeat: the worker has ended, or is slow.  No
\* handler takes that long.
Lapse(id) ==
  /\ Serving
  /\ id \in DOMAIN Workers /\ Workers[id] = "fresh"
  /\ \A w \in Worker : hid[w] = id => hpc[w] = "registered" /\ wpc[w] = "crashed"
  /\ IF Beats(id) THEN "lapse" \in Mishap /\ mishaps < MaxMishaps /\ mishaps' = mishaps + 1
                  ELSE mishaps' = mishaps
  /\ Workers' = [Workers EXCEPT ![id] = "stale"]
  /\ UNCHANGED <<State, Counter, taskVars, up, handlerVars, scan, workerVars, fileVars>>

-----------------------------------------------------------------------------
Elsewhere == UNCHANGED <<workerVars, fileVars, mishaps>>

\* Everyone has stopped.
Over ==
  /\ ~Serving /\ \A w \in Worker : wpc[w] \in Ended
  /\ UNCHANGED vars

Next ==
  \/ \E w \in Worker : Handler(w) /\ Elsewhere
  \/ \E w \in Worker : WorkerStep(w) \/ Crash(w)
  \/ \E id \in DOMAIN Workers : Beat(id) \/ Lapse(id)
  \/ (Scanner \/ PollDone \/ Exit) /\ Elsewhere
  \/ MapFault(\E id \in DOMAIN Workers : Beats(id)) /\ Elsewhere
  \/ Over

Spec == Init /\ [][Next]_vars

\* Goroutines and processes run, and time passes.
Fairness ==
  /\ \A w \in Worker : WF_vars(Handler(w) /\ Elsewhere) /\ WF_vars(WorkerStep(w))
  /\ WF_vars(Scanner /\ Elsewhere)
  /\ WF_vars((PollDone \/ Exit) /\ Elsewhere)
  /\ WF_vars(\E id \in DOMAIN Workers : ~Beats(id) /\ Lapse(id))

FairSpec == Spec /\ Fairness

-----------------------------------------------------------------------------
Places == {"none", "register", "count", "add", "registered", "mark", "set", "lookup",
           "assign", "maps", "map?", "reduces", "reduce?", "advance", "claim", "own",
           "answer", "doing", "done", "wait"}

\* The types of the coordinator's and the workers' variables.
TypeOK ==
  /\ State \in {"map", "reduce", "finish"} /\ Counter \in Nat
  /\ up \in {"running", "finished", "exited", "panic"}
  /\ Assigned \in [Task -> BOOLEAN] /\ Done \in [Task -> BOOLEAN]
  /\ Owner \in [Task -> Nat \cup {None}]
  /\ DOMAIN Workers \subseteq Nat
  /\ \A id \in DOMAIN Workers : Workers[id] \in {"fresh", "stale"}
  /\ hpc \in [Worker -> Places]
  /\ hid \in [Worker -> Nat \cup {None}] /\ hfile \in [Worker -> Task \cup {None}]
  /\ hw \in [Worker -> Nat \cup {None}] /\ hi \in [Worker -> 0 .. NMap + NReduce]
  /\ hall \in [Worker -> BOOLEAN] /\ hret \in [Worker -> Task \cup {None}]
  /\ scan \in [pc : {"sleep", "range", "check", "clear", "disown"}, todo : SUBSET Nat,
               id : Nat \cup {None}, i : 0 .. NMap + NReduce]
  /\ wpc \in [Worker -> {"start", "registering", "idle", "reporting", "create", "write",
                         "read", "append", "append2"} \cup Ended]
  /\ wid \in [Worker -> Nat \cup {None}] /\ wfile \in [Worker -> Task \cup {None}]
  /\ inter \in [MapTask -> {"missing", "empty", "full"}]
  /\ out \in [ReduceTask -> Seq(Parts)]
  /\ mishaps \in 0 .. MaxMishaps

\* Whatever the interleaving of the unlocked handlers, no reduce task starts, and
\* no worker looks for the intermediate files, before every map task has been
\* marked done and its files exist (the test of allDone in assign).
Reducing(w) == wpc[w] \in {"read", "append", "append2"} \/ hret[w] \in ReduceTask

PhaseOrder ==
  /\ State # "map" \/ (\E w \in Worker : Reducing(w)) =>
       \A t \in MapTask : Done[t] /\ inter[t] # "missing"
  /\ \A w \in Worker : wpc[w] # "missing"

\* The job is declared finished, and a worker told to exit, only when every task
\* is done, and a reduce task is marked done only when its output has been
\* written to the end.
FinishMeansDone ==
  /\ State = "finish" \/ up \in {"finished", "exited"} \/ (\E w \in Worker : wpc[w] = "exit") =>
       \A t \in Task : Done[t]
  /\ \A t \in ReduceTask : Done[t] => \E i \in DOMAIN out[t] : out[t][i] = 2

\* Every worker stops, and the coordinator exits, with the job finished.
JobFinishes == <>(up = "exited" /\ \A w \in Worker : wpc[w] \in Ended)
=============================================================================
