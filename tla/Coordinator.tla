---------------------------- MODULE Coordinator ----------------------------
(***************************************************************************)
(* The coordinator of the MapReduce system (mr/coordinator.go): the tasks, *)
(* the registered workers, and the phase of the job.                       *)
(*                                                                         *)
(* The handlers and the scanner do not take the coordinator's mutex, and   *)
(* net/rpc runs every handler in a goroutine of its own.  A handler is     *)
(* therefore a sequence of steps, one for every access to the shared       *)
(* fields that another handler can fall in front of.  A worker process has *)
(* one Register or Report outstanding at a time: `hpc[w]' is where the     *)
(* handler that runs for w stands, and the other h-variables are its       *)
(* arguments, local variables and result.                                  *)
(*                                                                         *)
(* Time is reduced to what scanWorkers asks of it: a worker's LastSeen is  *)
(* fresh, or more than ten seconds old.                                    *)
(***************************************************************************)
EXTENDS Integers

CONSTANTS
  Worker,     \* the worker processes
  NMap,       \* the number of input files
  NReduce,    \* the number of reduce tasks
  Faults      \* whether the runtime notices overlapping accesses to a Go map

ASSUME CoordinatorAssumption ==
  /\ NMap \in Nat /\ NReduce \in Nat
  /\ Faults \in BOOLEAN

VARIABLES
  State,      \* the phase
  Counter,    \* the next worker id
  Assigned, Done, Owner,   \* the fields of Files[t]
  Workers,    \* the map from worker ids to workers: [id -> "fresh" or "stale"]
  up,         \* "running", "finished" (Done has returned true), "exited", "panic"
  hpc,        \* hpc[w]: where w's handler stands
  hid,        \* hid[w]: the worker id it is about
  hfile,      \* hfile[w]: args.File of Report
  hw,         \* hw[w]: the worker passed to assign, None for nil
  hi,         \* hi[w]: the loop variable of assign and doReduce
  hall,       \* hall[w]: the allDone of assign
  hret,       \* hret[w]: the task that assign returns, None for File{}
  scan        \* where scanWorkers stands

taskVars == <<Assigned, Done, Owner>>

handlerVars == <<hpc, hid, hfile, hw, hi, hall, hret>>

coVars == <<State, Counter, taskVars, Workers, up, handlerVars, scan>>

MapTask == 0 .. NMap - 1

ReduceTask == NMap .. NMap + NReduce - 1

Task == MapTask \cup ReduceTask

None == -1

Serving == up \in {"running", "finished"}

\* Where scanWorkers stands: the ids its loop has not reached yet, the id it is
\* deleting, and the task that deleteWorker looks at.
ScanAt(pc, todo, id, i) == [pc |-> pc, todo |-> todo, id |-> id, i |-> i]

Sleep == ScanAt("sleep", {}, None, 0)

-----------------------------------------------------------------------------
\* MakeCoordinator.
CoInit ==
  /\ State = "map" /\ Counter = 0 /\ up = "running"
  /\ Assigned = [t \in Task |-> FALSE]
  /\ Done = [t \in Task |-> FALSE]
  /\ Owner = [t \in Task |-> None]
  /\ Workers = [id \in {} |-> "fresh"]
  /\ hpc = [w \in Worker |-> "none"]
  /\ hid = [w \in Worker |-> None] /\ hfile = [w \in Worker |-> None]
  /\ hw = [w \in Worker |-> None] /\ hi = [w \in Worker |-> 0]
  /\ hall = [w \in Worker |-> FALSE] /\ hret = [w \in Worker |-> None]
  /\ scan = Sleep

\* w's handler goes from one place to another.
At(w, from, to) ==
  /\ Serving
  /\ hpc[w] = from
  /\ hpc' = [hpc EXCEPT ![w] = to]

-----------------------------------------------------------------------------
(* Register.                                                               *)

\* cur := c.Counter
RegisterRead(w) ==
  /\ At(w, "register", "count")
  /\ hid' = [hid EXCEPT ![w] = Counter]
  /\ UNCHANGED <<State, Counter, taskVars, Workers, up, hfile, hw, hi, hall, hret, scan>>

\* c.Counter++, which reads the counter again or reuses what was read.
RegisterCount(w) ==
  /\ At(w, "count", "add")
  /\ Counter' \in {Counter + 1, hid[w] + 1}
  /\ UNCHANGED <<State, taskVars, Workers, up, hid, hfile, hw, hi, hall, hret, scan>>

\* c.Workers[cur] = worker, and the reply.
RegisterAdd(w) ==
  /\ At(w, "add", "registered")
  /\ Workers' = [id \in DOMAIN Workers \cup {hid[w]} |->
                   IF id = hid[w] THEN "fresh" ELSE Workers[id]]
  /\ UNCHANGED <<State, Counter, taskVars, up, hid, hfile, hw, hi, hall, hret, scan>>

-----------------------------------------------------------------------------
(* Report: mark the reported task, then look for another one.              *)

\* Is the reported task w's and not done?
Mark(w) ==
  /\ At(w, "mark", IF Owner[hfile[w]] = hid[w] /\ ~Done[hfile[w]] THEN "set" ELSE "lookup")
  /\ UNCHANGED <<State, Counter, taskVars, Workers, up, hid, hfile, hw, hi, hall, hret, scan>>

MarkDone(w) ==
  /\ At(w, "set", "lookup")
  /\ Done' = [Done EXCEPT ![hfile[w]] = TRUE]
  /\ Assigned' = [Assigned EXCEPT ![hfile[w]] = TRUE]
  /\ UNCHANGED <<State, Counter, Owner, Workers, up, hid, hfile, hw, hi, hall, hret, scan>>

\* c.Workers[id], nil when the worker has been deleted.
Lookup(w) ==
  /\ At(w, "lookup", "assign")
  /\ hw' = [hw EXCEPT ![w] = IF hid[w] \in DOMAIN Workers THEN hid[w] ELSE None]
  /\ UNCHANGED <<State, Counter, taskVars, Workers, up, hid, hfile, hi, hall, hret, scan>>

\* assign looks at the phase.
Phase(w) ==
  /\ At(w, "assign", IF State = "map" THEN "maps" ELSE "reduces")
  /\ hi' = [hi EXCEPT ![w] = IF State = "map" THEN 0 ELSE NMap]
  /\ hall' = [hall EXCEPT ![w] = State = "map"]
  /\ UNCHANGED <<State, Counter, taskVars, Workers, up, hid, hfile, hw, hret, scan>>

\* One round of the loop over the map tasks, or over the reduce tasks: a task
\* that is not done is looked at again,
SeeDone(w, loop, look, tasks) ==
  /\ hi[w] \in tasks
  /\ At(w, loop, IF Done[hi[w]] THEN loop ELSE look)
  /\ hi' = [hi EXCEPT ![w] = IF Done[hi[w]] THEN @ + 1 ELSE @]
  /\ UNCHANGED <<State, Counter, taskVars, Workers, up, hid, hfile, hw, hall, hret, scan>>

\* Mutant of SeeAssigned: allDone ignores the tasks that are running.
SeeAssignedHasty(w, loop, look) ==
  /\ At(w, look, IF Assigned[hi[w]] THEN loop ELSE "claim")
  /\ hi' = [hi EXCEPT ![w] = IF Assigned[hi[w]] THEN @ + 1 ELSE @]
  /\ UNCHANGED <<State, Counter, taskVars, Workers, up, hid, hfile, hw, hall, hret, scan>>

\* and is claimed if it is not assigned.
SeeAssigned(w, loop, look) ==
  /\ At(w, look, IF Assigned[hi[w]] THEN loop ELSE "claim")
  /\ hi' = [hi EXCEPT ![w] = IF Assigned[hi[w]] THEN @ + 1 ELSE @]
  /\ hall' = [hall EXCEPT ![w] = @ /\ Assigned[hi[w]] /\ Done[hi[w]]]
  /\ UNCHANGED <<State, Counter, taskVars, Workers, up, hid, hfile, hw, hret, scan>>

MapScan(w) == SeeDone(w, "maps", "map?", MapTask) \/ SeeAssigned(w, "maps", "map?")

ReduceScan(w) == SeeDone(w, "reduces", "reduce?", ReduceTask) \/ SeeAssigned(w, "reduces", "reduce?")

\* No map task is left to assign: wait, or go on to the reduce phase.
MapScanEnd(w) ==
  /\ hi[w] \notin MapTask
  /\ At(w, "maps", IF hall[w] THEN "advance" ELSE "answer")
  /\ hret' = [hret EXCEPT ![w] = None]
  /\ UNCHANGED <<State, Counter, taskVars, Workers, up, hid, hfile, hw, hi, hall, scan>>

\* c.State = StateReduce
Advance(w) ==
  /\ At(w, "advance", "reduces")
  /\ State' = "reduce"
  /\ hi' = [hi EXCEPT ![w] = NMap]
  /\ hall' = [hall EXCEPT ![w] = FALSE]
  /\ UNCHANGED <<Counter, taskVars, Workers, up, hid, hfile, hw, hret, scan>>

\* Mutants of ReduceScanEnd: the wrong state, no test of Done, no new state.
ReduceScanEndAs(w, state) ==
  /\ hi[w] \notin ReduceTask
  /\ At(w, "reduces", "answer")
  /\ State' = state
  /\ hret' = [hret EXCEPT ![w] = None]
  /\ UNCHANGED <<Counter, taskVars, Workers, up, hid, hfile, hw, hi, hall, scan>>

ReduceScanEndWrong(w) == ReduceScanEndAs(w, "done")

ReduceScanEndEarly(w) == ReduceScanEndAs(w, "finish")

ReduceScanEndForgets(w) == ReduceScanEndAs(w, State)

\* No reduce task is left to assign; the job is finished if all are done.
ReduceScanEnd(w) ==
  /\ hi[w] \notin ReduceTask
  /\ At(w, "reduces", "answer")
  /\ State' = IF \A t \in ReduceTask : Done[t] THEN "finish" ELSE State
  /\ hret' = [hret EXCEPT ![w] = None]
  /\ UNCHANGED <<Counter, taskVars, Workers, up, hid, hfile, hw, hi, hall, scan>>

\* The task found free is assigned; w.WorkerID of a nil worker is a panic.
Claim(w) ==
  /\ At(w, "claim", "own")
  /\ Assigned' = [Assigned EXCEPT ![hi[w]] = TRUE]
  /\ up' = IF hw[w] = None THEN "panic" ELSE up
  /\ UNCHANGED <<State, Counter, Done, Owner, Workers, hid, hfile, hw, hi, hall, hret, scan>>

Own(w) ==
  /\ At(w, "own", "answer")
  /\ Owner' = [Owner EXCEPT ![hi[w]] = hw[w]]
  /\ hret' = [hret EXCEPT ![w] = hi[w]]
  /\ UNCHANGED <<State, Counter, Assigned, Done, Workers, up, hid, hfile, hw, hi, hall, scan>>

\* The reply: a task, or what to do without one.  The local variables are gone.
Answer(w) ==
  /\ At(w, "answer", IF hret[w] # None THEN "doing"
                     ELSE IF State = "finish" THEN "done" ELSE "wait")
  /\ hid' = [hid EXCEPT ![w] = None] /\ hfile' = [hfile EXCEPT ![w] = None]
  /\ hw' = [hw EXCEPT ![w] = None] /\ hi' = [hi EXCEPT ![w] = 0]
  /\ hall' = [hall EXCEPT ![w] = FALSE]
  /\ UNCHANGED <<State, Counter, taskVars, Workers, up, hret, scan>>

Handler(w) ==
  \/ RegisterRead(w) \/ RegisterCount(w) \/ RegisterAdd(w)
  \/ Mark(w) \/ MarkDone(w) \/ Lookup(w) \/ Phase(w)
  \/ MapScan(w) \/ MapScanEnd(w) \/ Advance(w)
  \/ ReduceScan(w) \/ ReduceScanEnd(w) \/ Claim(w) \/ Own(w) \/ Answer(w)

-----------------------------------------------------------------------------
(* Heartbeat, the scanner and main.                                        *)

\* A Heartbeat from a worker that is still in the map.
Heartbeat(id) ==
  /\ Serving
  /\ id \in DOMAIN Workers
  /\ Workers' = [Workers EXCEPT ![id] = "fresh"]
  /\ UNCHANGED <<State, Counter, taskVars, up, handlerVars, scan>>

\* The scanner wakes up, takes the time and starts its loop over the workers;
\* only those that have not been seen for ten seconds now can be deleted.
ScanStart ==
  /\ Serving
  /\ scan.pc = "sleep"
  /\ scan' = ScanAt("range", {id \in DOMAIN Workers : Workers[id] = "stale"}, None, 0)
  /\ UNCHANGED <<State, Counter, taskVars, Workers, up, handlerVars>>

\* The loop reaches such a worker; it is deleted unless a Heartbeat has arrived.
ScanWorker(id) ==
  /\ Serving
  /\ scan.pc = "range"
  /\ id \in scan.todo \cap DOMAIN Workers
  /\ IF Workers[id] = "stale"
     THEN /\ Workers' = [j \in DOMAIN Workers \ {id} |-> Workers[j]]
          /\ scan' = ScanAt("check", scan.todo \ {id}, id, 0)
     ELSE /\ Workers' = Workers
          /\ scan' = ScanAt("range", scan.todo \ {id}, None, 0)
  /\ UNCHANGED <<State, Counter, taskVars, up, handlerVars>>

\* deleteWorker looks whether a task is the deleted worker's and not done.
CheckTask ==
  /\ Serving
  /\ scan.pc = "check"
  /\ scan' = IF scan.i \notin Task THEN ScanAt("range", scan.todo, None, 0)
             ELSE IF Owner[scan.i] = scan.id /\ ~Done[scan.i]
                  THEN ScanAt("clear", scan.todo, scan.id, scan.i)
                  ELSE ScanAt("check", scan.todo, scan.id, scan.i + 1)
  /\ UNCHANGED <<State, Counter, taskVars, Workers, up, handlerVars>>

\* Such a task can be assigned again; then it has no owner.
Unassign ==
  /\ Serving
  /\ scan.pc = "clear"
  /\ Assigned' = [Assigned EXCEPT ![scan.i] = FALSE]
  /\ scan' = ScanAt("disown", scan.todo, scan.id, scan.i)
  /\ UNCHANGED <<State, Counter, Done, Owner, Workers, up, handlerVars>>

Disown ==
  /\ Serving
  /\ scan.pc = "disown"
  /\ Owner' = [Owner EXCEPT ![scan.i] = None]
  /\ scan' = ScanAt("check", scan.todo, scan.id, scan.i + 1)
  /\ UNCHANGED <<State, Counter, Assigned, Done, Workers, up, handlerVars>>

ScanEnd ==
  /\ Serving
  /\ scan.pc = "range"
  /\ scan.todo \cap DOMAIN Workers = {}
  /\ scan' = Sleep
  /\ UNCHANGED <<State, Counter, taskVars, Workers, up, handlerVars>>

Scanner ==
  \/ ScanStart
  \/ \E id \in scan.todo : ScanWorker(id)
  \/ CheckTask \/ Unassign \/ Disown \/ ScanEnd

\* main polls Done; ten seconds after it has returned true the process exits.
PollDone ==
  /\ up = "running"
  /\ State = "finish"
  /\ up' = "finished"
  /\ UNCHANGED <<State, Counter, taskVars, Workers, handlerVars, scan>>

Exit ==
  /\ up = "finished"
  /\ up' = "exited"
  /\ UNCHANGED <<State, Counter, taskVars, Workers, handlerVars, scan>>

\* A goroutine writes the map of workers while another one uses it (a Register,
\* a Report, the scanner, or the Heartbeat of a worker).
Overlap(beating) ==
  LET deleting == scan.pc = "range" /\ \E id \in scan.todo \cap DOMAIN Workers : Workers[id] = "stale"
      reading == \E w \in Worker : hpc[w] = "lookup"
  IN \/ \E v, w \in Worker : v # w /\ hpc[v] = "add" /\ hpc[w] \in {"add", "lookup"}
     \/ \E w \in Worker : hpc[w] = "add" /\ (scan.pc = "range" \/ beating)
     \/ deleting /\ (reading \/ beating)

\* The runtime may notice, and then stops the process.
MapFault(beating) ==
  /\ Faults /\ Serving
  /\ Overlap(beating)
  /\ up' = "panic"
  /\ UNCHANGED <<State, Counter, taskVars, Workers, handlerVars, scan>>
=============================================================================
