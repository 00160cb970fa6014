----------------------------- MODULE Annotation -----------------------------
(***************************************************************************)
(* The failure annotations of the tester: what the visualiser shows about  *)
(* partitions and crashes while a test runs.                               *)
(*                                                                         *)
(* The tester keeps its own idea of which servers are connected and which  *)
(* have crashed, and one continuous annotation, tagged TAG_PARTITION, that *)
(* is replaced or ended when that idea changes.  Both are under locks, so  *)
(* each function of annotation.go is an operator from a record             *)
(*   connected, crashed  the servers for which finfo says so               *)
(*   shown               continuous[TAG_PARTITION], NoFault if there is none *)
(*   blank               an interval was recorded that nothing had started *)
(* to such a record.  The text of an annotation is a list of groups of     *)
(* servers and a list of crashed ones: here a set of sets and a set.       *)
(***************************************************************************)
LOCAL INSTANCE TLC

CONSTANT Server   \* the servers of the test

NoFault == [partition |-> {}, crash |-> {}]

mkFrameworkInfo == [connected |-> Server, crashed |-> {}]

clear == [shown |-> NoFault, blank |-> FALSE]

AnnotateTest == mkFrameworkInfo @@ clear

\* What is shown before is closed, and the new text begins.
annotateContinuousColor(an, partition, crash) ==
  [an EXCEPT !.shown = [partition |-> partition, crash |-> crash]]

\* What is shown is closed.  When nothing is, the map has no entry, and the zero
\* Continuous it returns is recorded all the same.
annotateContinuousEnd(an) ==
  [an EXCEPT !.shown = NoFault, !.blank = an.blank \/ an.shown = NoFault]

\* The disconnected servers each on its own, the connected ones together.
Groups(an) ==
  {{s} : s \in Server \ (an.connected \cup an.crashed)}
    \cup ({an.connected \ an.crashed} \ {{}})

annotateFault(an) ==
  IF an.connected = Server /\ an.crashed = {}
  THEN annotateContinuousEnd(an)
  ELSE annotateContinuousColor(an, Groups(an), an.crashed)

\* Faulty: the annotation is renewed but the connections are not copied.
AnnotateConnectionForgets(an, connection) ==
  IF connection = an.connected THEN an ELSE annotateFault(an)

\* Faulty: it renews the annotation although nothing has changed.
AnnotateConnectionAlways(an, connection) ==
  annotateFault([an EXCEPT !.connected = connection])

AnnotateConnection(an, connection) ==
  IF connection = an.connected THEN an
  ELSE annotateFault([an EXCEPT !.connected = connection])

AnnotateShutdown(an, ids) ==
  IF ids \subseteq an.crashed THEN an
  ELSE annotateFault([an EXCEPT !.crashed = @ \cup ids])

AnnotateRestart(an, ids) ==
  IF ids \cap an.crashed = {} THEN an
  ELSE annotateFault([an EXCEPT !.crashed = @ \ ids])

\* Used with ServerGrp.Partition, of which connected and crashed do not learn.
AnnotateTwoPartitions(an, p1, p2) == annotateContinuousColor(an, {p1, p2}, {})

AnnotateClearFailure(an) ==
  annotateContinuousEnd([an EXCEPT !.connected = Server, !.crashed = {}])
=============================================================================
