------------------------------- MODULE Labrpc -------------------------------
(***************************************************************************)
(* The labrpc network: a Call on a client end, the goroutine of processReq *)
(* that carries it, and the goroutine that runs the handler.               *)
(*                                                                         *)
(* processReq reads the end and the server once, when it starts.  Then it  *)
(* waits for the handler, but gives up when the end is disabled or the     *)
(* server it has read is no longer the one registered under that name; it  *)
(* looks once more before it passes a reply on.  The handler of a Call     *)
(* that was given up goes on running: such a handler is a `zombie'.        *)
(*                                                                         *)
(* What a handler does, and who registers servers, is up to the module     *)
(* that extends this one.                                                  *)
(***************************************************************************)
EXTENDS Naturals

CONSTANTS
  Client,       \* the callers, one Call at a time each
  Server,       \* the names of the servers
  MaxCalls,     \* how many Calls are made in all
  Unreliable,   \* whether the network drops requests and replies
  MayHang       \* whether a handler may never return

VARIABLES
  servers,      \* Network.servers: the instance registered for a name, 0 for nil
  clntEnabled,  \* Network.enabled, of the ends of clients: the <<c, s>> that are enabled
  done,         \* Network.done is closed
  call,         \* call[c]: the Call that c has made, and how far it is
  zombies,      \* the handlers still to run whose Call was given up
  calls         \* how many Calls have been made; numbers the Calls

netVars == <<servers, clntEnabled, done, call, zombies, calls>>

-----------------------------------------------------------------------------
\* `ok' is what the last Call has returned.
Idle(ok) == [pc |-> "idle", id |-> 0, to |-> 0, inst |-> 0, ok |-> ok]

\* A Call that `stage' of processReq has reached.
At(c, stage) == [call EXCEPT ![c].pc = stage]

\* Faulty: only the end is looked at, not whether the server was replaced.
isServerDeadEnd(c) == <<c, call[c].to>> \notin clntEnabled

isServerDead(c) ==
  \/ <<c, call[c].to>> \notin clntEnabled
  \/ servers[call[c].to] # call[c].inst

\* Call sends its request to s on the end it has for it.
Send(c, s) ==
  /\ call[c].pc = "idle"
  /\ calls < MaxCalls
  /\ calls' = calls + 1
  /\ call' = [call EXCEPT ![c] = [pc |-> "sent", id |-> calls + 1, to |-> s, inst |-> 0, ok |-> FALSE]]

\* Call finds the network cleaned up; the network's goroutine may still have taken it.
SendFails(c) ==
  /\ done
  /\ call[c].pc = "sent"
  /\ call' = [call EXCEPT ![c] = Idle(FALSE)]
  /\ UNCHANGED <<servers, clntEnabled, done, zombies, calls>>

\* processReq reads the end and the server, once.
readEndnameInfo(c) ==
  /\ call[c].pc = "sent"
  /\ LET s == call[c].to IN
     call' = IF <<c, s>> \in clntEnabled /\ servers[s] # 0
             THEN [call EXCEPT ![c].pc = "running", ![c].inst = servers[s]]
             ELSE At(c, "fail")
  /\ UNCHANGED <<servers, clntEnabled, done, zombies, calls>>

\* The request is dropped before its handler starts.
DropRequest(c) ==
  /\ Unreliable
  /\ call[c].pc = "running"
  /\ call' = At(c, "fail")
  /\ UNCHANGED <<servers, clntEnabled, done, zombies, calls>>

\* The handler returns; the extending module says what it has done.
Handled(c) ==
  /\ call[c].pc = "running"
  /\ call' = At(c, "handled")
  /\ UNCHANGED <<servers, clntEnabled, done, zombies, calls>>

\* The handler never returns.
Hang(c) ==
  /\ MayHang
  /\ call[c].pc = "running"
  /\ call' = At(c, "hung")
  /\ UNCHANGED <<servers, clntEnabled, done, zombies, calls>>

\* Faulty: the Call waits for its handler whatever becomes of the server.
GiveUpNever(c) ==
  /\ call[c].pc = "running"
  /\ isServerDead(c)
  /\ call' = At(c, "fail")
  /\ zombies' = zombies \cup {[to |-> call[c].to, inst |-> call[c].inst, id |-> call[c].id]}
  /\ UNCHANGED <<servers, clntEnabled, done, calls>>

\* Every 100 ms processReq looks whether the server is dead, and stops waiting.
GiveUp(c) ==
  /\ call[c].pc \in {"running", "hung"}
  /\ isServerDead(c)
  /\ call' = At(c, "fail")
  /\ zombies' = IF call[c].pc = "hung" THEN zombies
                ELSE zombies \cup {[to |-> call[c].to, inst |-> call[c].inst, id |-> call[c].id]}
  /\ UNCHANGED <<servers, clntEnabled, done, calls>>

\* With the reply in hand processReq looks again; only then does it drop the
\* reply, delay it or send it.
CheckReply(c) ==
  /\ call[c].pc = "handled"
  /\ \/ ~isServerDead(c) /\ call' = At(c, "reply")
     \/ (isServerDead(c) \/ Unreliable) /\ call' = At(c, "fail")
  /\ UNCHANGED <<servers, clntEnabled, done, zombies, calls>>

\* The Call returns.
Return(c) ==
  /\ call[c].pc \in {"reply", "fail"}
  /\ call' = [call EXCEPT ![c] = Idle(call[c].pc = "reply")]
  /\ UNCHANGED <<servers, clntEnabled, done, zombies, calls>>

\* Steps of the network that neither run a handler nor answer a Call.
NetStep(c) ==
  \/ SendFails(c)
  \/ readEndnameInfo(c)
  \/ DropRequest(c)
  \/ Hang(c)
  \/ GiveUp(c)
  \/ CheckReply(c)
=============================================================================
