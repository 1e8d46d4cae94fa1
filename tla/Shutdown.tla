------------------------------- MODULE Shutdown -------------------------------
(***************************************************************************)
(* The graceful shutdown of the server (shutdown.mjs, and its wiring at    *)
(* the end of server-sovereign.mjs): a signal, the drain of the requests   *)
(* in flight, the close of the connections, the teardown, the exit.        *)
(*                                                                         *)
(* The drain polls a counter that the finish and close events of the       *)
(* responses maintain. A connection that is open when the signal comes may *)
(* still bring requests, one at a time: clients do not pipeline. A server  *)
(* whose database is slow may get the signal before it listens. Timers may *)
(* fire late; time stops at the exit.                                      *)
(***************************************************************************)
EXTENDS Integers, Sequences, FiniteSets

CONSTANTS Req, Conn, \* bounds the model: requests and connections
          NoConn,    \* the connection of a request that has not come
          Timeout,   \* QV_SHUTDOWN_TIMEOUT_MS
          Grace,     \* the 1000 ms before the forced exit
          Horizon    \* bounds the model: the last moment

ASSUME TimeAssumption == Timeout \in Nat /\ Grace \in Nat /\ Horizon \in Nat
ASSUME NoConnAssumption == NoConn \notin Conn
ASSUME ReqAssumption == IsFiniteSet(Req)

VARIABLES
  now,       \* Date.now()
  phase,     \* "up", "draining", "closing", "teardown", "exited"
  deadline,  \* of the drain and of the close
  ran,       \* the teardown callbacks that have run, in order
  code,      \* the exit status; Running before the exit
  listening, \* listen() was called
  settled,   \* close() found a server that did not listen: its callback ran at once
  conn,      \* "none", "open", "closed"
  late,      \* connections opened after the signal
  st,        \* requests: "new", "active", "ended", "finished", "closed"
  of,        \* the connection of a request
  done,      \* done[r]: the finish or close event of r was counted
  inFlight   \* the counter the drain polls

control == <<phase, deadline, ran, code, settled>>
network == <<conn, late, st, of, done, inFlight>>
vars    == <<now, control, listening, network>>

Running  == -1
Unset    == -1
Teardown == <<"pool", "audit", "sweep timer", "lease">>
Callback == {"pool", "audit", "sweep timer", "lease"}

Init ==
  /\ now = 0
  /\ phase = "up" /\ deadline = Unset /\ ran = <<>> /\ code = Running
  /\ listening \in BOOLEAN /\ settled = FALSE
  /\ conn = [c \in Conn |-> "none"] /\ late = {}
  /\ st   = [r \in Req |-> "new"]
  /\ of   = [r \in Req |-> NoConn]
  /\ done = [r \in Req |-> FALSE]
  /\ inFlight = 0

Lives    == phase # "exited"
Open(r)  == st[r] \in {"active", "ended"}
Waiting  == {r \in Req : Open(r)}  \* clients that are owed a response
Busy(c)  == \E r \in Waiting : of[r] = c

-------------------------------------------------------------------------------
(***************************************************************************)
(* Connections and requests.                                               *)
(***************************************************************************)
\* listen(), at the end of the boot: also when a signal came before.
Listen ==
  /\ Lives /\ ~listening
  /\ listening' = TRUE
  /\ UNCHANGED <<now, control, network>>

\* close() ended the listening, unless there was none to end.
Accepts == listening /\ Lives /\ (phase = "up" \/ settled)

Connect(c) ==
  /\ Accepts
  /\ conn[c] = "none"
  /\ conn' = [conn EXCEPT ![c] = "open"]
  /\ late' = IF phase = "up" THEN late ELSE late \cup {c}
  /\ UNCHANGED <<now, control, listening, st, of, done, inFlight>>

\* The request event: the dispatcher, then beginRequest.
Arrive(r, c) ==
  /\ Lives
  /\ conn[c] = "open" /\ ~Busy(c)
  /\ st[r] = "new"
  /\ st' = [st EXCEPT ![r] = "active"]
  /\ of' = [of EXCEPT ![r] = c]
  /\ inFlight' = inFlight + 1
  /\ UNCHANGED <<now, control, listening, conn, late, done>>

\* The handler calls res.end.
End(r) ==
  /\ Lives
  /\ st[r] = "active"
  /\ st' = [st EXCEPT ![r] = "ended"]
  /\ UNCHANGED <<now, control, listening, conn, late, of, done, inFlight>>

\* Mutant: both events of a response are counted.
SettleTwice(r) ==
  /\ done' = [done EXCEPT ![r] = TRUE]
  /\ inFlight' = IF inFlight > 0 THEN inFlight - 1 ELSE 0

\* finish(): endRequest, once per response.
Settle(r) ==
  IF done[r] THEN UNCHANGED <<done, inFlight>>
  ELSE /\ done' = [done EXCEPT ![r] = TRUE]
       /\ inFlight' = IF inFlight > 0 THEN inFlight - 1 ELSE 0

\* The finish event: the response was handed to the connection.
FinishEvent(r) ==
  /\ Lives
  /\ st[r] = "ended"
  /\ st' = [st EXCEPT ![r] = "finished"]
  /\ Settle(r)
  /\ UNCHANGED <<now, control, listening, conn, late, of>>

\* The close event, after the finish event.
CloseEvent(r) ==
  /\ Lives
  /\ st[r] = "finished"
  /\ st' = [st EXCEPT ![r] = "closed"]
  /\ Settle(r)
  /\ UNCHANGED <<now, control, listening, conn, late, of>>

\* The connection ends: by the client, also while it waits (the response closes and
\* its handler runs on for nobody), or by a keep-alive timeout.
Disconnect(c) ==
  /\ Lives
  /\ conn[c] = "open"
  /\ conn' = [conn EXCEPT ![c] = "closed"]
  /\ IF Busy(c)
       THEN \E r \in Waiting : /\ of[r] = c
                               /\ st' = [st EXCEPT ![r] = "closed"]
                               /\ Settle(r)
       ELSE UNCHANGED <<st, done, inFlight>>
  /\ UNCHANGED <<now, control, listening, late, of>>

-------------------------------------------------------------------------------
(***************************************************************************)
(* shutdown().                                                             *)
(***************************************************************************)
\* SIGTERM or SIGINT. A later signal gets the promise of the first one.
Signal ==
  /\ phase = "up"
  /\ now + Timeout + Grace <= Horizon
  /\ phase' = "draining"
  /\ deadline' = now + Timeout
  /\ settled' = ~listening
  /\ UNCHANGED <<now, ran, code, listening, network>>

Goto(p) ==
  /\ phase' = p
  /\ UNCHANGED <<now, deadline, ran, code, settled, listening, network>>

Expired == now >= deadline

\* waitForDrain
Drained == phase = "draining" /\ (inFlight = 0 \/ Expired) /\ Goto("closing")

\* Mutant: the drain is taken for the end of the connections.
ClosedWhenDrained == phase = "closing" /\ Goto("teardown")

\* The race of close()'s callback, which waits for every connection to end, with the
\* deadline.
ServerClosed == settled \/ \A c \in Conn : conn[c] # "open"
Closed == phase = "closing" /\ (ServerClosed \/ Expired) /\ Goto("teardown")

\* The next callback ran to its end, or threw, which is logged.
TeardownStep ==
  /\ phase = "teardown"
  /\ Len(ran) < Len(Teardown)
  /\ ran' = Append(ran, Teardown[Len(ran) + 1])
  /\ UNCHANGED <<now, phase, deadline, code, settled, listening, network>>

Exit(status) ==
  /\ phase' = "exited"
  /\ code' = status
  /\ UNCHANGED <<now, deadline, ran, settled, listening, network>>

\* Mutant: a callback that throws ends the teardown.
ExitZeroAfterThrow ==
  /\ phase = "teardown"
  /\ ran # <<>>
  /\ Exit(0)

ExitZero ==
  /\ phase = "teardown"
  /\ Len(ran) = Len(Teardown)
  /\ Exit(0)

\* Mutant: the timer is for the drain alone.
ForcedExitOfDrain ==
  /\ phase \in {"draining", "closing"}
  /\ now >= deadline + Grace
  /\ Exit(1)

\* hardDeadline
ForcedExit ==
  /\ phase \in {"draining", "closing", "teardown"}
  /\ now >= deadline + Grace
  /\ Exit(1)

\* loadKeystore or loadRevoked throws.
BootFails ==
  /\ Lives /\ ~listening
  /\ Exit(1)

Tick ==
  /\ Lives /\ now < Horizon
  /\ now' = now + 1
  /\ UNCHANGED <<control, listening, network>>

-------------------------------------------------------------------------------
Next ==
  \/ Listen \/ BootFails \/ Tick
  \/ \E c \in Conn : Connect(c) \/ Disconnect(c)
  \/ \E r \in Req, c \in Conn : Arrive(r, c)
  \/ \E r \in Req : End(r) \/ FinishEvent(r) \/ CloseEvent(r)
  \/ Signal \/ Drained \/ Closed \/ TeardownStep \/ ExitZero \/ ForcedExit

\* Fairness: time passes and the timer of the forced exit fires. Handlers, clients
\* and teardown callbacks may hang.
Fairness == WF_vars(Tick) /\ WF_vars(ForcedExit)

Spec     == Init /\ [][Next]_vars
FairSpec == Spec /\ Fairness

-------------------------------------------------------------------------------
\* Type invariant: every variable holds what its declaration says.
TypeOK ==
  /\ now \in Nat
  /\ phase \in {"up", "draining", "closing", "teardown", "exited"}
  /\ deadline \in Nat \cup {Unset}
  /\ ran \in Seq(Callback)
  /\ code \in {Running, 0, 1}
  /\ listening \in BOOLEAN /\ settled \in BOOLEAN
  /\ conn \in [Conn -> {"none", "open", "closed"}]
  /\ late \subseteq Conn
  /\ st \in [Req -> {"new", "active", "ended", "finished", "closed"}]
  /\ of \in [Req -> Conn \cup {NoConn}]
  /\ done \in [Req -> BOOLEAN]
  /\ inFlight \in Nat

\* The counter the drain polls is the number of clients owed a response, whatever
\* order the events of their responses come in.
InFlightIsExact == inFlight = Cardinality(Waiting)

\* A client whose connection was there before the signal is cut off by the exit only
\* at the deadline or later, also when its request came after the drain.
NoEarlyCut ==
  phase \in {"teardown", "exited"} => \A r \in Waiting : of[r] \in late \/ Expired

\* The process exits with 0 only after every callback ran once, in order, and with 1
\* only when the forced exit is due or the boot failed.
TornDownOnce ==
  /\ code = 0 => ran = Teardown
  /\ code = 1 => ~listening \/ (deadline # Unset /\ now >= deadline + Grace)

\* After a signal the process ends, whatever hangs.
Exits == phase = "draining" ~> phase = "exited"
===============================================================================
