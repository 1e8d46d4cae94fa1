-------------------------- MODULE Operations_proofs --------------------------
(***************************************************************************)
(* Theorems about the life of a server process and what it leaves behind:  *)
(* Shutdown, and the audit log and the exporter of Telemetry.              *)
(*                                                                         *)
(* Shutdown: types, the counter of the drain, the cut-off of waiting       *)
(* clients, the teardown.                                                  *)
(*                                                                         *)
(* Telemetry, the log: the trail is what the files hold, one after the     *)
(* other.  Two invariants carry TrailKept.  Ordered says of any two files  *)
(* that every line of the older one is older; it survives a rename that    *)
(* fails, whichever one it is.  Rotated says that the trail is the end of  *)
(* what was written and that a file after the first is full; it holds as   *)
(* long as no rename failed.  Shifted is taken apart name by name: each    *)
(* name holds what one of two names held, or nothing, and the names keep   *)
(* their order.                                                            *)
(*                                                                         *)
(* Telemetry, the exporter: posted \o buf only grows at its end, but for a *)
(* process that ends.                                                      *)
(*                                                                         *)
(* Telemetry, the reader: the lines of a file rise (Ordered), so that what *)
(* is kept of them is in order and is known by its set (KeptFacts); and a  *)
(* member at a rank of a sequence divides it (RankFacts).                  *)
(***************************************************************************)
EXTENDS Shutdown, Telemetry, FiniteSetTheorems, SequenceTheorems,
        WellFoundedInduction, TLAPS

-------------------------------------------------------------------------------
(* The inductive invariant.                                                  *)

\* A client owed a response has a connection of its own, and no event of its response
\* was counted; the events of every other response that began were.
Served ==
  /\ \A r \in Waiting : of[r] \in Conn /\ conn[of[r]] = "open" /\ ~done[r]
  /\ \A r, s \in Waiting : of[r] = of[s] => r = s
  /\ \A r \in Req : st[r] = "new" => ~done[r]
  /\ \A r \in Req : st[r] \in {"finished", "closed"} => done[r]

\* There are no connections before the server listens; those opened after a signal
\* are marked; a server that listened when the signal came accepts no more.
Accepted ==
  /\ ~listening => \A c \in Conn : conn[c] = "none"
  /\ phase = "up" => deadline = Unset /\ ~settled
  /\ phase # "up" /\ settled => \A c \in Conn : conn[c] # "none" => c \in late
  /\ phase \in {"draining", "closing", "teardown"} => deadline \in Nat

\* Past the close, an open connection came after the signal or the time is up.
ClosedInTime ==
  phase \in {"teardown", "exited"} =>
    \A c \in Conn : conn[c] = "open" => c \in late \/ Expired

\* There is a status from the exit on.
Status == code = Running <=> phase # "exited"

\* The callbacks run in order.
TeardownPrefix == \A i \in 1 .. Len(ran) : ran[i] = Teardown[i]

IInv == /\ TypeOK /\ InFlightIsExact /\ Served /\ Accepted /\ ClosedInTime
        /\ Status /\ TeardownPrefix /\ TornDownOnce

LEMMA TeardownFact ==
  Teardown \in Seq(Callback) /\ Len(Teardown) = 4 /\ \A i \in 1 .. 4 : Teardown[i] \in Callback
<1>1. Teardown \in Seq(Callback)  BY DEF Teardown, Callback
<1>2. Len(Teardown) = 4  BY DEF Teardown
<1> QED BY <1>1, <1>2, ElementOfSeq

LEMMA InitIInv == Init => IInv
<1> SUFFICES ASSUME Init PROVE IInv
  OBVIOUS
<1>1. TypeOK
  <2>1. ran \in Seq(Callback)  BY DEF Init
  <2>2. now \in Nat /\ inFlight \in Nat /\ deadline \in Nat \cup {Unset}
    BY DEF Init
  <2>3. /\ conn \in [Conn -> {"none", "open", "closed"}] /\ late \subseteq Conn
        /\ st \in [Req -> {"new", "active", "ended", "finished", "closed"}]
        /\ of \in [Req -> Conn \cup {NoConn}] /\ done \in [Req -> BOOLEAN]
    BY DEF Init
  <2>4. /\ phase \in {"up", "draining", "closing", "teardown", "exited"}
        /\ code \in {Running, 0, 1} /\ listening \in BOOLEAN /\ settled \in BOOLEAN
    BY DEF Init
  <2> QED BY <2>1, <2>2, <2>3, <2>4 DEF TypeOK
<1>2. Waiting = {}
  BY DEF Init, Waiting, Open
<1>3. InFlightIsExact
  BY <1>2, FS_EmptySet DEF InFlightIsExact, Init
<1> QED BY <1>1, <1>2, <1>3 DEF IInv, Init, Served, Accepted, ClosedInTime, Status,
           TeardownPrefix, TornDownOnce, Running, Unset

LEMMA WaitingFinite == IsFiniteSet(Waiting) /\ Cardinality(Waiting) \in Nat
<1>1. Waiting \in SUBSET Req  BY DEF Waiting
<1> QED BY <1>1, ReqAssumption, FS_Subset, FS_CardinalityType

\* The first event of a response, which ends its wait, is counted.
LEMMA SettleCounts ==
  ASSUME TypeOK, InFlightIsExact, Served, NEW r \in Waiting, Settle(r),
         Waiting' = Waiting \ {r}
  PROVE  /\ InFlightIsExact'
         /\ done' = [done EXCEPT ![r] = TRUE] /\ inFlight' \in Nat
<1>1. ~done[r]  BY DEF Served
<1>2. Cardinality(Waiting \ {r}) = Cardinality(Waiting) - 1
  BY WaitingFinite, FS_RemoveElement
<1>3. Cardinality(Waiting) \in Nat /\ Cardinality(Waiting \ {r}) \in Nat
  <2>1. IsFiniteSet(Waiting \ {r})  BY WaitingFinite, FS_RemoveElement
  <2> QED BY <2>1, WaitingFinite, FS_CardinalityType
<1>4. inFlight = Cardinality(Waiting)  BY DEF InFlightIsExact
<1> QED BY <1>1, <1>2, <1>3, <1>4 DEF Settle, InFlightIsExact

-------------------------------------------------------------------------------
(* Connections and requests.                                                 *)

LEMMA ListenStep == IInv /\ Listen => IInv'
<1> SUFFICES ASSUME IInv, Listen PROVE IInv'
  OBVIOUS
<1>1. /\ phase # "exited" /\ listening' = TRUE /\ Waiting' = Waiting
      /\ UNCHANGED <<now, phase, deadline, ran, code, settled, conn, late, st, of, done,
                     inFlight>>
  BY DEF Listen, Lives, control, network, Waiting, Open
<1>2. TypeOK'
  BY <1>1 DEF IInv, TypeOK
<1>3. InFlightIsExact' /\ Served' /\ Accepted' /\ ClosedInTime' /\ Status'
      /\ TeardownPrefix'
  BY <1>1 DEF IInv, InFlightIsExact, Served, Accepted, ClosedInTime, Expired, Status,
     TeardownPrefix
<1>4. TornDownOnce'
  BY <1>1 DEF IInv, Status, TornDownOnce, Running
<1> QED BY <1>2, <1>3, <1>4 DEF IInv

LEMMA ConnectStep ==
  ASSUME IInv, NEW c \in Conn, Connect(c)
  PROVE  IInv'
<1> USE DEF IInv
<1>1. /\ Accepts /\ conn[c] = "none" /\ conn' = [conn EXCEPT ![c] = "open"]
      /\ late' = IF phase = "up" THEN late ELSE late \cup {c}
      /\ UNCHANGED <<now, phase, deadline, ran, code, settled, listening, st, of, done,
                     inFlight>>
      /\ Waiting' = Waiting
  BY DEF Connect, control, Waiting, Open
<1>2. listening /\ phase # "exited" /\ (phase = "up" \/ settled)
  BY <1>1 DEF Accepts, Lives
<1>3. TypeOK'
  <2>1. late' \subseteq Conn  BY <1>1 DEF TypeOK
  <2>2. conn' \in [Conn -> {"none", "open", "closed"}]  BY <1>1 DEF TypeOK
  <2> QED BY <1>1, <2>1, <2>2 DEF TypeOK
<1>4. InFlightIsExact' /\ Status' /\ TeardownPrefix'
      /\ TornDownOnce'
  BY <1>1 DEF InFlightIsExact, Status, TeardownPrefix, TornDownOnce
<1>5. Served'
  <2>1. \A r \in Waiting : of[r] # c  BY <1>1 DEF Served
  <2> QED BY <1>1, <2>1 DEF Served, TypeOK
<1>6. Accepted'
  BY <1>1, <1>2 DEF Accepted, TypeOK
<1>7. ClosedInTime'
  BY <1>1, <1>2 DEF ClosedInTime, Expired, TypeOK
<1> QED BY <1>3, <1>4, <1>5, <1>6, <1>7

LEMMA ArriveStep ==
  ASSUME IInv, NEW r \in Req, NEW c \in Conn, Arrive(r, c)
  PROVE  IInv'
<1> USE DEF IInv
<1>1. /\ conn[c] = "open" /\ ~Busy(c) /\ st[r] = "new"
      /\ st' = [st EXCEPT ![r] = "active"] /\ of' = [of EXCEPT ![r] = c]
      /\ inFlight' = inFlight + 1
      /\ UNCHANGED <<now, phase, deadline, ran, code, settled, listening, conn, late, done>>
  BY DEF Arrive, control
<1>2. Waiting' = Waiting \cup {r} /\ r \notin Waiting
  BY <1>1 DEF Waiting, Open, TypeOK
<1>3. TypeOK'
  BY <1>1 DEF TypeOK
<1>4. InFlightIsExact'
  BY <1>1, <1>2, WaitingFinite, FS_AddElement DEF InFlightIsExact
<1>5. Served'
  <2>1. \A s \in Waiting : s # r /\ of'[s] = of[s] /\ of[s] # c
    BY <1>1, <1>2 DEF Busy, Waiting, TypeOK
  <2>2. of'[r] = c  BY <1>1 DEF TypeOK
  <2>3. ~done[r]  BY <1>1 DEF Served
  <2>4. \A s \in Req : s # r => st'[s] = st[s]  BY <1>1 DEF TypeOK
  <2>5. st'[r] = "active"  BY <1>1 DEF TypeOK
  <2> QED BY <1>1, <1>2, <2>1, <2>2, <2>3, <2>4, <2>5 DEF Served
<1>6. Accepted' /\ ClosedInTime' /\ Status' /\ TeardownPrefix'
      /\ TornDownOnce'
  BY <1>1 DEF Accepted, ClosedInTime, Expired, Status,
     TeardownPrefix, TornDownOnce
<1> QED BY <1>3, <1>4, <1>5, <1>6

LEMMA EndStep ==
  ASSUME IInv, NEW r \in Req, End(r)
  PROVE  IInv'
<1> USE DEF IInv
<1>1. /\ st[r] = "active" /\ st' = [st EXCEPT ![r] = "ended"]
      /\ UNCHANGED <<now, phase, deadline, ran, code, settled, listening, conn, late, of,
                     done, inFlight>>
  BY DEF End, control
<1>2. Waiting' = Waiting
  BY <1>1 DEF Waiting, Open, TypeOK
<1>3. TypeOK'
  BY <1>1 DEF TypeOK
<1>4. Served'
  <2>1. \A s \in Req : st'[s] = IF s = r THEN "ended" ELSE st[s]  BY <1>1 DEF TypeOK
  <2> QED BY <1>1, <1>2, <2>1 DEF Served
<1>5. InFlightIsExact' /\ Accepted' /\ ClosedInTime' /\ Status' /\ TeardownPrefix'
      /\ TornDownOnce'
  BY <1>1, <1>2 DEF InFlightIsExact, Accepted, ClosedInTime, Expired, Status,
     TeardownPrefix, TornDownOnce
<1> QED BY <1>3, <1>4, <1>5

\* A response that is over: its finish event, or its connection's end.
LEMMA OverStep ==
  ASSUME IInv, NEW r \in Waiting, NEW s \in {"finished", "closed"},
         st' = [st EXCEPT ![r] = s], Settle(r),
         UNCHANGED <<now, phase, deadline, ran, code, settled, listening, late, of>>,
         conn' \in [Conn -> {"none", "open", "closed"}],
         \A c \in Conn : conn'[c] = conn[c] \/ (conn'[c] = "closed" /\ c = of[r] /\ conn[c] = "open")
  PROVE  IInv'
<1> USE DEF IInv
<1>1. r \in Req  BY DEF Waiting
<1>2. Waiting' = Waiting \ {r}
  BY <1>1 DEF Waiting, Open, TypeOK
<1>3. InFlightIsExact' /\ done' = [done EXCEPT ![r] = TRUE] /\ inFlight' \in Nat
  BY <1>2, SettleCounts
<1>4. TypeOK'
  BY <1>1, <1>3 DEF TypeOK
<1>5. Served'
  <2>1. \A t \in Req : st'[t] = (IF t = r THEN s ELSE st[t])
                       /\ done'[t] = (IF t = r THEN TRUE ELSE done[t])
    BY <1>1, <1>3 DEF TypeOK
  <2>2. \A t \in Waiting' : t \in Waiting /\ t # r /\ of[t] # of[r] /\ t \in Req
    BY <1>2 DEF Served, Waiting
  <2>3. ASSUME NEW t \in Waiting'
        PROVE  of'[t] \in Conn /\ conn'[of'[t]] = "open" /\ ~done'[t]
    <3>1. t \in Waiting /\ t # r /\ of[t] # of[r] /\ t \in Req  BY <2>2
    <3>2. of[t] \in Conn /\ conn[of[t]] = "open" /\ ~done[t]  BY <3>1 DEF Served
    <3>3. conn'[of[t]] = conn[of[t]]  BY <3>1, <3>2
    <3> QED BY <2>1, <3>1, <3>2, <3>3
  <2>4. \A t, u \in Waiting' : of'[t] = of'[u] => t = u
    BY <2>2 DEF Served
  <2>5. \A t \in Req : /\ st'[t] = "new" => ~done'[t]
                       /\ st'[t] \in {"finished", "closed"} => done'[t]
    <3>1. s # "new"  OBVIOUS
    <3>2. ASSUME NEW t \in Req, t = r PROVE st'[t] # "new" /\ done'[t]
      BY <2>1, <3>1, <3>2
    <3>3. ASSUME NEW t \in Req, t # r PROVE st'[t] = st[t] /\ done'[t] = done[t]
      BY <2>1, <3>3
    <3> QED BY <3>2, <3>3 DEF Served
  <2> QED BY <2>3, <2>4, <2>5 DEF Served
<1>6. Accepted' /\ ClosedInTime' /\ Status' /\ TeardownPrefix'
      /\ TornDownOnce'
  BY DEF Accepted, ClosedInTime, Expired, Status,
     TeardownPrefix, TornDownOnce
<1> QED BY <1>3, <1>4, <1>5, <1>6

LEMMA FinishStep ==
  ASSUME IInv, NEW r \in Req, FinishEvent(r)
  PROVE  IInv'
<1>1. /\ r \in Waiting /\ st' = [st EXCEPT ![r] = "finished"] /\ Settle(r)
      /\ UNCHANGED <<now, phase, deadline, ran, code, settled, listening, conn, late, of>>
  BY DEF FinishEvent, control, Waiting, Open
<1> QED BY <1>1, OverStep DEF IInv, TypeOK

LEMMA CloseStep ==
  ASSUME IInv, NEW r \in Req, CloseEvent(r)
  PROVE  IInv'
<1> USE DEF IInv
<1>1. /\ st[r] = "finished" /\ st' = [st EXCEPT ![r] = "closed"] /\ done[r]
      /\ UNCHANGED <<now, phase, deadline, ran, code, settled, listening, conn, late, of,
                     done, inFlight>>
  BY DEF CloseEvent, Settle, control, Served
<1>2. Waiting' = Waiting
  BY <1>1 DEF Waiting, Open, TypeOK
<1>3. TypeOK'
  BY <1>1 DEF TypeOK
<1>4. Served'
  <2>1. \A s \in Req : st'[s] = IF s = r THEN "closed" ELSE st[s]  BY <1>1 DEF TypeOK
  <2> QED BY <1>1, <1>2, <2>1 DEF Served
<1>5. InFlightIsExact' /\ Accepted' /\ ClosedInTime' /\ Status' /\ TeardownPrefix'
      /\ TornDownOnce'
  BY <1>1, <1>2 DEF InFlightIsExact, Accepted, ClosedInTime, Expired, Status,
     TeardownPrefix, TornDownOnce
<1> QED BY <1>3, <1>4, <1>5

LEMMA DisconnectStep ==
  ASSUME IInv, NEW c \in Conn, Disconnect(c)
  PROVE  IInv'
<1>1. /\ conn[c] = "open" /\ conn' = [conn EXCEPT ![c] = "closed"]
      /\ UNCHANGED <<now, phase, deadline, ran, code, settled, listening, late, of>>
  BY DEF Disconnect, control
<1>2. CASE Busy(c)
  <2>1. PICK r \in Waiting : of[r] = c /\ st' = [st EXCEPT ![r] = "closed"] /\ Settle(r)
    BY <1>2 DEF Disconnect
  <2> QED BY <1>1, <2>1, OverStep DEF IInv, TypeOK
<1>3. CASE ~Busy(c)
  <2> USE DEF IInv
  <2>1. UNCHANGED <<st, done, inFlight>> /\ Waiting' = Waiting
    BY <1>3 DEF Disconnect, Waiting, Open
  <2>2. \A r \in Waiting : of[r] # c  BY <1>3 DEF Busy
  <2>3. TypeOK' /\ Served'
    BY <1>1, <2>1, <2>2 DEF TypeOK, Served
  <2>4. InFlightIsExact' /\ Accepted' /\ ClosedInTime' /\ Status' /\ TeardownPrefix'
      /\ TornDownOnce'
    BY <1>1, <2>1 DEF InFlightIsExact, Accepted, ClosedInTime, Expired, Status,
       TeardownPrefix, TornDownOnce, TypeOK
  <2> QED BY <2>3, <2>4
<1> QED BY <1>2, <1>3

-------------------------------------------------------------------------------
(* The shutdown, the exits and the clock.                                    *)

LEMMA ControlStep ==
  ASSUME IInv, Signal \/ Drained \/ Closed \/ TeardownStep \/ ExitZero \/ ForcedExit
               \/ BootFails \/ Tick \/ UNCHANGED vars
  PROVE  IInv'
<1> USE DEF IInv
<1>1. UNCHANGED <<conn, late, st, of, done, inFlight>> /\ listening' = listening
  BY DEF Signal, Drained, Closed, TeardownStep, ExitZero, ForcedExit, BootFails, Tick, Goto,
         Exit, vars, network
<1>2. Waiting' = Waiting
  BY <1>1 DEF Waiting, Open
<1>3. InFlightIsExact' /\ Served'
  BY <1>1, <1>2 DEF InFlightIsExact, Served
<1>4. TypeOK'
  <2>1. now' \in Nat
    BY DEF Signal, Drained, Closed, TeardownStep, ExitZero, ForcedExit, BootFails, Tick, Goto,
       Exit, vars, control, TypeOK
  <2>2. deadline' \in Nat \cup {Unset} /\ settled' \in BOOLEAN
    <3>1. CASE Signal
      BY <3>1, TimeAssumption DEF Signal, TypeOK
    <3>2. CASE ~Signal
      BY <3>2 DEF Drained, Closed, TeardownStep, ExitZero, ForcedExit, BootFails, Tick, Goto,
         Exit, vars, control, TypeOK
    <3> QED BY <3>1, <3>2
  <2>3. /\ code' \in {Running, 0, 1}
        /\ phase' \in {"up", "draining", "closing", "teardown", "exited"}
    BY DEF Signal, Drained, Closed, TeardownStep, ExitZero, ForcedExit, BootFails, Tick, Goto,
       Exit, vars, control, TypeOK
  <2>4. ran' \in Seq(Callback)
    <3>1. CASE TeardownStep
      <4>1. /\ ran \in Seq(Callback) /\ Len(ran) < Len(Teardown)
            /\ ran' = Append(ran, Teardown[Len(ran) + 1])
        BY <3>1 DEF TypeOK, TeardownStep
      <4>2. Len(ran) + 1 \in 1 .. 4  BY <4>1, TeardownFact
      <4>3. Teardown[Len(ran) + 1] \in Callback  BY <4>2, TeardownFact
      <4> QED BY <4>1, <4>3
    <3>2. CASE ~TeardownStep
      BY <3>2 DEF Signal, Drained, Closed, ExitZero, ForcedExit, BootFails, Tick, Goto, Exit,
         vars, control, TypeOK
    <3> QED BY <3>1, <3>2
  <2> QED BY <1>1, <2>1, <2>2, <2>3, <2>4 DEF TypeOK
<1>5. Accepted'
  <2>1. CASE Signal
    <3>1. /\ now \in Nat /\ deadline' = now + Timeout /\ phase' = "draining"
          /\ settled' = ~listening /\ listening \in BOOLEAN
      BY <2>1 DEF Signal, TypeOK
    <3>2. deadline' \in Nat  BY <3>1, TimeAssumption
    <3>3. phase' # "up" /\ (settled' => ~listening)  BY <3>1
    <3>4. ~listening' => \A c \in Conn : conn'[c] = "none"  BY <1>1 DEF Accepted
    <3>5. settled' => \A c \in Conn : conn'[c] = "none"  BY <1>1, <3>3, <3>4
    <3> QED BY <3>2, <3>3, <3>4, <3>5 DEF Accepted
  <2>2. CASE ~Signal
    BY <1>1, <2>2 DEF Drained, Closed, TeardownStep, ExitZero, ForcedExit, BootFails, Tick,
       Goto, Exit, vars, control, Accepted, Lives
  <2> QED BY <2>1, <2>2
<1>6. ClosedInTime'
  <2>1. CASE Closed
    <3>1. CASE settled
      BY <1>1, <2>1, <3>1 DEF Closed, Goto, ClosedInTime, Accepted
    <3>2. CASE ~settled
      BY <1>1, <2>1, <3>2 DEF Closed, Goto, ClosedInTime, ServerClosed, Expired
    <3> QED BY <3>1, <3>2
  <2>2. CASE Tick
    <3>1. Expired => Expired'
      BY <2>2 DEF Expired, Tick, control, Unset, TypeOK
    <3> QED BY <1>1, <2>2, <3>1 DEF Tick, control, ClosedInTime
  <2>3. CASE ForcedExit
    <3>1. Expired'
      <4>1. deadline \in Nat /\ now >= deadline + Grace /\ now' = now /\ deadline' = deadline
        BY <2>3 DEF ForcedExit, Exit, Accepted
      <4>2. now \in Nat /\ Grace \in Nat  BY TimeAssumption DEF TypeOK
      <4> QED BY <4>1, <4>2 DEF Expired
    <3> QED BY <3>1 DEF ClosedInTime
  <2>4. CASE BootFails
    BY <1>1, <2>4 DEF BootFails, ClosedInTime, Accepted
  <2>5. CASE Signal \/ Drained \/ TeardownStep \/ ExitZero \/ UNCHANGED vars
    BY <1>1, <2>5 DEF Signal, Drained, TeardownStep, ExitZero, Goto, Exit, vars, control,
       ClosedInTime, Expired
  <2> QED BY <2>1, <2>2, <2>3, <2>4, <2>5
<1>7. Status'
  BY DEF Signal, Drained, Closed, TeardownStep, ExitZero, ForcedExit, BootFails, Tick, Goto,
     Exit, Lives, vars, control, Status, Running
<1>8. TornDownOnce'
  <2>1. CASE TeardownStep \/ Signal \/ Drained \/ Closed \/ Tick
    <3>1. code' = Running
      BY <2>1 DEF TeardownStep, Signal, Drained, Closed, Tick, Goto, Lives, control, Status
    <3> QED BY <3>1 DEF TornDownOnce, Running
  <2>2. CASE ExitZero
    <3>1. ran' = ran /\ code' = 0  BY <2>2 DEF ExitZero, Exit
    <3>2. ran \in Seq(Callback) /\ Len(ran) = Len(Teardown)
      BY <2>2 DEF ExitZero, TypeOK
    <3>3. ran = Teardown
      BY <3>2, TeardownFact, SeqEqual DEF TeardownPrefix
    <3> QED BY <3>1, <3>3 DEF TornDownOnce
  <2>3. CASE ForcedExit
    <3>1. /\ deadline \in Nat /\ now >= deadline + Grace
          /\ now' = now /\ deadline' = deadline /\ code' = 1
      BY <2>3 DEF ForcedExit, Exit, Accepted
    <3>2. deadline # Unset  BY <3>1 DEF Unset
    <3> QED BY <3>1, <3>2 DEF TornDownOnce
  <2>4. CASE BootFails \/ UNCHANGED vars
    BY <1>1, <2>4 DEF BootFails, Exit, vars, control, TornDownOnce
  <2> QED BY <2>1, <2>2, <2>3, <2>4
<1>9. TeardownPrefix'
  <2>1. CASE TeardownStep
    <3>1. /\ ran \in Seq(Callback) /\ Len(ran) \in Nat
          /\ ran' = Append(ran, Teardown[Len(ran) + 1])
      BY <2>1 DEF TeardownStep, TypeOK
    <3>2. /\ Len(ran') = Len(ran) + 1 /\ ran'[Len(ran) + 1] = Teardown[Len(ran) + 1]
          /\ \A i \in 1 .. Len(ran) : ran'[i] = ran[i]
      <4> DEFINE c == Teardown[Len(ran) + 1]
      <4>1. Len(ran) + 1 \in 1 .. 4
        BY <2>1, <3>1, TeardownFact DEF TeardownStep
      <4>2. c \in Callback  BY <4>1, TeardownFact
      <4> QED BY <3>1, <4>2, AppendProperties
    <3> QED BY <3>1, <3>2 DEF TeardownPrefix
  <2>2. CASE ~TeardownStep
    BY <2>2 DEF Signal, Drained, Closed, ExitZero, ForcedExit, BootFails, Tick, Goto, Exit,
       vars, control, TeardownPrefix
  <2> QED BY <2>1, <2>2
<1> QED BY <1>3, <1>4, <1>5, <1>6, <1>7, <1>8, <1>9

LEMMA NextIInv == IInv /\ [Next]_vars => IInv'
<1> SUFFICES ASSUME IInv, [Next]_vars PROVE IInv'
  OBVIOUS
<1> QED BY ListenStep, ConnectStep, DisconnectStep, ArriveStep, EndStep, FinishStep,
           CloseStep, ControlStep DEF Next

LEMMA Invariance == Spec => []IInv
BY InitIInv, NextIInv, PTL DEF Spec

-------------------------------------------------------------------------------
(* The theorems.                                                             *)

\* Every variable keeps its type.
THEOREM TypeCorrect == Spec => []TypeOK
<1>1. IInv => TypeOK  BY DEF IInv
<1> QED BY <1>1, Invariance, PTL

\* The counter that the drain polls is the number of clients owed a response: no order
\* of finish, close and disconnect counts a response twice or leaves one out.
THEOREM DrainCountIsExact == Spec => []InFlightIsExact
<1>1. IInv => InFlightIsExact  BY DEF IInv
<1> QED BY <1>1, Invariance, PTL

\* No client with a connection from before the signal loses its response to the
\* shutdown before the deadline: the close waits for the requests the drain missed.
THEOREM NoClientIsCutEarly == Spec => []NoEarlyCut
<1>1. IInv => NoEarlyCut
  BY DEF IInv, Served, ClosedInTime, NoEarlyCut
<1> QED BY <1>1, Invariance, PTL

\* Exit status 0 means a whole teardown, in order; status 1 a deadline that is past or
\* a boot that failed.
THEOREM TeardownRunsOnce == Spec => []TornDownOnce
<1>1. IInv => TornDownOnce  BY DEF IInv
<1> QED BY <1>1, Invariance, PTL

-------------------------------------------------------------------------------
(* Induction over data, spelled out: the library's rules take an operator.      *)

\* A set of natural numbers that is not empty has a least one.
LEMMA LeastNumber ==
  ASSUME NEW T, T \subseteq Nat, T # {}
  PROVE  \E n \in T : \A m \in T : n <= m
<1> DEFINE R == OpToRel(<, Nat)
<1>1. \A x, y \in Nat : y < x => <<y, x>> \in R
  BY DEF OpToRel
<1> HIDE DEF R
<1>2. IsWellFoundedOn(R, Nat)
  BY NatLessThanWellFounded DEF R
<1>3. PICK x \in T : \A y \in T : ~ (<<y, x>> \in R)
  BY <1>2, WFMin
<1>4. ASSUME NEW y \in T PROVE x <= y
  <2>1. x \in Nat /\ y \in Nat /\ ~ (y < x)
    BY <1>1, <1>3
  <2> QED BY <2>1
<1> QED BY <1>4

\* A set that holds 0, and n with n - 1, holds all numbers up to N: the induction over data.
LEMMA UpTo ==
  ASSUME NEW N \in Nat, NEW T, 0 \in T, \A n \in 1..N : n - 1 \in T => n \in T
  PROVE  0..N \subseteq T
<1> DEFINE F == {n \in 0..N : n \notin T}
<1> SUFFICES ASSUME F # {} PROVE FALSE
  OBVIOUS
<1>0. F \subseteq Nat
  OBVIOUS
<1>1. PICK n \in F : \A m \in F : n <= m
  <2> HIDE DEF F
  <2> QED BY <1>0, LeastNumber
<1>2. n \in 1..N /\ n - 1 \in 0..N /\ n - 1 \notin F
  BY <1>1
<1> QED BY <1>2

\* f is defined by recursion on 0..N, by G from b.
StepsWith(f, b, G, N) == f[0] = b /\ \A n \in 1..N : f[n] = G[<<f[n - 1], n>>]

\* A function may be defined by recursion on 0..N: its value at n is G of the one before.
LEMMA Recursion ==
  ASSUME NEW N \in Nat, NEW S, NEW b \in S, NEW G \in [S \X (1..N) -> S]
  PROVE  \E f \in [0..N -> S] : StepsWith(f, b, G, N)
<1> USE DEF StepsWith
<1> DEFINE Is(f, m) == f[0] = b /\ \A n \in 1..m : f[n] = G[<<f[n - 1], n>>]
           T == {m \in 0..N : \E f \in [0..m -> S] : Is(f, m)}
<1>1. 0 \in T
  <2> DEFINE h == [n \in 0..0 |-> b]
  <2>1. h \in [0..0 -> S] /\ h[0] = b
    OBVIOUS
  <2> HIDE DEF h
  <2>2. Is(h, 0)
    BY <2>1
  <2> QED BY <2>1, <2>2
<1>2. ASSUME NEW m \in 1..N, m - 1 \in T PROVE m \in T
  <2>1. PICK f \in [0..(m - 1) -> S] : Is(f, m - 1)
    BY <1>2
  <2> DEFINE v == G[<<f[m - 1], m>>]
             h == [n \in 0..m |-> IF n = m THEN v ELSE f[n]]
  <2>2. f[m - 1] \in S /\ v \in S
    BY <2>1
  <2> HIDE DEF v
  <2>3. h \in [0..m -> S] /\ h[0] = b /\ h[m] = v
    BY <2>1, <2>2
  <2>4. \A n \in 0..(m - 1) : h[n] = f[n]
    OBVIOUS
  <2> HIDE DEF h
  <2>5. h[m - 1] = f[m - 1]
    BY <2>4
  <2>6. ASSUME NEW n \in 1..m PROVE h[n] = G[<<h[n - 1], n>>]
    <3>1. CASE n = m
      BY <3>1, <2>3, <2>5 DEF v
    <3>2. CASE n # m
      BY <3>2, <2>1, <2>4
    <3> QED BY <3>1, <3>2
  <2>7. Is(h, m)
    BY <2>3, <2>6
  <2> QED BY <2>3, <2>7
<1> HIDE DEF T
<1>3. N \in T
  BY <1>1, <1>2, UpTo
<1> QED BY <1>3 DEF T

-------------------------------------------------------------------------------
(***************************************************************************)
(* The trail of an audit log.                                              *)
(***************************************************************************)
Line  == [n : Nat, newline : BOOLEAN]
Files == [0..Keep -> Seq(Line)]

\* A name without a file is a sequence too, so that every name has one.
LEMMA ContentsType ==
  ASSUME NEW file \in Seq(Line)
  PROVE  Contents(file) \in Seq(Line)
  BY DEF Contents

LEMMA NoFileType == NoFile \in Seq(Line) /\ Contents(NoFile) = <<>>
  BY DEF NoFile, Line, Contents

\* What the files from i down to audit.log hold.
Downward(d, fs) ==
  /\ d \in [0..Keep -> Seq(Line)] /\ d[0] = Contents(fs[0])
  /\ \A k \in 1..Keep : d[k] = Contents(fs[k]) \o d[k - 1]

LEMMA TrailFacts ==
  ASSUME NEW fs \in Files
  PROVE  \E d : Downward(d, fs) /\ TrailOf(fs) = d[Keep]
<1> DEFINE S == Seq(Line)
           b == Contents(fs[0])
           step(s, i) == Contents(fs[i]) \o s
           from[i \in 0..Keep] == IF i = 0 THEN b ELSE step(from[i - 1], i)
           G == [p \in S \X (1..Keep) |-> step(p[1], p[2])]
<1>1. Keep \in Nat /\ \A i \in 0..Keep : Contents(fs[i]) \in S
  BY LogAssumption, ContentsType DEF Files
<1>2. ASSUME NEW s \in S, NEW i \in 1..Keep PROVE step(s, i) \in S
  BY <1>1
<1>3. TrailOf(fs) = from[Keep]
  BY DEF TrailOf
<1>4. b \in S
  BY <1>1
<1> HIDE DEF S, b, step
<1>5. G \in [S \X (1..Keep) -> S] /\ \A s \in S, i \in 1..Keep : G[<<s, i>>] = step(s, i)
  BY <1>2
<1> HIDE DEF G
<1>6. PICK f \in [0..Keep -> S] : StepsWith(f, b, G, Keep)
  BY <1>1, <1>4, <1>5, Recursion
<1>7. f[0] = b /\ \A i \in 1..Keep : f[i] = G[<<f[i - 1], i>>]
  BY <1>6 DEF StepsWith
<1>8. ASSUME NEW i \in 1..Keep PROVE f[i] = step(f[i - 1], i)
  <2>1. f[i - 1] \in S
    BY <1>1
  <2> QED BY <1>5, <1>7, <2>1
<1>9. f = [i \in 0..Keep |-> IF i = 0 THEN b ELSE step(f[i - 1], i)]
  <2>1. \A i \in 0..Keep : f[i] = IF i = 0 THEN b ELSE step(f[i - 1], i)
    BY <1>1, <1>7, <1>8
  <2> QED BY <2>1
<1>10. from = [i \in 0..Keep |-> IF i = 0 THEN b ELSE step(from[i - 1], i)]
  BY <1>9
<1> HIDE DEF from
<1>11. from[0] = b /\ \A i \in 1..Keep : from[i] = step(from[i - 1], i)
  BY <1>1, <1>10
<1> DEFINE T == {i \in 0..Keep : from[i] \in S}
<1>12. 0 \in T /\ \A i \in 1..Keep : i - 1 \in T => i \in T
  <2>1. ASSUME NEW i \in 1..Keep, from[i - 1] \in S PROVE from[i] \in S
    BY <1>2, <1>11, <2>1
  <2> QED BY <1>1, <1>4, <1>11, <2>1
<1> HIDE DEF T
<1>13. 0..Keep \subseteq T
  BY <1>1, <1>12, UpTo
<1>14. from \in [0..Keep -> S]
  BY <1>10, <1>13 DEF T
<1> QED BY <1>3, <1>11, <1>14 DEF Downward, b, step, S

\* The trail is what the files hold, whether an empty one is there or not.
LEMMA TrailSame ==
  ASSUME NEW fs \in Files, NEW gs \in Files,
         \A i \in 0..Keep : Contents(gs[i]) = Contents(fs[i])
  PROVE  TrailOf(gs) = TrailOf(fs)
<1>0. Keep \in Nat
  BY LogAssumption
<1>1. PICK d : Downward(d, fs) /\ TrailOf(fs) = d[Keep]
  BY TrailFacts
<1>2. PICK g : Downward(g, gs) /\ TrailOf(gs) = g[Keep]
  BY TrailFacts
<1> DEFINE T == {k \in 0..Keep : g[k] = d[k]}
<1>3. 0 \in T /\ \A k \in 1..Keep : k - 1 \in T => k \in T
  <2>1. g[0] = d[0]
    BY <1>0, <1>1, <1>2 DEF Downward
  <2>2. ASSUME NEW k \in 1..Keep, g[k - 1] = d[k - 1] PROVE g[k] = d[k]
    <3>1. d[k] = Contents(fs[k]) \o d[k - 1] /\ g[k] = Contents(gs[k]) \o g[k - 1]
      BY <1>1, <1>2 DEF Downward
    <3>2. Contents(gs[k]) = Contents(fs[k])
      BY <1>0
    <3> QED BY <2>2, <3>1, <3>2
  <2> QED BY <1>0, <2>1, <2>2
<1> HIDE DEF T
<1>4. 0..Keep \subseteq T
  BY <1>0, <1>3, UpTo
<1> QED BY <1>0, <1>1, <1>2, <1>4 DEF T

\* A line at the end of audit.log is at the end of the trail.
LEMMA TrailAppend ==
  ASSUME NEW fs \in Files, NEW line \in Line, fs[0] # NoFile, line.n # 0,
         NEW gs, gs = [fs EXCEPT ![0] = Append(@, line)]
  PROVE  gs \in Files /\ gs[0] # NoFile /\ TrailOf(gs) = Append(TrailOf(fs), line)
         /\ TrailOf(fs) \in Seq(Line)
<1>0. Keep \in Nat
  BY LogAssumption
<1>1. PICK d : Downward(d, fs) /\ TrailOf(fs) = d[Keep]
  BY TrailFacts
<1>2. fs[0] \in Seq(Line) /\ Append(fs[0], line) \in Seq(Line) /\ gs[0] = Append(fs[0], line)
  BY <1>0 DEF Files
<1>3. gs \in Files
  BY <1>2 DEF Files
<1>4. gs[0] # NoFile
  <2> SUFFICES ASSUME gs[0] = NoFile PROVE FALSE
    OBVIOUS
  <2>1. Len(gs[0]) = Len(fs[0]) + 1 /\ gs[0][Len(fs[0]) + 1] = line /\ Len(fs[0]) \in Nat
    BY <1>2
  <2>2. Len(NoFile) = 1 /\ NoFile[1] = [n |-> 0, newline |-> TRUE]
    BY DEF NoFile
  <2>3. line = [n |-> 0, newline |-> TRUE]
    BY <2>1, <2>2
  <2> QED BY <2>3
<1>5. PICK g : Downward(g, gs) /\ TrailOf(gs) = g[Keep]
  BY <1>3, TrailFacts
<1> DEFINE T == {k \in 0..Keep : g[k] = Append(d[k], line)}
<1>6. 0 \in T
  BY <1>0, <1>1, <1>2, <1>4, <1>5 DEF Downward, Contents
<1>7. ASSUME NEW k \in 1..Keep, k - 1 \in T PROVE k \in T
  <2> DEFINE c == Contents(fs[k])
             s == d[k - 1]
  <2>1. gs[k] = fs[k]
    BY <1>0 DEF Files
  <2>2. g[k] = c \o Append(s, line) /\ d[k] = c \o s
    BY <1>0, <1>1, <1>5, <1>7, <2>1 DEF Downward
  <2>3. c \in Seq(Line) /\ s \in Seq(Line)
    BY <1>0, <1>1, ContentsType DEF Files, Downward
  <2> HIDE DEF c, s
  <2>4. c \o Append(s, line) = Append(c \o s, line)
    BY <2>3
  <2>5. g[k] = Append(d[k], line)
    BY <2>2, <2>4
  <2> QED BY <1>0, <2>5
<1> HIDE DEF T
<1>8. 0..Keep \subseteq T
  BY <1>0, <1>6, <1>7, UpTo
<1>9. d[Keep] \in Seq(Line) /\ g[Keep] = Append(d[Keep], line)
  BY <1>0, <1>1, <1>8 DEF T, Downward
<1> QED BY <1>1, <1>3, <1>4, <1>5, <1>9

\* When every file takes the next name, the trail loses what the oldest held.
LEMMA TrailShift ==
  ASSUME NEW fs \in Files, NEW gs \in Files, Keep # 0, Contents(gs[0]) = <<>>,
         \A i \in 1..Keep : Contents(gs[i]) = Contents(fs[i - 1])
  PROVE  TrailOf(fs) = Contents(fs[Keep]) \o TrailOf(gs) /\ TrailOf(gs) \in Seq(Line)
<1>0. Keep \in Nat /\ Keep >= 1
  BY LogAssumption
<1>1. PICK d : Downward(d, fs) /\ TrailOf(fs) = d[Keep]
  BY TrailFacts
<1>2. PICK g : Downward(g, gs) /\ TrailOf(gs) = g[Keep]
  BY TrailFacts
<1> DEFINE T == {k \in 0..(Keep - 1) : g[k + 1] = d[k]}
<1>3. 0 \in T
  <2>1. g[1] = Contents(fs[0]) \o <<>> /\ d[0] = Contents(fs[0])
    <3>0. 1 \in 1..Keep
      BY <1>0
    <3>1. g[1] = Contents(gs[1]) \o g[1 - 1] /\ g[0] = Contents(gs[0])
      BY <1>2, <3>0 DEF Downward
    <3>2. Contents(gs[1]) = Contents(fs[1 - 1]) /\ 1 - 1 = 0
      BY <1>0
    <3> QED BY <1>1, <3>1, <3>2 DEF Downward
  <2>2. Contents(fs[0]) \in Seq(Line)
    BY <1>0, ContentsType DEF Files
  <2> QED BY <1>0, <2>1, <2>2
<1>4. ASSUME NEW k \in 1..(Keep - 1), k - 1 \in T PROVE k \in T
  <2>1. g[k + 1] = Contents(gs[k + 1]) \o g[k] /\ d[k] = Contents(fs[k]) \o d[k - 1]
    <3>1. k + 1 \in 1..Keep /\ k \in 1..Keep /\ (k + 1) - 1 = k
      BY <1>0
    <3> QED BY <1>1, <1>2, <3>1 DEF Downward
  <2>2. Contents(gs[k + 1]) = Contents(fs[k])
    <3>1. k + 1 \in 1..Keep /\ (k + 1) - 1 = k
      BY <1>0
    <3> QED BY <3>1
  <2>3. g[k] = d[k - 1]
    <3>1. (k - 1) + 1 = k
      BY <1>0
    <3> QED BY <1>4, <3>1
  <2>4. g[k + 1] = d[k]
    BY <2>1, <2>2, <2>3
  <2> QED BY <1>0, <2>4
<1> HIDE DEF T
<1>5. 0..(Keep - 1) \subseteq T
  BY <1>0, <1>3, <1>4, UpTo
<1>6. g[Keep] = d[Keep - 1]
  <2>1. Keep - 1 \in T /\ (Keep - 1) + 1 = Keep
    BY <1>0, <1>5
  <2> QED BY <2>1 DEF T
<1>7. d[Keep] = Contents(fs[Keep]) \o d[Keep - 1] /\ d[Keep - 1] \in Seq(Line)
  <2>1. Keep \in 1..Keep /\ Keep - 1 \in 0..Keep
    BY <1>0
  <2> QED BY <1>1, <2>1 DEF Downward
<1> QED BY <1>1, <1>2, <1>6, <1>7

\* All kept files are there and none is short: so is the trail.
LEMMA TrailLong ==
  ASSUME NEW fs \in Files,
         \A i \in 1..Keep : fs[i] # NoFile /\ Len(fs[i]) >= RotateAt
  PROVE  Len(TrailOf(fs)) >= Keep * RotateAt
<1>0. Keep \in Nat /\ RotateAt \in Nat
  BY LogAssumption
<1>1. PICK d : Downward(d, fs) /\ TrailOf(fs) = d[Keep]
  BY TrailFacts
<1> DEFINE T == {k \in 0..Keep : Len(d[k]) >= k * RotateAt}
<1>2. 0 \in T
  BY <1>0, <1>1 DEF Downward
<1>3. ASSUME NEW k \in 1..Keep, k - 1 \in T PROVE k \in T
  <2>1. /\ d[k - 1] \in Seq(Line) /\ fs[k] \in Seq(Line) /\ d[k] = fs[k] \o d[k - 1]
        /\ Len(fs[k]) >= RotateAt
    <3>1. k - 1 \in 0..Keep /\ k \in 0..Keep
      BY <1>0
    <3>2. Contents(fs[k]) = fs[k]
      BY DEF Contents
    <3> QED BY <1>1, <3>1, <3>2 DEF Downward, Files
  <2>2. Len(d[k]) = Len(fs[k]) + Len(d[k - 1]) /\ Len(fs[k]) \in Nat /\ Len(d[k - 1]) \in Nat
    BY <2>1
  <2>3. Len(d[k - 1]) >= (k - 1) * RotateAt
    BY <1>3
  <2>4. k * RotateAt = (k - 1) * RotateAt + RotateAt /\ (k - 1) * RotateAt \in Int
    BY <1>0
  <2>5. Len(d[k]) >= k * RotateAt
    <3> DEFINE m == (k - 1) * RotateAt
               all == k * RotateAt
               new == Len(fs[k])
               old == Len(d[k - 1])
    <3>1. m \in Int /\ all = m + RotateAt /\ old >= m
      BY <2>3, <2>4
    <3>2. new >= RotateAt /\ new \in Nat /\ old \in Nat /\ Len(d[k]) = new + old
      BY <2>1, <2>2
    <3> HIDE DEF m, all, new, old
    <3>3. Len(d[k]) >= all
      BY <1>0, <3>1, <3>2
    <3> QED BY <3>3 DEF all
  <2> QED BY <2>5
<1> HIDE DEF T
<1>4. 0..Keep \subseteq T
  BY <1>0, <1>2, <1>3, UpTo
<1> QED BY <1>0, <1>1, <1>4 DEF T

-------------------------------------------------------------------------------
(***************************************************************************)
(* The order of the trail, and what it is the end of.                      *)
(***************************************************************************)

\* No line is later than the last event; each file is in order, and each older file lies
\* before each newer one.
Ordered(fs, e) ==
  /\ \A i \in 0..Keep : fs[i] # NoFile =>
       /\ \A x \in 1..Len(fs[i]) : fs[i][x].n \in 1..e
       /\ \A x, y \in 1..Len(fs[i]) : x < y => fs[i][x].n < fs[i][y].n
  /\ \A i, j \in 0..Keep : fs[i] # NoFile /\ fs[j] # NoFile /\ i < j =>
       \A x \in 1..Len(fs[j]), y \in 1..Len(fs[i]) : fs[j][x].n < fs[i][y].n

Increasing(t) == \A x, y \in 1..Len(t) : x < y => t[x].n < t[y].n

\* A line of c \o s is one of c or one of s.
LEMMA ConcatLine ==
  ASSUME NEW c \in Seq(Line), NEW s \in Seq(Line), NEW x \in 1..Len(c \o s)
  PROVE  /\ Len(c \o s) = Len(c) + Len(s) /\ Len(c) \in Nat /\ Len(s) \in Nat
         /\ x <= Len(c) => x \in 1..Len(c) /\ (c \o s)[x] = c[x]
         /\ x > Len(c) => x - Len(c) \in 1..Len(s) /\ (c \o s)[x] = s[x - Len(c)]
  BY ConcatProperties, LenProperties

LEMMA ConcatIncreasing ==
  ASSUME NEW c \in Seq(Line), NEW s \in Seq(Line), Increasing(c), Increasing(s),
         \A x \in 1..Len(c), y \in 1..Len(s) : c[x].n < s[y].n
  PROVE  Increasing(c \o s)
<1> SUFFICES ASSUME NEW x \in 1..Len(c \o s), NEW y \in 1..Len(c \o s), x < y
             PROVE  (c \o s)[x].n < (c \o s)[y].n
  BY DEF Increasing
<1>1. Len(c) \in Nat /\ Len(s) \in Nat
  BY LenProperties
<1>2. CASE y <= Len(c)
  BY <1>1, <1>2, ConcatLine DEF Increasing
<1>3. CASE x <= Len(c) /\ y > Len(c)
  BY <1>1, <1>3, ConcatLine DEF Increasing
<1>4. CASE x > Len(c)
  <2>1. /\ x - Len(c) \in 1..Len(s) /\ (c \o s)[x] = s[x - Len(c)]
        /\ y - Len(c) \in 1..Len(s) /\ (c \o s)[y] = s[y - Len(c)]
    BY <1>1, <1>4, ConcatLine
  <2>2. x - Len(c) < y - Len(c)
    BY <1>1
  <2> QED BY <2>1, <2>2 DEF Increasing
<1> QED BY <1>1, <1>2, <1>3, <1>4

\* Files that are in order make a trail that is.
LEMMA TrailOrdered ==
  ASSUME NEW fs \in Files, NEW e \in Nat, Ordered(fs, e)
  PROVE  TrailOf(fs) \in Seq(Line) /\ Increasing(TrailOf(fs))
<1>0. Keep \in Nat
  BY LogAssumption
<1>1. PICK d : Downward(d, fs) /\ TrailOf(fs) = d[Keep]
  BY TrailFacts
<1>2. ASSUME NEW i \in 0..Keep
      PROVE  /\ Contents(fs[i]) \in Seq(Line) /\ Increasing(Contents(fs[i]))
             /\ \A x \in 1..Len(Contents(fs[i])) : fs[i] # NoFile /\ Contents(fs[i]) = fs[i]
  <2>1. fs[i] \in Seq(Line)
    BY DEF Files
  <2>2. CASE fs[i] = NoFile
    BY <2>2, NoFileType DEF Increasing
  <2>3. CASE fs[i] # NoFile
    BY <2>1, <2>3 DEF Contents, Increasing, Ordered
  <2> QED BY <2>2, <2>3
<1> DEFINE Within(k) == \A x \in 1..Len(d[k]) :
                          \E i \in 0..k : /\ fs[i] # NoFile
                                          /\ \E y \in 1..Len(fs[i]) : d[k][x] = fs[i][y]
           T == {k \in 0..Keep : Increasing(d[k]) /\ Within(k)}
<1>3. 0 \in T
  <2>1. d[0] = Contents(fs[0]) /\ 0 \in 0..Keep
    BY <1>0, <1>1 DEF Downward
  <2> QED BY <1>2, <2>1
<1>4. ASSUME NEW k \in 1..Keep, k - 1 \in T PROVE k \in T
  <2> DEFINE c == Contents(fs[k])
             s == d[k - 1]
  <2>1. k \in 0..Keep /\ k - 1 \in 0..Keep
    BY <1>0
  <2>2. c \in Seq(Line) /\ s \in Seq(Line) /\ d[k] = c \o s
    BY <1>1, <1>2, <2>1 DEF Downward
  <2>3. \A x \in 1..Len(c) : fs[k] # NoFile /\ c = fs[k]
    BY <1>2, <2>1
  <2>4. Increasing(c) /\ Increasing(s) /\ Within(k - 1)
    BY <1>2, <1>4, <2>1
  <2>5. ASSUME NEW x \in 1..Len(c), NEW y \in 1..Len(s) PROVE c[x].n < s[y].n
    <3>1. PICK i \in 0..(k - 1) : fs[i] # NoFile /\ \E z \in 1..Len(fs[i]) : s[y] = fs[i][z]
      BY <2>4
    <3>2. PICK z \in 1..Len(fs[i]) : s[y] = fs[i][z]
      BY <3>1
    <3>3. fs[k] # NoFile /\ c = fs[k]
      BY <2>3
    <3>4. i \in 0..Keep /\ i < k
      BY <1>0
    <3> HIDE DEF c, s
    <3> QED BY <2>1, <3>1, <3>2, <3>3, <3>4 DEF Ordered
  <2> HIDE DEF c, s
  <2>6. Increasing(c \o s)
    BY <2>2, <2>4, <2>5, ConcatIncreasing
  <2>7. Within(k)
    <3> SUFFICES ASSUME NEW x \in 1..Len(d[k])
                 PROVE  \E i \in 0..k : /\ fs[i] # NoFile
                                        /\ \E y \in 1..Len(fs[i]) : d[k][x] = fs[i][y]
      OBVIOUS
    <3>1. Len(c) \in Nat /\ Len(s) \in Nat /\ x \in Int
      BY <2>2, LenProperties
    <3>2. CASE x <= Len(c)
      <4>1. x \in 1..Len(c) /\ d[k][x] = c[x]
        BY <2>2, <3>2, ConcatLine
      <4>2. fs[k] # NoFile /\ c = fs[k]
        BY <2>3, <4>1
      <4> QED BY <4>1, <4>2
    <3>3. CASE x > Len(c)
      <4>1. x - Len(c) \in 1..Len(s) /\ d[k][x] = s[x - Len(c)]
        BY <2>2, <3>3, ConcatLine
      <4>2. PICK i \in 0..(k - 1) : /\ fs[i] # NoFile
                                    /\ \E y \in 1..Len(fs[i]) : s[x - Len(c)] = fs[i][y]
        BY <2>4, <4>1 DEF s
      <4>3. i \in 0..k
        BY <1>0
      <4> QED BY <4>1, <4>2, <4>3
    <3> QED BY <3>1, <3>2, <3>3
  <2>8. Increasing(d[k])
    BY <2>2, <2>6
  <2> HIDE DEF Within
  <2> QED BY <2>1, <2>7, <2>8
<1> HIDE DEF T
<1>5. 0..Keep \subseteq T
  BY <1>0, <1>3, <1>4, UpTo
<1> QED BY <1>0, <1>1, <1>5 DEF T, Downward

\* t holds the lines of the last events of w.
Suffix(t, w) ==
  Len(t) <= Len(w) /\ \A i \in 1..Len(t) : t[i].n = w[Len(w) - Len(t) + i]

LEMMA SuffixAppend ==
  ASSUME NEW t \in Seq(Line), NEW w \in Seq(Nat), NEW line \in Line, Suffix(t, w)
  PROVE  Suffix(Append(t, line), Append(w, line.n))
<1> DEFINE u == Append(t, line)
           v == Append(w, line.n)
<1>1. /\ Len(u) = Len(t) + 1 /\ Len(v) = Len(w) + 1 /\ Len(t) \in Nat /\ Len(w) \in Nat
      /\ u[Len(t) + 1] = line /\ v[Len(w) + 1] = line.n
      /\ \A i \in 1..Len(t) : u[i] = t[i]
      /\ \A i \in 1..Len(w) : v[i] = w[i]
  <2>1. line.n \in Nat
    BY DEF Line
  <2> QED BY <2>1
<1> HIDE DEF u, v
<1>2. ASSUME NEW i \in 1..Len(u) PROVE u[i].n = v[Len(v) - Len(u) + i]
  <2>1. CASE i = Len(t) + 1
    <3>1. Len(v) - Len(u) + i = Len(w) + 1
      BY <1>1, <2>1
    <3> QED BY <1>1, <2>1, <3>1
  <2>2. CASE i # Len(t) + 1
    <3>1. i \in 1..Len(t) /\ Len(v) - Len(u) + i = Len(w) - Len(t) + i
          /\ Len(w) - Len(t) + i \in 1..Len(w)
      BY <1>1, <2>2 DEF Suffix
    <3> QED BY <1>1, <3>1 DEF Suffix
  <2> QED BY <2>1, <2>2
<1>3. Len(u) <= Len(v)
  BY <1>1 DEF Suffix
<1>4. Suffix(u, v)
  BY <1>2, <1>3 DEF Suffix
<1> QED BY <1>4 DEF u, v

LEMMA SuffixDrop ==
  ASSUME NEW c \in Seq(Line), NEW t \in Seq(Line), NEW w \in Seq(Nat), Suffix(c \o t, w)
  PROVE  Suffix(t, w)
<1>1. /\ Len(c \o t) = Len(c) + Len(t) /\ Len(c) \in Nat /\ Len(t) \in Nat /\ Len(w) \in Nat
  BY LenProperties, ConcatProperties
<1>2. ASSUME NEW i \in 1..Len(t) PROVE t[i].n = w[Len(w) - Len(t) + i]
  <2> DEFINE x == Len(c) + i
  <2>1. x \in 1..Len(c \o t) /\ (c \o t)[x] = t[i]
    <3>1. x \in 1..(Len(c) + Len(t)) /\ ~(x <= Len(c)) /\ x - Len(c) = i
      BY <1>1
    <3> HIDE DEF x
    <3> QED BY <1>1, <3>1, ConcatProperties
  <2>2. Len(w) - Len(c \o t) + x = Len(w) - Len(t) + i
    BY <1>1
  <2> HIDE DEF x
  <2> QED BY <2>1, <2>2 DEF Suffix
<1>3. Len(t) <= Len(w)
  BY <1>1 DEF Suffix
<1> QED BY <1>2, <1>3 DEF Suffix

-------------------------------------------------------------------------------
(***************************************************************************)
(* Rotation.                                                               *)
(***************************************************************************)

\* Whatever is renamed and whatever is not, a name holds what it held or what the name
\* before it held, and no two hold the same.
LEMMA ShiftedSources ==
  ASSUME NEW fs \in Files, NEW failed, NEW unlinked \in BOOLEAN,
         NEW gs, gs = Shifted(fs, failed, unlinked)
  PROVE  /\ gs \in Files
         /\ \A i \in 0..Keep : gs[i] # NoFile => \E s \in 0..Keep : gs[i] = fs[s]
         /\ \A i, j \in 0..Keep : gs[i] # NoFile /\ gs[j] # NoFile /\ i < j =>
              \E s, t \in 0..Keep : s < t /\ gs[i] = fs[s] /\ gs[j] = fs[t]
<1> DEFINE moves(i) == i \in 1..Keep /\ fs[i - 1] # NoFile /\ i \notin failed
           dropped(i) == i = Keep /\ i > 0 /\ fs[i - 1] # NoFile /\ unlinked
<1>0. Keep \in Nat
  BY LogAssumption
<1>1. gs = [i \in 0..Keep |-> IF moves(i) THEN fs[i - 1]
                              ELSE IF moves(i + 1) \/ dropped(i) THEN NoFile
                              ELSE fs[i]]
  BY DEF Shifted
<1>2. \A i \in 0..Keep : moves(i) => i - 1 \in 0..Keep
  BY <1>0
<1> HIDE DEF dropped
<1>3. gs \in Files
  <2> HIDE DEF moves
  <2> QED BY <1>1, <1>2, NoFileType DEF Files
<1>4. ASSUME NEW i \in 0..Keep, gs[i] # NoFile
      PROVE  \/ moves(i) /\ gs[i] = fs[i - 1]
             \/ ~moves(i) /\ ~moves(i + 1) /\ gs[i] = fs[i]
  <2> HIDE DEF moves
  <2> QED BY <1>1, <1>4
<1>5. ASSUME NEW i \in 0..Keep, NEW j \in 0..Keep, gs[i] # NoFile, gs[j] # NoFile, i < j
      PROVE  \E s, t \in 0..Keep : s < t /\ gs[i] = fs[s] /\ gs[j] = fs[t]
  <2>1. CASE moves(i) /\ moves(j)
    <3>1. i - 1 \in 0..Keep /\ j - 1 \in 0..Keep /\ i - 1 < j - 1
      BY <1>0, <1>5, <2>1
    <3> QED BY <1>4, <1>5, <2>1, <3>1
  <2>2. CASE moves(i) /\ ~moves(j)
    <3>1. i - 1 \in 0..Keep /\ i - 1 < j
      BY <1>0, <1>5, <2>2
    <3> QED BY <1>4, <1>5, <2>2, <3>1
  <2>3. CASE ~moves(i) /\ moves(j)
    <3>1. i + 1 # j
      BY <1>4, <1>5, <2>3
    <3>2. j - 1 \in 0..Keep /\ i < j - 1
      BY <1>0, <1>5, <2>3, <3>1
    <3> QED BY <1>4, <1>5, <2>3, <3>2
  <2>4. CASE ~moves(i) /\ ~moves(j)
    BY <1>4, <1>5, <2>4
  <2> QED BY <2>1, <2>2, <2>3, <2>4
<1>6. \A i \in 0..Keep : gs[i] # NoFile => \E s \in 0..Keep : gs[i] = fs[s]
  BY <1>2, <1>4
<1> QED BY <1>3, <1>5, <1>6

LEMMA ShiftedOrdered ==
  ASSUME NEW fs \in Files, NEW failed, NEW unlinked \in BOOLEAN, NEW e \in Nat, Ordered(fs, e)
  PROVE  Ordered(Shifted(fs, failed, unlinked), e)
<1> DEFINE gs == Shifted(fs, failed, unlinked)
<1>1. /\ \A i \in 0..Keep : gs[i] # NoFile => \E s \in 0..Keep : gs[i] = fs[s]
      /\ \A i, j \in 0..Keep : gs[i] # NoFile /\ gs[j] # NoFile /\ i < j =>
           \E s, t \in 0..Keep : s < t /\ gs[i] = fs[s] /\ gs[j] = fs[t]
  BY ShiftedSources
<1> HIDE DEF gs
<1>2. ASSUME NEW i \in 0..Keep, gs[i] # NoFile
      PROVE  /\ \A x \in 1..Len(gs[i]) : gs[i][x].n \in 1..e
             /\ \A x, y \in 1..Len(gs[i]) : x < y => gs[i][x].n < gs[i][y].n
  <2>1. PICK s \in 0..Keep : gs[i] = fs[s]
    BY <1>1, <1>2
  <2> QED BY <1>2, <2>1 DEF Ordered
<1>3. ASSUME NEW i \in 0..Keep, NEW j \in 0..Keep, gs[i] # NoFile, gs[j] # NoFile, i < j
      PROVE  \A x \in 1..Len(gs[j]), y \in 1..Len(gs[i]) : gs[j][x].n < gs[i][y].n
  <2>1. PICK s \in 0..Keep, t \in 0..Keep : s < t /\ gs[i] = fs[s] /\ gs[j] = fs[t]
    BY <1>1, <1>3
  <2> QED BY <1>3, <2>1 DEF Ordered
<1>4. Ordered(gs, e)
  BY <1>2, <1>3 DEF Ordered
<1> QED BY <1>4 DEF gs

\* The files of a log of which no rename failed: the later names are taken first, none is
\* short, and the trail is the end of what was written, all of it until a file is dropped.
Rotated(fs, w) ==
  /\ Suffix(TrailOf(fs), w)
  /\ Len(TrailOf(fs)) = Len(w) \/ \A i \in 1..Keep : fs[i] # NoFile
  /\ \A i \in 1..Keep : fs[i] # NoFile => Len(fs[i]) >= RotateAt
  /\ \A i \in 2..Keep : fs[i] # NoFile => fs[i - 1] # NoFile

\* A rotation without failures keeps it so.
LEMMA ShiftedRotated ==
  ASSUME NEW fs \in Files, NEW w \in Seq(Nat), NEW unlinked \in BOOLEAN, Rotated(fs, w),
         fs[0] # NoFile, Len(fs[0]) >= RotateAt
  PROVE  Rotated(Shifted(fs, {}, unlinked), w)
<1> DEFINE gs == Shifted(fs, {}, unlinked)
           moves(i) == i \in 1..Keep /\ fs[i - 1] # NoFile
           dropped(i) == i = Keep /\ i > 0 /\ fs[i - 1] # NoFile /\ unlinked
<1>0. Keep \in Nat /\ gs \in Files
  BY LogAssumption, ShiftedSources
<1>1. gs = [i \in 0..Keep |-> IF moves(i) THEN fs[i - 1]
                              ELSE IF moves(i + 1) \/ dropped(i) THEN NoFile
                              ELSE fs[i]]
  BY DEF Shifted
<1> HIDE DEF gs
<1>2. CASE Keep = 0
  <2>1. \A i \in 0..Keep : ~moves(i) /\ ~moves(i + 1) /\ ~dropped(i)
    BY <1>2
  <2>2. \A i \in 0..Keep : gs[i] = fs[i]
    <3> HIDE DEF moves, dropped
    <3> QED BY <1>1, <2>1
  <2>3. gs = fs
    BY <1>0, <2>2 DEF Files
  <2> QED BY <2>3 DEF gs
<1>3. CASE Keep # 0
  <2>1. gs[0] = NoFile
    <3>1. ~moves(0) /\ moves(0 + 1)
      BY <1>0, <1>3
    <3> HIDE DEF moves, dropped
    <3> QED BY <1>0, <1>1, <3>1
  <2>2. ASSUME NEW i \in 1..Keep PROVE gs[i] = fs[i - 1]
    <3>1. CASE fs[i - 1] # NoFile
      <4>1. moves(i)
        BY <3>1
      <4> HIDE DEF moves, dropped
      <4> QED BY <1>0, <1>1, <4>1
    <3>2. CASE fs[i - 1] = NoFile
      <4>1. i \in 2..Keep /\ fs[i] = NoFile /\ ~moves(i)
        BY <1>0, <3>2 DEF Rotated
      <4> HIDE DEF moves, dropped
      <4> QED BY <1>0, <1>1, <3>2, <4>1
    <3> QED BY <3>1, <3>2
  <2>3. Contents(gs[0]) = <<>> /\ \A i \in 1..Keep : Contents(gs[i]) = Contents(fs[i - 1])
    BY <2>1, <2>2, NoFileType
  <2> DEFINE c == Contents(fs[Keep])
             t == TrailOf(gs)
  <2>4. c \in Seq(Line) /\ t \in Seq(Line) /\ TrailOf(fs) = c \o t
    <3>1. c \in Seq(Line)
      BY <1>0, ContentsType DEF Files
    <3>2. t \in Seq(Line) /\ TrailOf(fs) = c \o t
      BY <1>0, <1>3, <2>3, TrailShift
    <3> QED BY <3>1, <3>2
  <2>5. Suffix(t, w)
    <3> HIDE DEF c, t
    <3> QED BY <2>4, SuffixDrop DEF Rotated
  <2>6. Len(t) = Len(w) \/ \A i \in 1..Keep : gs[i] # NoFile
    <3>1. CASE fs[Keep] = NoFile
      <4>1. c = <<>>
        BY <3>1, NoFileType
      <4>2. c \o t = t
        <5> HIDE DEF c, t
        <5> QED BY <2>4, <4>1
      <4>3. \E i \in 1..Keep : fs[i] = NoFile
        BY <1>0, <1>3, <3>1
      <4> QED BY <2>4, <4>2, <4>3 DEF Rotated
    <3>2. CASE fs[Keep] # NoFile
      <4> DEFINE T == {k \in 0..(Keep - 1) : fs[Keep - k] # NoFile}
      <4>1. 0 \in T
        BY <1>0, <1>3, <3>2
      <4>2. ASSUME NEW k \in 1..(Keep - 1), k - 1 \in T PROVE k \in T
        <5>1. Keep - (k - 1) \in 2..Keep /\ (Keep - (k - 1)) - 1 = Keep - k
          BY <1>0
        <5>2. fs[Keep - (k - 1)] # NoFile
          BY <4>2
        <5> QED BY <5>1, <5>2 DEF Rotated
      <4> HIDE DEF T
      <4>3. 0..(Keep - 1) \subseteq T
        BY <1>0, <1>3, <4>1, <4>2, UpTo
      <4>4. ASSUME NEW i \in 1..Keep PROVE gs[i] # NoFile
        <5>1. CASE i = 1
          BY <2>2, <5>1
        <5>2. CASE i # 1
          <6>1. Keep - (i - 1) \in 0..(Keep - 1) /\ Keep - (Keep - (i - 1)) = i - 1
            BY <1>0, <5>2
          <6>2. fs[i - 1] # NoFile
            BY <4>3, <6>1 DEF T
          <6> QED BY <2>2, <6>2
        <5> QED BY <5>1, <5>2
      <4> QED BY <4>4
    <3> QED BY <3>1, <3>2
  <2>7. ASSUME NEW i \in 1..Keep, gs[i] # NoFile PROVE Len(gs[i]) >= RotateAt
    <3>1. gs[i] = fs[i - 1]
      BY <2>2
    <3>2. CASE i = 1
      BY <3>1, <3>2
    <3>3. CASE i # 1
      <4>1. i - 1 \in 1..Keep
        BY <1>0, <3>3
      <4> QED BY <2>7, <3>1, <4>1 DEF Rotated
    <3> QED BY <3>2, <3>3
  <2>8. ASSUME NEW i \in 2..Keep, gs[i] # NoFile PROVE gs[i - 1] # NoFile
    <3>1. i \in 1..Keep /\ i - 1 \in 1..Keep
      BY <1>0
    <3>2. gs[i] = fs[i - 1] /\ gs[i - 1] = fs[(i - 1) - 1]
      BY <2>2, <3>1
    <3>3. CASE i = 2
      BY <3>2, <3>3
    <3>4. CASE i # 2
      <4>1. i - 1 \in 2..Keep
        BY <1>0, <3>4
      <4> QED BY <2>8, <3>2, <4>1 DEF Rotated
    <3> QED BY <3>3, <3>4
  <2> HIDE DEF c, t
  <2>9. Rotated(gs, w)
    BY <2>5, <2>6, <2>7, <2>8 DEF Rotated, t
  <2> QED BY <2>9 DEF gs
<1> QED BY <1>2, <1>3

-------------------------------------------------------------------------------
(***************************************************************************)
(* The invariant of the audit log.                                         *)
(***************************************************************************)
TelemetryTypes ==
  TelemetryTypeOK /\ files \in Files /\ events \in Nat /\ written \in Seq(Nat)

\* An open log has its file and knows its length.
Opened == fd => files[0] # NoFile /\ bytes = Len(files[0])

LogInv ==
  /\ TelemetryTypes
  /\ Ordered(files, events)
  /\ Opened
  /\ ~faulty => Rotated(files, written)

\* Opening a log changes no line: it makes the file if there is none.
LEMMA OpenKeeps ==
  ASSUME NEW fs \in Files, bytes \in Nat, OpenLog(fs) \/ OpenFails(fs)
  PROVE  /\ files' \in Files /\ fd' \in BOOLEAN /\ bytes' \in Nat /\ Opened'
         /\ \A e \in Nat : Ordered(fs, e) => Ordered(files', e)
         /\ \A w \in Seq(Nat) : Rotated(fs, w) => Rotated(files', w)
<1>0. Keep \in Nat /\ fs[0] \in Seq(Line) /\ <<>> \in Seq(Line) /\ <<>> # NoFile
  BY LogAssumption DEF Files, NoFile
<1>1. CASE OpenFails(fs)
  BY <1>1 DEF OpenFails, Opened
<1>2. CASE OpenLog(fs)
  <2>1. files' \in Files /\ fd' = TRUE /\ files'[0] = (IF fs[0] = NoFile THEN <<>> ELSE fs[0])
        /\ \A i \in 1..Keep : files'[i] = fs[i]
    BY <1>0, <1>2 DEF OpenLog, Files
  <2>2. bytes' \in Nat /\ Opened'
    <3>1. Len(fs[0]) \in Nat /\ Len(<<>>) = 0
      BY <1>0
    <3> QED BY <1>0, <1>2, <2>1, <3>1 DEF OpenLog, Opened
  <2>3. ASSUME NEW e \in Nat, Ordered(fs, e) PROVE Ordered(files', e)
    <3> DEFINE gs == files'
    <3>1. \A i \in 0..Keep : gs[i] = fs[i] \/ gs[i] = <<>>
      BY <1>0, <2>1
    <3> HIDE DEF gs
    <3>2. ASSUME NEW i \in 0..Keep, gs[i] # NoFile
          PROVE  /\ \A x \in 1..Len(gs[i]) : gs[i][x].n \in 1..e
                 /\ \A x, y \in 1..Len(gs[i]) : x < y => gs[i][x].n < gs[i][y].n
      <4>1. CASE gs[i] = fs[i]
        BY <2>3, <3>2, <4>1 DEF Ordered
      <4>2. CASE gs[i] = <<>>
        BY <4>2
      <4> QED BY <3>1, <4>1, <4>2
    <3>3. ASSUME NEW i \in 0..Keep, NEW j \in 0..Keep, gs[i] # NoFile, gs[j] # NoFile, i < j
          PROVE  \A x \in 1..Len(gs[j]), y \in 1..Len(gs[i]) : gs[j][x].n < gs[i][y].n
      <4>1. CASE gs[i] = fs[i] /\ gs[j] = fs[j]
        BY <2>3, <3>3, <4>1 DEF Ordered
      <4>2. CASE gs[i] = <<>> \/ gs[j] = <<>>
        BY <4>2
      <4> QED BY <3>1, <4>1, <4>2
    <3>4. Ordered(gs, e)
      BY <3>2, <3>3 DEF Ordered
    <3> QED BY <3>4 DEF gs
  <2>4. ASSUME NEW w \in Seq(Nat), Rotated(fs, w) PROVE Rotated(files', w)
    <3> DEFINE gs == files'
    <3>1. \A i \in 0..Keep : Contents(gs[i]) = Contents(fs[i])
      BY <1>0, <2>1 DEF Contents
    <3>2. gs \in Files
      BY <2>1
    <3>3. \A i \in 1..Keep : gs[i] = fs[i]
      BY <2>1
    <3>4. \A i \in 2..Keep : fs[i] # NoFile => fs[i - 1] # NoFile
      BY <2>4 DEF Rotated
    <3> HIDE DEF gs
    <3>5. TrailOf(gs) = TrailOf(fs)
      BY <3>1, <3>2, TrailSame
    <3>6. \A i \in 2..Keep : gs[i] # NoFile => gs[i - 1] # NoFile
      BY <1>0, <3>3, <3>4
    <3>7. Rotated(gs, w)
      BY <2>4, <3>3, <3>5, <3>6 DEF Rotated
    <3> QED BY <3>7 DEF gs
  <2> QED BY <2>1, <2>2, <2>3, <2>4
<1> QED BY <1>1, <1>2

\* A line is put at the end of audit.log.
LEMMA LineKeeps ==
  ASSUME LogInv, fd, NEW whole \in BOOLEAN, NEW n, n = events + 1,
         NEW gs, gs = [files EXCEPT ![0] = Append(@, [n |-> n, newline |-> whole])]
  PROVE  /\ gs \in Files /\ gs[0] # NoFile /\ Len(gs[0]) = bytes + 1
         /\ Ordered(gs, n)
         /\ Append(written, n) \in Seq(Nat)
         /\ ~faulty => Rotated(gs, Append(written, n))
<1> DEFINE line == [n |-> n, newline |-> whole]
<1>0. /\ Keep \in Nat /\ files \in Files /\ events \in Nat /\ files[0] # NoFile /\ n \in Nat /\ n # 0
      /\ bytes = Len(files[0]) /\ written \in Seq(Nat) /\ Ordered(files, events)
  BY LogAssumption DEF LogInv, Opened, TelemetryTypes
<1>1. line \in Line /\ line.n = n
  BY <1>0 DEF Line
<1> HIDE DEF line
<1>2. gs = [files EXCEPT ![0] = Append(@, line)]
  BY DEF line
<1>3. /\ gs \in Files /\ gs[0] # NoFile /\ TrailOf(gs) = Append(TrailOf(files), line)
      /\ TrailOf(files) \in Seq(Line)
  BY <1>0, <1>1, <1>2, TrailAppend
<1>4. /\ files[0] \in Seq(Line) /\ gs[0] = Append(files[0], line)
      /\ \A i \in 1..Keep : gs[i] = files[i] /\ i \in 0..Keep /\ i # 0
  BY <1>0, <1>2 DEF Files
<1>5. /\ Len(gs[0]) = Len(files[0]) + 1 /\ Len(files[0]) \in Nat
      /\ gs[0][Len(files[0]) + 1] = line
      /\ \A x \in 1..Len(files[0]) : gs[0][x] = files[0][x]
  BY <1>1, <1>4
<1>6. Ordered(gs, n)
  <2>1. ASSUME NEW i \in 0..Keep, files[i] # NoFile, NEW x \in 1..Len(files[i])
        PROVE  files[i][x].n \in 1..n /\ files[i][x].n < n
    <3>1. files[i][x].n \in 1..events
      BY <1>0, <2>1 DEF Ordered
    <3> QED BY <1>0, <3>1
  <2>2. ASSUME NEW x \in 1..Len(gs[0])
        PROVE  /\ gs[0][x].n \in 1..n
               /\ \A y \in 1..Len(gs[0]) : x < y => gs[0][x].n < gs[0][y].n
    <3>1. CASE x = Len(files[0]) + 1
      BY <1>0, <1>1, <1>5, <3>1
    <3>2. CASE x # Len(files[0]) + 1
      <4>1. x \in 1..Len(files[0]) /\ gs[0][x] = files[0][x]
        BY <1>5, <3>2
      <4>2. files[0][x].n \in 1..n /\ files[0][x].n < n
        BY <1>0, <2>1, <4>1
      <4>3. ASSUME NEW y \in 1..Len(gs[0]), x < y PROVE gs[0][x].n < gs[0][y].n
        <5>1. CASE y = Len(files[0]) + 1
          BY <1>1, <1>5, <4>1, <4>2, <5>1
        <5>2. CASE y # Len(files[0]) + 1
          <6>1. y \in 1..Len(files[0]) /\ gs[0][y] = files[0][y]
            BY <1>5, <5>2
          <6> QED BY <1>0, <4>1, <4>3, <6>1 DEF Ordered
        <5> QED BY <5>1, <5>2
      <4> QED BY <4>1, <4>2, <4>3
    <3> QED BY <3>1, <3>2
  <2>3. ASSUME NEW i \in 1..Keep, gs[i] # NoFile
        PROVE  /\ \A x \in 1..Len(gs[i]) : gs[i][x].n \in 1..n
               /\ \A x, y \in 1..Len(gs[i]) : x < y => gs[i][x].n < gs[i][y].n
               /\ \A x \in 1..Len(gs[i]), y \in 1..Len(gs[0]) : gs[i][x].n < gs[0][y].n
    <3>1. gs[i] = files[i] /\ i \in 0..Keep /\ 0 < i /\ 0 \in 0..Keep
      BY <1>0, <1>4
    <3>2. ASSUME NEW x \in 1..Len(gs[i]), NEW y \in 1..Len(gs[0]) PROVE gs[i][x].n < gs[0][y].n
      <4>1. CASE y = Len(files[0]) + 1
        BY <1>1, <1>5, <2>1, <2>3, <3>1, <4>1
      <4>2. CASE y # Len(files[0]) + 1
        <5>1. y \in 1..Len(files[0]) /\ gs[0][y] = files[0][y]
          BY <1>5, <4>2
        <5> QED BY <1>0, <2>3, <3>1, <5>1 DEF Ordered
      <4> QED BY <4>1, <4>2
    <3>3. \A x, y \in 1..Len(gs[i]) : x < y => gs[i][x].n < gs[i][y].n
      BY <1>0, <2>3, <3>1 DEF Ordered
    <3> QED BY <2>1, <2>3, <3>1, <3>2, <3>3
  <2>4. ASSUME NEW i \in 0..Keep, NEW j \in 0..Keep, gs[i] # NoFile, gs[j] # NoFile, i < j
        PROVE  \A x \in 1..Len(gs[j]), y \in 1..Len(gs[i]) : gs[j][x].n < gs[i][y].n
    <3>1. j \in 1..Keep
      BY <1>0, <2>4
    <3>2. CASE i = 0
      BY <2>3, <2>4, <3>1, <3>2
    <3>3. CASE i # 0
      <4>1. gs[i] = files[i] /\ gs[j] = files[j]
        BY <1>0, <1>4, <3>1, <3>3
      <4> QED BY <1>0, <2>4, <4>1 DEF Ordered
    <3> QED BY <3>2, <3>3
  <2>5. ASSUME NEW i \in 0..Keep, gs[i] # NoFile
        PROVE  /\ \A x \in 1..Len(gs[i]) : gs[i][x].n \in 1..n
               /\ \A x, y \in 1..Len(gs[i]) : x < y => gs[i][x].n < gs[i][y].n
    <3>1. CASE i = 0
      BY <2>2, <3>1
    <3>2. CASE i # 0
      BY <1>0, <2>3, <2>5, <3>2
    <3> QED BY <3>1, <3>2
  <2> QED BY <2>4, <2>5 DEF Ordered
<1>7. Append(written, n) \in Seq(Nat)
  BY <1>0
<1>8. ASSUME ~faulty PROVE Rotated(gs, Append(written, n))
  <2>1. Rotated(files, written)
    BY <1>8 DEF LogInv
  <2>2. Suffix(TrailOf(gs), Append(written, n))
    BY <1>0, <1>1, <1>3, <2>1, SuffixAppend DEF Rotated
  <2>3. Len(TrailOf(gs)) = Len(TrailOf(files)) + 1 /\ Len(Append(written, n)) = Len(written) + 1
    BY <1>0, <1>1, <1>3
  <2>4. \A i \in 2..Keep : i \in 1..Keep /\ i - 1 \in 1..Keep
    BY <1>0
  <2> QED BY <1>4, <2>1, <2>2, <2>3, <2>4 DEF Rotated
<1> QED BY <1>0, <1>3, <1>5, <1>6, <1>7, <1>8

LEMMA RotateKeeps ==
  ASSUME NEW fs \in Files, NEW e \in Nat, NEW w \in Seq(Nat), bytes \in Nat, faulty \in BOOLEAN,
         Ordered(fs, e), ~faulty => Rotated(fs, w), fs[0] # NoFile, Len(fs[0]) >= RotateAt,
         Rotate(fs)
  PROVE  /\ files' \in Files /\ fd' \in BOOLEAN /\ bytes' \in Nat /\ Opened' /\ faulty' \in BOOLEAN
         /\ Ordered(files', e)
         /\ ~faulty' => Rotated(files', w)
<1>1. PICK failed \in SUBSET (1..Keep), unlinked \in BOOLEAN :
        /\ OpenLog(Shifted(fs, failed, unlinked)) \/ OpenFails(Shifted(fs, failed, unlinked))
        /\ faulty' = (faulty \/ failed # {})
  BY DEF Rotate
<1> DEFINE moved == Shifted(fs, failed, unlinked)
<1>2. moved \in Files /\ Ordered(moved, e)
  BY ShiftedSources, ShiftedOrdered
<1>3. ~faulty' => Rotated(moved, w)
  <2> SUFFICES ASSUME ~faulty' PROVE Rotated(moved, w)
    OBVIOUS
  <2>1. ~faulty /\ failed = {}
    BY <1>1
  <2> QED BY <2>1, ShiftedRotated
<1> HIDE DEF moved
<1>4. OpenLog(moved) \/ OpenFails(moved)
  BY <1>1 DEF moved
<1>5. /\ files' \in Files /\ fd' \in BOOLEAN /\ bytes' \in Nat /\ Opened'
      /\ Ordered(moved, e) => Ordered(files', e)
      /\ Rotated(moved, w) => Rotated(files', w)
  BY <1>2, <1>4, OpenKeeps
<1> QED BY <1>1, <1>2, <1>3, <1>5

\* The file part of an event.
LEMMA LogEventKeeps ==
  ASSUME LogInv, NEW n, n = events + 1, LogEvent(n)
  PROVE  /\ files' \in Files /\ fd' \in BOOLEAN /\ bytes' \in Nat /\ Opened' /\ faulty' \in BOOLEAN
         /\ broken' \in BOOLEAN /\ written' \in Seq(Nat)
         /\ Ordered(files', n)
         /\ ~faulty' => Rotated(files', written')
<1>0. /\ files \in Files /\ fd \in BOOLEAN /\ bytes \in Nat /\ faulty \in BOOLEAN /\ broken \in BOOLEAN
      /\ written \in Seq(Nat) /\ events \in Nat /\ n \in Nat /\ RotateAt \in Nat
  BY LogAssumption DEF LogInv, TelemetryTypes, TelemetryTypeOK
<1>1. CASE fd /\ WriteLine(n)
  <2>1. PICK whole \in BOOLEAN :
          LET fs == [files EXCEPT ![0] = Append(@, [n |-> n, newline |-> whole])]
          IN IF RotateAt > 0 /\ bytes + 1 >= RotateAt THEN Rotate(fs)
             ELSE files' = fs /\ bytes' = bytes + 1 /\ UNCHANGED <<fd, faulty>>
    BY <1>1 DEF WriteLine
  <2> DEFINE fs == [files EXCEPT ![0] = Append(@, [n |-> n, newline |-> whole])]
  <2>2. written' = Append(written, n) /\ broken' = broken
    BY <1>1 DEF WriteLine
  <2>3. /\ fs \in Files /\ fs[0] # NoFile /\ Len(fs[0]) = bytes + 1
        /\ Ordered(fs, n) /\ written' \in Seq(Nat)
        /\ ~faulty => Rotated(fs, written')
    BY <1>1, <2>2, LineKeeps
  <2>4. CASE RotateAt > 0 /\ bytes + 1 >= RotateAt
    <3>1. Rotate(fs)
      BY <2>1, <2>4
    <3> HIDE DEF fs
    <3>2. Len(fs[0]) >= RotateAt
      BY <2>3, <2>4
    <3> QED BY <1>0, <2>2, <2>3, <3>1, <3>2, RotateKeeps
  <2>5. CASE ~(RotateAt > 0 /\ bytes + 1 >= RotateAt)
    <3>1. files' = fs /\ bytes' = bytes + 1 /\ fd' = fd /\ faulty' = faulty
      BY <2>1, <2>5
    <3> HIDE DEF fs
    <3> QED BY <1>0, <2>2, <2>3, <3>1 DEF Opened
  <2> QED BY <2>4, <2>5
<1>2. CASE UNCHANGED <<files, fd, bytes, written, faulty>> /\ (broken' = TRUE \/ UNCHANGED broken)
  <2>1. Ordered(files, n)
    <3>1. \A k \in 1..events : k \in 1..n
      BY <1>0
    <3>2. Ordered(files, events)
      BY DEF LogInv
    <3> QED BY <3>1, <3>2 DEF Ordered
  <2> QED BY <1>0, <1>2, <2>1 DEF LogInv, Opened
<1> QED BY <1>1, <1>2 DEF LogEvent, log

LEMMA LogStart == TelemetryInit => LogInv
<1> SUFFICES ASSUME TelemetryInit PROVE LogInv
  OBVIOUS
<1>0. Keep \in Nat
  BY LogAssumption
<1>1. TelemetryTypes
  <2>1. files \in Files
    BY NoFileType DEF TelemetryInit, Files
  <2>2. written \in Seq(Nat)
    BY DEF TelemetryInit
  <2> QED BY <2>1, <2>2 DEF TelemetryInit, TelemetryTypes, TelemetryTypeOK
<1>2. Ordered(files, events) /\ Opened
  BY DEF TelemetryInit, Ordered, Opened
<1>3. Rotated(files, written)
  <2>1. TrailOf(files) = <<>>
    <3>1. PICK d : Downward(d, files) /\ TrailOf(files) = d[Keep]
      BY <1>1, TrailFacts DEF TelemetryTypes
    <3> DEFINE T == {k \in 0..Keep : d[k] = <<>>}
    <3>2. \A k \in 0..Keep : Contents(files[k]) = <<>>
      BY NoFileType DEF TelemetryInit
    <3>3. 0 \in T
      BY <1>0, <3>1, <3>2 DEF Downward
    <3>4. ASSUME NEW k \in 1..Keep, k - 1 \in T PROVE k \in T
      <4>0. k \in 0..Keep
        BY <1>0
      <4>1. d[k] = Contents(files[k]) \o d[k - 1]
        BY <3>1 DEF Downward
      <4>2. d[k] = <<>> \o <<>>
        BY <3>2, <3>4, <4>0, <4>1
      <4> QED BY <4>0, <4>2
    <3> HIDE DEF T
    <3>5. 0..Keep \subseteq T
      BY <1>0, <3>3, <3>4, UpTo
    <3> QED BY <1>0, <3>1, <3>5 DEF T
  <2>2. written = <<>> /\ \A i \in 1..Keep : files[i] = NoFile
    BY <1>0 DEF TelemetryInit
  <2> QED BY <2>1, <2>2 DEF Rotated, Suffix
<1> QED BY <1>1, <1>2, <1>3 DEF LogInv

LEMMA LogStep == LogInv /\ [TelemetryNext]_telemetryVars => LogInv'
<1> SUFFICES ASSUME LogInv, [TelemetryNext]_telemetryVars PROVE LogInv'
  OBVIOUS
<1>0. /\ TelemetryTypes /\ Ordered(files, events) /\ Opened /\ (~faulty => Rotated(files, written))
      /\ events \in Nat /\ written \in Seq(Nat) /\ files \in Files /\ bytes \in Nat
  BY DEF LogInv, TelemetryTypes, TelemetryTypeOK
<1>1. CASE Event
  <2>1. events' = events + 1 /\ LogEvent(events') /\ Push(AuditToSpan(events'))
    BY <1>1 DEF Event
  <2>2. /\ files' \in Files /\ fd' \in BOOLEAN /\ bytes' \in Nat /\ Opened' /\ faulty' \in BOOLEAN
        /\ broken' \in BOOLEAN /\ written' \in Seq(Nat)
        /\ Ordered(files', events')
        /\ ~faulty' => Rotated(files', written')
    BY <2>1, LogEventKeeps
  <2>3. timer' \in BOOLEAN /\ waiting' = waiting /\ up' = up
    BY <1>0, <1>1, <2>1 DEF Event, Push, TelemetryTypes, TelemetryTypeOK
  <2>4. DOMAIN files' = 0..Keep
    BY <2>2 DEF Files
  <2> QED BY <1>0, <2>1, <2>2, <2>3, <2>4 DEF LogInv, TelemetryTypes, TelemetryTypeOK
<1>2. CASE Boot
  <2>1. OpenLog(files) \/ OpenFails(files)
    BY <1>2 DEF Boot
  <2>2. /\ files' \in Files /\ fd' \in BOOLEAN /\ bytes' \in Nat /\ Opened'
        /\ Ordered(files', events)
        /\ ~faulty => Rotated(files', written)
    BY <1>0, <2>1, OpenKeeps
  <2>3. DOMAIN files' = 0..Keep
    BY <2>2 DEF Files
  <2> QED BY <1>0, <1>2, <2>2, <2>3 DEF Boot, exporter, LogInv, TelemetryTypes, TelemetryTypeOK
<1>3. CASE Flush
  <2>1. UNCHANGED <<up, files, fd, broken, bytes, written, faulty, events>>
    BY <1>3 DEF Flush, log
  <2>2. timer' = FALSE /\ waiting' = waiting + 1
    BY <1>3 DEF Flush
  <2>3. waiting' \in Nat
    BY <1>0, <2>2 DEF TelemetryTypes, TelemetryTypeOK
  <2> QED BY <1>0, <2>1, <2>2, <2>3 DEF LogInv, TelemetryTypes, TelemetryTypeOK, Opened
<1>4. CASE PostEnds
  BY <1>0, <1>4 DEF PostEnds, log, LogInv, TelemetryTypes, TelemetryTypeOK, Opened
<1>5. CASE Down
  BY <1>0, <1>5 DEF Down, LogInv, TelemetryTypes, TelemetryTypeOK, Opened
<1>6. CASE UNCHANGED telemetryVars
  BY <1>0, <1>6 DEF telemetryVars, log, exporter, LogInv, TelemetryTypes, TelemetryTypeOK, Opened
<1> QED BY <1>1, <1>2, <1>3, <1>4, <1>5, <1>6 DEF TelemetryNext

\* The invariant holds in every state of the log.
THEOREM LogInvariant == TelemetrySpec => []LogInv
  BY LogStart, LogStep, PTL DEF TelemetrySpec

\* TelemetryTypeOK: the variables keep their types.
THEOREM TelemetryTypesHold == TelemetrySpec => []TelemetryTypeOK
  BY LogInvariant, PTL DEF LogInv, TelemetryTypes

\* TrailKept: whatever is cut, renamed, or not renamed, the files hold the lines in the order
\* of their events; and without failures they hold the last ones, none of them missing, and
\* at least Keep files' worth (rotate of audit.mjs).
THEOREM TrailIsKept == TelemetrySpec => []TrailKept
<1>1. LogInv => TrailKept
  <2> SUFFICES ASSUME LogInv PROVE TrailKept
    OBVIOUS
  <2> DEFINE t == Trail
  <2>1. files \in Files /\ events \in Nat /\ written \in Seq(Nat) /\ Keep \in Nat /\ RotateAt \in Nat
    BY LogAssumption DEF LogInv, TelemetryTypes
  <2>2. t \in Seq(Line) /\ Increasing(t)
    BY <2>1, TrailOrdered DEF LogInv, Trail
  <2>3. ~faulty => Suffix(t, written)
    BY DEF LogInv, Rotated, Trail
  <2>4. ~faulty => Len(t) >= Len(written) \/ Len(t) >= Keep * RotateAt
    <3> SUFFICES ASSUME ~faulty PROVE Len(t) >= Len(written) \/ Len(t) >= Keep * RotateAt
      OBVIOUS
    <3>1. CASE Len(t) = Len(written)
      <4>1. Len(written) \in Nat
        BY <2>1
      <4> HIDE DEF t
      <4> QED BY <3>1, <4>1
    <3>2. CASE Len(t) # Len(written)
      <4>1. \A i \in 1..Keep : files[i] # NoFile /\ Len(files[i]) >= RotateAt
        BY <3>2 DEF LogInv, Rotated, Trail
      <4> QED BY <2>1, <4>1, TrailLong DEF Trail
    <3> QED BY <3>1, <3>2
  <2> HIDE DEF t
  <2>5. DOMAIN t = 1..Len(t)
    BY <2>2
  <2> QED BY <2>2, <2>3, <2>4, <2>5 DEF TrailKept, Increasing, Suffix, t
<1> QED BY <1>1, LogInvariant, PTL

-------------------------------------------------------------------------------
(***************************************************************************)
(* The spans of an exporter.                                               *)
(***************************************************************************)
Span == {DeriveTraceContext(n) : n \in Nat}

\* The spans that were posted and those that wait, in one sequence.
Sent == posted \o buf

\* They are in the order of their events, none twice.
SpansInOrder ==
  \A i, j \in DOMAIN Sent : i < j => Sent[i].span < Sent[j].span

\* The span of every traced event is posted, waits, or went down with its process.
SpansAccounted ==
  \A n \in 1..events :
    Reported[n].traced => DeriveTraceContext(n) \in Range(Sent) \cup lost

ExportInv ==
  /\ events \in Nat /\ buf \in Seq(Span) /\ posted \in Seq(Span)
  /\ \A i \in DOMAIN Sent : Sent[i].span <= events
  /\ SpansInOrder /\ SpansAccounted

LEMMA SpanType ==
  ASSUME NEW n \in Nat
  PROVE  DeriveTraceContext(n) \in Span /\ DeriveTraceContext(n).span = n
  BY DEF Span, DeriveTraceContext

LEMMA SpanNumbers == \A s \in Span : s.span \in Nat
  BY SpanType DEF Span

\* splice takes the front of the buffer and leaves the rest: nothing is lost between them.
LEMMA SpliceKeepsAll ==
  ASSUME NEW s \in Seq(Span)
  PROVE  Batch(s) \in Seq(Span) /\ Rest(s) \in Seq(Span) /\ Batch(s) \o Rest(s) = s
<1>1. BatchMax \in Nat /\ Len(s) \in Nat /\ BatchMax >= 1
  BY BatchAssumption
<1> DEFINE m == IF BatchMax <= Len(s) THEN BatchMax ELSE Len(s)
<1>2. Min({BatchMax, Len(s)}) = m
  BY <1>1 DEF Min
<1>3. m \in Nat /\ m <= Len(s) /\ (m = BatchMax \/ (m = Len(s) /\ BatchMax > m))
  BY <1>1
<1> HIDE DEF m
<1>4. Batch(s) = SubSeq(s, 1, m)
  BY <1>2 DEF Batch
<1>5. Batch(s) \in Seq(Span) /\ Len(Batch(s)) = m /\ \A i \in 1..m : Batch(s)[i] = s[i]
  BY <1>3, <1>4
<1>6. /\ Rest(s) \in Seq(Span) /\ Len(Rest(s)) = Len(s) - m
      /\ \A i \in 1..Len(s) - m : Rest(s)[i] = s[m + i]
  <2>1. CASE m = BatchMax
    BY <1>1, <1>3, <2>1 DEF Rest
  <2>2. CASE m = Len(s) /\ BatchMax > m
    <3>1. Rest(s) = <<>>
      BY <1>1, <2>2 DEF Rest
    <3> QED BY <1>1, <2>2, <3>1
  <2> QED BY <1>3, <2>1, <2>2
<1> DEFINE f == Batch(s)
           g == Rest(s)
           t == f \o g
<1>5a. f \in Seq(Span) /\ Len(f) = m /\ \A i \in 1..m : f[i] = s[i]
  BY <1>5
<1>6a. g \in Seq(Span) /\ Len(g) = Len(s) - m /\ \A i \in 1..Len(s) - m : g[i] = s[m + i]
  BY <1>6
<1> HIDE DEF f, g
<1>7. t \in Seq(Span) /\ Len(t) = Len(s)
  <2>0. f \in Seq(Span) /\ g \in Seq(Span)
    BY <1>5a, <1>6a
  <2>1. t \in Seq(Span) /\ Len(t) = Len(f) + Len(g)
    BY <2>0
  <2> QED BY <1>1, <1>3, <1>5a, <1>6a, <2>1
<1>8. ASSUME NEW i \in 1..Len(s) PROVE t[i] = s[i]
  <2>1. CASE i <= m
    BY <1>1, <1>3, <1>5a, <1>6a, <2>1
  <2>2. CASE i > m
    <3>1. t[i] = g[i - m]
      BY <1>1, <1>3, <1>5a, <1>6a, <2>2
    <3>2. i - m \in 1..Len(s) - m /\ m + (i - m) = i
      BY <1>1, <1>3, <2>2
    <3> QED BY <1>6a, <3>1, <3>2
  <2>3. i <= m \/ i > m
    BY <1>1, <1>3
  <2> QED BY <2>1, <2>2, <2>3
<1> HIDE DEF t
<1>9. t = s
  BY <1>7, <1>8, SeqEqual
<1> QED BY <1>5, <1>6, <1>9 DEF t, f, g

LEMMA ConcatAgain ==
  ASSUME NEW a \in Seq(Span), NEW b \in Seq(Span), NEW c \in Seq(Span)
  PROVE  (a \o b) \o c = a \o (b \o c)
  BY ConcatAssociative

\* What is pushed comes last, whether or not it fills the buffer.
LEMMA PushAppends ==
  ASSUME buf \in Seq(Span), posted \in Seq(Span), NEW span \in Seq(Span), Push(span)
  PROVE  buf' \in Seq(Span) /\ posted' \in Seq(Span) /\ Sent' = Sent \o span
<1> DEFINE all == buf \o span
<1>1. all \in Seq(Span)
  OBVIOUS
<1>2. Sent \o span = posted \o all
  BY ConcatAgain DEF Sent
<1> HIDE DEF all
<1>3. CASE posted' = posted \o Batch(all) /\ buf' = Rest(all)
  <2>1. Batch(all) \in Seq(Span) /\ Rest(all) \in Seq(Span) /\ Batch(all) \o Rest(all) = all
    BY <1>1, SpliceKeepsAll
  <2> DEFINE f == Batch(all)
             g == Rest(all)
  <2>1a. f \in Seq(Span) /\ g \in Seq(Span) /\ f \o g = all
    BY <2>1
  <2> HIDE DEF f, g
  <2>2a. (posted \o f) \o g = posted \o all
    BY <2>1a, ConcatAgain
  <2>2. (posted \o Batch(all)) \o Rest(all) = posted \o all
    BY <2>2a DEF f, g
  <2>3. posted' \in Seq(Span)
    BY <1>3, <2>1
  <2> QED BY <1>2, <1>3, <2>1, <2>2, <2>3 DEF Sent
<1>4. CASE posted' = posted /\ buf' = all
  BY <1>1, <1>2, <1>4 DEF Sent
<1>5. Push(span) => (posted' = posted \o Batch(all) /\ buf' = Rest(all)) \/ (posted' = posted /\ buf' = all)
  BY DEF Push, all
<1> QED BY <1>3, <1>4, <1>5

LEMMA ExportStart == TelemetryInit => ExportInv
<1> SUFFICES ASSUME TelemetryInit PROVE ExportInv
  OBVIOUS
<1>1. Sent = <<>> /\ buf \in Seq(Span) /\ posted \in Seq(Span) /\ events = 0
  BY DEF TelemetryInit, Sent
<1>2. DOMAIN Sent = {} /\ 1..events = {}
  BY <1>1
<1> QED BY <1>1, <1>2 DEF ExportInv, SpansInOrder, SpansAccounted

\* A step that keeps all that was sent in its place, and counts no event.
LEMMA SentSame ==
  ASSUME ExportInv, events' = events, Sent' = Sent, lost' = lost,
         buf' \in Seq(Span), posted' \in Seq(Span)
  PROVE  ExportInv'
  BY DEF ExportInv, SpansInOrder, SpansAccounted

LEMMA ExportEvent == ExportInv /\ Event => ExportInv'
<1> SUFFICES ASSUME ExportInv, Event PROVE ExportInv'
  OBVIOUS
<1> DEFINE n == events + 1
           d == DeriveTraceContext(n)
           span == AuditToSpan(n)
<1>1. events' = n /\ Push(AuditToSpan(n)) /\ lost' = lost /\ n \in Nat /\ events \in Nat
  BY DEF ExportInv, Event
<1>2. buf \in Seq(Span) /\ posted \in Seq(Span) /\ Sent \in Seq(Span)
  BY DEF ExportInv, Sent
<1>3. \/ span = <<>> /\ ~Reported[n].traced
      \/ span = <<d>>
  BY DEF AuditToSpan
<1>4. d \in Span /\ d.span = n
  BY <1>1, SpanType
<1>4a. DeriveTraceContext(n) = d
  OBVIOUS
<1> HIDE DEF d, span
<1>5. span \in Seq(Span)
  <2>1. <<>> \in Seq(Span) /\ <<d>> \in Seq(Span)
    BY <1>4
  <2> QED BY <1>3, <2>1
<1>6. buf' \in Seq(Span) /\ posted' \in Seq(Span) /\ Sent' = Sent \o span
  BY <1>1, <1>2, <1>5, PushAppends DEF span
<1>7. /\ \A i \in DOMAIN Sent : Sent[i].span <= events /\ Sent[i].span \in Nat
      /\ \A i, j \in DOMAIN Sent : i < j => Sent[i].span < Sent[j].span
      /\ \A k \in 1..events : Reported[k].traced => DeriveTraceContext(k) \in Range(Sent) \cup lost
  BY <1>2, SpanNumbers DEF ExportInv, SpansInOrder, SpansAccounted
<1>8. CASE span = <<>> /\ ~Reported[n].traced
  <2>1. Sent' = Sent
    BY <1>2, <1>6, <1>8
  <2>2. SpansAccounted'
    <3>1. \A k \in 1..n : k = n \/ k \in 1..events
      BY <1>1
    <3> QED BY <1>1, <1>7, <1>8, <2>1, <3>1 DEF SpansAccounted
  <2> QED BY <1>1, <1>6, <1>7, <2>1, <2>2 DEF ExportInv, SpansInOrder
<1>9. CASE span = <<d>>
  <2> DEFINE l == Len(Sent)
  <2>1. l \in Nat /\ DOMAIN Sent = 1..l
    BY <1>2
  <2>2. Sent' = Append(Sent, d)
    BY <1>2, <1>4, <1>6, <1>9
  <2>3. DOMAIN Sent' = 1..l + 1 /\ (\A i \in 1..l : Sent'[i] = Sent[i]) /\ Sent'[l + 1] = d
    BY <1>2, <1>4, <2>2
  <2>4. d.span = n
    BY <1>4
  <2> HIDE DEF l
  <2>5. \A i \in DOMAIN Sent' : Sent'[i].span <= n
    BY <1>1, <1>7, <2>1, <2>3, <2>4
  <2>6. SpansInOrder'
    <3> SUFFICES ASSUME NEW i \in 1..l + 1, NEW j \in 1..l + 1, i < j
                 PROVE  Sent'[i].span < Sent'[j].span
      BY <2>3 DEF SpansInOrder
    <3>1. i \in 1..l
      BY <2>1
    <3>2. CASE j \in 1..l
      BY <1>7, <2>1, <2>3, <3>1, <3>2
    <3>3. CASE j = l + 1
      BY <1>1, <1>7, <2>1, <2>3, <2>4, <3>1, <3>3
    <3> QED BY <2>1, <3>2, <3>3
  <2>7. SpansAccounted'
    <3> SUFFICES ASSUME NEW k \in 1..n, Reported[k].traced
                 PROVE  DeriveTraceContext(k) \in Range(Sent)' \cup lost
      BY <1>1 DEF SpansAccounted
    <3>1. \A i \in 1..l + 1 : Sent'[i] \in Range(Sent)'
      BY <2>3 DEF Range
    <3>2. CASE k = n
      BY <1>4a, <2>1, <2>3, <3>1, <3>2
    <3>3. CASE k \in 1..events
      <4>1. DeriveTraceContext(k) \in Range(Sent) \cup lost
        BY <1>7, <3>3
      <4>2. Range(Sent) \subseteq Range(Sent)'
        BY <2>1, <2>3, <3>1 DEF Range
      <4> QED BY <4>1, <4>2
    <3> QED BY <1>1, <3>2, <3>3
  <2> QED BY <1>1, <1>6, <2>5, <2>6, <2>7 DEF ExportInv
<1> QED BY <1>3, <1>8, <1>9

LEMMA ExportStep == ExportInv /\ [TelemetryNext]_telemetryVars => ExportInv'
<1> SUFFICES ASSUME ExportInv, [TelemetryNext]_telemetryVars PROVE ExportInv'
  OBVIOUS
<1>0. buf \in Seq(Span) /\ posted \in Seq(Span) /\ Sent \in Seq(Span) /\ events \in Nat
  BY DEF ExportInv, Sent
<1>1. CASE Event
  BY <1>1, ExportEvent
<1>2. CASE Boot
  <2>1. events' = events /\ buf' = buf /\ posted' = posted /\ lost' = lost
    BY <1>2 DEF Boot, exporter
  <2> QED BY <1>0, <2>1, SentSame DEF Sent
<1>3. CASE Flush
  <2>1. posted' = posted \o Batch(buf) /\ buf' = Rest(buf) /\ events' = events /\ lost' = lost
    BY <1>3 DEF Flush
  <2>2. Batch(buf) \in Seq(Span) /\ Rest(buf) \in Seq(Span) /\ Batch(buf) \o Rest(buf) = buf
    BY <1>0, SpliceKeepsAll
  <2> DEFINE f == Batch(buf)
             g == Rest(buf)
  <2>2a. f \in Seq(Span) /\ g \in Seq(Span) /\ f \o g = buf
    BY <2>2
  <2> HIDE DEF f, g
  <2>3a. (posted \o f) \o g = posted \o buf
    BY <1>0, <2>2a, ConcatAgain
  <2>3. (posted \o Batch(buf)) \o Rest(buf) = posted \o buf
    BY <2>3a DEF f, g
  <2>4. Sent' = Sent /\ posted' \in Seq(Span) /\ buf' \in Seq(Span)
    BY <1>0, <2>1, <2>2, <2>3 DEF Sent
  <2> QED BY <2>1, <2>4, SentSame
<1>4. CASE PostEnds
  <2>1. events' = events /\ buf' = buf /\ posted' = posted /\ lost' = lost
    BY <1>4 DEF PostEnds
  <2> QED BY <1>0, <2>1, SentSame DEF Sent
<1>5. CASE Down
  <2>1. lost' = lost \cup Range(buf) /\ buf' = <<>> /\ posted' = posted /\ events' = events
    BY <1>5 DEF Down
  <2>2. Sent' = posted
    BY <1>0, <2>1 DEF Sent
  <2> DEFINE p == Len(posted)
             l == Len(Sent)
  <2>3. /\ p \in Nat /\ DOMAIN posted = 1..p /\ DOMAIN buf = 1..Len(buf) /\ Len(buf) \in Nat
        /\ DOMAIN Sent = 1..p + Len(buf)
        /\ \A i \in 1..p : Sent[i] = posted[i]
        /\ \A i \in 1..Len(buf) : Sent[p + i] = buf[i]
    BY <1>0 DEF Sent
  <2>4. \A i \in 1..p : i \in DOMAIN Sent
    BY <2>3
  <2>5. /\ \A i \in DOMAIN posted : posted[i].span <= events
        /\ \A i, j \in DOMAIN posted : i < j => posted[i].span < posted[j].span
    BY <2>3, <2>4 DEF ExportInv, SpansInOrder
  <2>6. Range(Sent) \subseteq Range(posted) \cup Range(buf)
    <3> SUFFICES ASSUME NEW i \in 1..p + Len(buf)
                 PROVE  Sent[i] \in Range(posted) \cup Range(buf)
      BY <2>3 DEF Range
    <3>1. CASE i <= p
      BY <2>3, <3>1 DEF Range
    <3>2. CASE i > p
      <4>1. i - p \in 1..Len(buf) /\ p + (i - p) = i
        BY <2>3, <3>2
      <4>2. Sent[i] = buf[i - p]
        BY <2>3, <4>1
      <4> QED BY <2>3, <4>1, <4>2 DEF Range
    <3> QED BY <2>3, <3>1, <3>2
  <2>7. SpansAccounted'
    BY <2>1, <2>2, <2>6 DEF ExportInv, SpansAccounted
  <2>8. SpansInOrder' /\ \A i \in DOMAIN Sent' : Sent'[i].span <= events'
    BY <2>1, <2>2, <2>5 DEF SpansInOrder
  <2>9. buf' \in Seq(Span) /\ posted' \in Seq(Span)
    BY <1>0, <2>1
  <2> QED BY <1>0, <2>1, <2>7, <2>8, <2>9 DEF ExportInv
<1>6. CASE UNCHANGED telemetryVars
  <2>1. events' = events /\ buf' = buf /\ posted' = posted /\ lost' = lost
    BY <1>6 DEF telemetryVars, exporter
  <2> QED BY <1>0, <2>1, SentSame DEF Sent
<1> QED BY <1>1, <1>2, <1>3, <1>4, <1>5, <1>6 DEF TelemetryNext

\* The spans leave in the order of their events, none twice, and the span of every traced
\* event is posted, waits in the buffer, or went down with its process: the safety part of
\* SpansPosted (onAuditEvent, flush and schedule of otlp.mjs).
THEOREM SpansAreAccounted == TelemetrySpec => [](SpansInOrder /\ SpansAccounted)
  BY ExportStart, ExportStep, PTL DEF TelemetrySpec, ExportInv

-------------------------------------------------------------------------------
(***************************************************************************)
(* The reader of the log.                                                  *)
(***************************************************************************)
Rising(s) == \A i, j \in 1..Len(s) : i < j => s[i] < s[j]

\* What Kept has gathered of s up to a place.
Gathered(d, s, I) ==
  /\ d \in [0..Len(s) -> Seq(Nat)] /\ d[0] = <<>>
  /\ \A i \in 1..Len(s) : d[i] = IF i \in I THEN Append(d[i - 1], s[i]) ELSE d[i - 1]

LEMMA KeptSteps ==
  ASSUME NEW s \in Seq(Nat), NEW I
  PROVE  \E d : Gathered(d, s, I) /\ Kept(s, I) = d[Len(s)]
<1> DEFINE S == Seq(Nat)
           N == Len(s)
           b == <<>>
           step(t, i) == IF i \in I THEN Append(t, s[i]) ELSE t
           upTo[i \in 0..N] == IF i = 0 THEN b ELSE step(upTo[i - 1], i)
           G == [p \in S \X (1..N) |-> step(p[1], p[2])]
<1>1. N \in Nat /\ b \in S /\ \A i \in 1..N : s[i] \in Nat
  OBVIOUS
<1>2. ASSUME NEW t \in S, NEW i \in 1..N PROVE step(t, i) \in S
  BY <1>1
<1>3. Kept(s, I) = upTo[N]
  BY DEF Kept
<1>4. \A t, i : step(t, i) = IF i \in I THEN Append(t, s[i]) ELSE t
  OBVIOUS
<1>4a. b = <<>> /\ N = Len(s) /\ S = Seq(Nat)
  OBVIOUS
<1> HIDE DEF S, N, b, step
<1>5. G \in [S \X (1..N) -> S] /\ \A t \in S, i \in 1..N : G[<<t, i>>] = step(t, i)
  BY <1>2
<1> HIDE DEF G
<1>6. PICK f \in [0..N -> S] : StepsWith(f, b, G, N)
  BY <1>1, <1>5, Recursion
<1>7. f[0] = b /\ \A i \in 1..N : f[i] = G[<<f[i - 1], i>>]
  BY <1>6 DEF StepsWith
<1>8. ASSUME NEW i \in 1..N PROVE f[i] = step(f[i - 1], i)
  <2>1. f[i - 1] \in S
    BY <1>1
  <2> QED BY <1>5, <1>7, <2>1
<1>9. f = [i \in 0..N |-> IF i = 0 THEN b ELSE step(f[i - 1], i)]
  <2>1. \A i \in 0..N : f[i] = IF i = 0 THEN b ELSE step(f[i - 1], i)
    BY <1>1, <1>7, <1>8
  <2> QED BY <2>1
<1>10. upTo = [i \in 0..N |-> IF i = 0 THEN b ELSE step(upTo[i - 1], i)]
  BY <1>9
<1> HIDE DEF upTo
<1>11. upTo[0] = b /\ \A i \in 1..N : upTo[i] = step(upTo[i - 1], i)
  BY <1>1, <1>10
<1> DEFINE T == {i \in 0..N : upTo[i] \in S}
<1>12. 0 \in T /\ \A i \in 1..N : i - 1 \in T => i \in T
  <2>1. ASSUME NEW i \in 1..N, upTo[i - 1] \in S PROVE upTo[i] \in S
    BY <1>2, <1>11, <2>1
  <2> QED BY <1>1, <1>11, <2>1
<1> HIDE DEF T
<1>13. 0..N \subseteq T
  BY <1>1, <1>12, UpTo
<1>14. upTo \in [0..N -> S]
  BY <1>10, <1>13 DEF T
<1>15. \A i \in 1..N : upTo[i] = IF i \in I THEN Append(upTo[i - 1], s[i]) ELSE upTo[i - 1]
  BY <1>4, <1>11
<1> QED BY <1>3, <1>4a, <1>11, <1>14, <1>15 DEF Gathered

\* What is kept of a rising sequence rises, and holds what stood at the places.
LEMMA KeptFacts ==
  ASSUME NEW s \in Seq(Nat), NEW I, Rising(s)
  PROVE  /\ Kept(s, I) \in Seq(Nat) /\ Rising(Kept(s, I))
         /\ Range(Kept(s, I)) = {s[i] : i \in I \cap 1..Len(s)}
<1> DEFINE N == Len(s)
<1>1. N \in Nat /\ \A i \in 1..N : s[i] \in Nat
  OBVIOUS
<1>2. PICK d : Gathered(d, s, I) /\ Kept(s, I) = d[N]
  BY KeptSteps
<1>3. /\ \A i \in 0..N : d[i] \in Seq(Nat)
      /\ d[0] = <<>>
      /\ \A i \in 1..N : d[i] = IF i \in I THEN Append(d[i - 1], s[i]) ELSE d[i - 1]
  BY <1>2 DEF Gathered
<1>3a. \A i, j \in 1..N : i < j => s[i] < s[j]
  BY DEF Rising
<1> HIDE DEF N
<1> DEFINE Good(k) == Rising(d[k]) /\ Range(d[k]) = {s[i] : i \in I \cap 1..k}
           T == {k \in 0..N : Good(k)}
<1>4. 0 \in T
  <2>1. Range(d[0]) = {} /\ Rising(d[0]) /\ I \cap 1..0 = {}
    BY <1>3 DEF Range, Rising
  <2> QED BY <1>1, <2>1
<1>5. ASSUME NEW k \in 1..N, k - 1 \in T PROVE k \in T
  <2> DEFINE t == d[k - 1]
             l == Len(t)
  <2>1. /\ t \in Seq(Nat) /\ Rising(t) /\ Range(t) = {s[i] : i \in I \cap 1..(k - 1)}
        /\ l \in Nat /\ DOMAIN t = 1..l /\ \A x \in 1..l : t[x] \in Nat
    BY <1>1, <1>3, <1>5
  <2>2. CASE k \notin I
    <3>1. d[k] = t /\ I \cap 1..k = I \cap 1..(k - 1)
      BY <1>1, <1>3, <2>2
    <3> QED BY <2>1, <3>1
  <2>3. CASE k \in I
    <3>1. d[k] = Append(t, s[k])
      BY <1>3, <2>3
    <3> HIDE DEF t, l
    <3>2. /\ DOMAIN d[k] = 1..l + 1 /\ Len(d[k]) = l + 1
          /\ d[k][l + 1] = s[k] /\ \A x \in 1..l : d[k][x] = t[x]
      BY <1>1, <2>1, <3>1 DEF l
    <3>3. Range(d[k]) = {s[i] : i \in I \cap 1..k}
      <4>1. Range(d[k]) = Range(t) \cup {s[k]}
        <5>1. Range(d[k]) = {d[k][x] : x \in 1..l + 1} /\ Range(t) = {t[x] : x \in 1..l}
          BY <2>1, <3>2 DEF Range
        <5>2. 1..l + 1 = 1..l \cup {l + 1}
          BY <2>1
        <5> QED BY <3>2, <5>1, <5>2
      <4>2. I \cap 1..k = (I \cap 1..(k - 1)) \cup {k}
        BY <1>1, <2>3
      <4> QED BY <2>1, <4>1, <4>2
    <3>4. \A x \in 1..l : t[x] < s[k]
      <4> SUFFICES ASSUME NEW x \in 1..l PROVE t[x] < s[k]
        OBVIOUS
      <4>1. t[x] \in Range(t)
        BY <2>1 DEF Range
      <4>2. PICK i \in I \cap 1..(k - 1) : t[x] = s[i]
        BY <2>1, <4>1
      <4>3. i \in 1..N /\ i < k
        BY <1>1
      <4> QED BY <1>3a, <4>2, <4>3
    <3>5. Rising(d[k])
      <4> SUFFICES ASSUME NEW x \in 1..l + 1, NEW y \in 1..l + 1, x < y PROVE d[k][x] < d[k][y]
        BY <3>2 DEF Rising
      <4>1. x \in 1..l
        BY <2>1
      <4>2. CASE y \in 1..l
        BY <2>1, <3>2, <4>1, <4>2 DEF Rising, l
      <4>3. CASE y = l + 1
        BY <3>2, <3>4, <4>1, <4>3
      <4> QED BY <2>1, <4>2, <4>3
    <3> QED BY <3>3, <3>5
  <2> QED BY <2>2, <2>3
<1> HIDE DEF T
<1>5a. N \in Nat /\ \A k \in 1..N : k - 1 \in T => k \in T
  BY <1>1, <1>5
<1>5b. 0..N \subseteq T
  BY <1>4, <1>5a, UpTo
<1>6. N \in T
  BY <1>5a, <1>5b
<1>7. Good(N)
  BY <1>6 DEF T
<1> QED BY <1>1, <1>2, <1>3, <1>7 DEF N

\* Of finitely many places there is one with the largest member.
LEMMA Largest ==
  ASSUME NEW s \in Seq(Nat), NEW I, I \subseteq 1..Len(s), I # {}
  PROVE  \E i \in I : \A j \in I : s[j] <= s[i]
<1> DEFINE N == Len(s)
           To(m) == I \cap 1..m
           Has(m) == \E i \in To(m) : \A j \in To(m) : s[j] <= s[i]
           T == {m \in 0..N : To(m) = {} \/ Has(m)}
<1>1. N \in Nat /\ \A i \in 1..N : s[i] \in Nat
  OBVIOUS
<1>2. 0 \in T
  BY <1>1
<1>3. ASSUME NEW m \in 1..N, m - 1 \in T PROVE m \in T
  <2>0. (To(m - 1) = {} \/ Has(m - 1)) /\ m \in 0..N
    <3>1. m \in 0..N
      BY <1>1
    <3>2. To(m - 1) = {} \/ Has(m - 1)
      <4> HIDE DEF To, Has
      <4> QED BY <1>3
    <3> QED BY <3>1, <3>2
  <2>1. CASE m \notin I
    <3>1. To(m) = To(m - 1)
      BY <1>1, <2>1
    <3> QED BY <2>0, <3>1
  <2>2. CASE m \in I
    <3>1. To(m) = To(m - 1) \cup {m}
      BY <1>1, <2>2
    <3>2. s[m] \in Nat /\ \A j \in To(m - 1) : s[j] \in Nat
      BY <1>1
    <3> HIDE DEF To
    <3>3. CASE To(m - 1) = {}
      BY <2>0, <3>1, <3>2, <3>3
    <3>4. CASE Has(m - 1)
      <4>1. PICK i \in To(m - 1) : \A j \in To(m - 1) : s[j] <= s[i]
        BY <3>4
      <4>2. s[i] \in Nat
        BY <3>2
      <4>3. CASE s[m] <= s[i]
        <5>1. \A j \in To(m) : s[j] <= s[i]
          BY <3>1, <4>1, <4>3
        <5> QED BY <2>0, <3>1, <5>1
      <4>4. CASE s[i] < s[m]
        <5>1. \A j \in To(m) : s[j] <= s[m]
          BY <3>1, <3>2, <4>1, <4>2, <4>4
        <5> QED BY <2>0, <3>1, <5>1
      <4>5. s[m] <= s[i] \/ s[i] < s[m]
        BY <3>2, <4>2
      <4> HIDE DEF T
      <4> QED BY <4>3, <4>4, <4>5
    <3> QED BY <2>0, <3>3, <3>4
  <2> QED BY <2>1, <2>2
<1>4. N \in T
  <2> HIDE DEF T, N
  <2>1. N \in Nat /\ \A m \in 1..N : m - 1 \in T => m \in T
    BY <1>1, <1>3
  <2>2. 0..N \subseteq T
    BY <1>2, <2>1, UpTo
  <2> QED BY <2>1, <2>2
<1>5. To(N) = I
  OBVIOUS
<1> HIDE DEF To
<1> QED BY <1>4, <1>5

\* The member at the place k of the sorted sequence: at most k members are smaller, and more
\* than k are not larger.
LEMMA RankFacts ==
  ASSUME NEW s \in Seq(Nat), NEW k \in Nat, k < Len(s)
  PROVE  /\ Ranked(s, k) \in Nat
         /\ Cardinality({i \in DOMAIN s : s[i] < Ranked(s, k)}) \in 0..k
         /\ Cardinality({i \in DOMAIN s : s[i] <= Ranked(s, k)}) \in Nat
         /\ Cardinality({i \in DOMAIN s : s[i] <= Ranked(s, k)}) > k
<1> DEFINE N == Len(s)
           UpTo_(x) == {i \in 1..N : s[i] <= x}
           S == {x \in Range(s) : Cardinality(UpTo_(x)) > k}
           r == Ranked(s, k)
<1>1. N \in Nat /\ DOMAIN s = 1..N /\ \A i \in 1..N : s[i] \in Nat
  OBVIOUS
<1>2. Range(s) \subseteq Nat /\ \A i \in 1..N : s[i] \in Range(s)
  BY DEF Range
<1>3. \A I \in SUBSET (1..N) : IsFiniteSet(I) /\ Cardinality(I) \in Nat
  <2>1. IsFiniteSet(1..N)
    BY <1>1, FS_Interval
  <2> QED BY <2>1, FS_Subset, FS_CardinalityType
<1>4. r = Min(S)
  BY <1>1 DEF Ranked
<1>5. S # {}
  <2>1. PICK i \in 1..N : \A j \in 1..N : s[j] <= s[i]
    <3>1. 1..N # {} /\ 1..N \subseteq 1..Len(s)
      BY <1>1
    <3> QED BY <3>1, Largest
  <2>2. UpTo_(s[i]) = 1..N
    BY <2>1
  <2>3. Cardinality(1..N) = N
    <3>1. 1 \in Int /\ N \in Int /\ ~ (1 > N) /\ N - 1 + 1 = N
      BY <1>1
    <3> HIDE DEF N
    <3> QED BY <3>1, FS_Interval
  <2> QED BY <1>2, <2>2, <2>3
<1>6. S \subseteq Nat
  BY <1>2
<1>7. r \in S /\ \A x \in S : r <= x
  <2> HIDE DEF S, r
  <2>1. \E x \in S : \A y \in S : x <= y
    BY <1>5, <1>6, LeastNumber
  <2> QED BY <1>4, <2>1 DEF Min
<1>8. r \in Nat /\ Cardinality(UpTo_(r)) > k
  BY <1>6, <1>7
<1>9. UpTo_(r) \in SUBSET (1..N)
  OBVIOUS
<1> DEFINE Below == {i \in 1..N : s[i] < r}
<1>10. Below \in SUBSET (1..N)
  OBVIOUS
<1> HIDE DEF r
<1>11. Cardinality(Below) <= k
  <2>1. CASE Below = {}
    <3>1. Cardinality(Below) = 0
      BY <2>1, FS_EmptySet
    <3> QED BY <3>1
  <2>2. CASE Below # {}
    <3>1. PICK i \in Below : \A j \in Below : s[j] <= s[i]
      <4>1. Below \subseteq 1..Len(s)
        OBVIOUS
      <4> HIDE DEF Below
      <4> QED BY <2>2, <4>1, Largest
    <3>2. i \in 1..N /\ s[i] < r /\ s[i] \in Nat
      BY <1>1, <3>1
    <3>3. UpTo_(s[i]) = Below
      BY <1>1, <1>8, <3>1, <3>2
    <3>4. ~ (s[i] \in S)
      <4> HIDE DEF S
      <4> QED BY <1>7, <1>8, <3>2
    <3>5. ~ (Cardinality(Below) > k)
      BY <1>2, <3>2, <3>3, <3>4
    <3> QED BY <1>3, <1>10, <3>5
  <2> QED BY <2>1, <2>2
<1>12. Cardinality(Below) \in Nat /\ Cardinality(UpTo_(r)) \in Nat
  BY <1>3, <1>9, <1>10
<1>13. Below = {i \in DOMAIN s : s[i] < Ranked(s, k)} /\ UpTo_(r) = {i \in DOMAIN s : s[i] <= Ranked(s, k)}
  BY <1>1 DEF r
<1>14. Cardinality(Below) \in 0..k
  BY <1>11, <1>12
<1> QED BY <1>8, <1>12, <1>13, <1>14 DEF r

\* The place of a percentile: p percent of n, or the last one.
LEMMA PctPlace ==
  ASSUME NEW n \in Nat, n # 0, NEW p \in {50, 95, 99}
  PROVE  LET h == (n * p) \div 100
             k == IF h < n THEN h ELSE n - 1
         IN k \in Nat /\ k < n /\ 100 * k <= p * n /\ 100 * (k + 1) >= p * n
<1>1. CASE p = 50
  BY <1>1
<1>2. CASE p = 95
  BY <1>2
<1>3. CASE p = 99
  BY <1>3
<1> QED BY <1>1, <1>2, <1>3

\* The percentiles split the latencies as they claim.
LEMMA PctFacts ==
  ASSUME NEW s \in Seq(Nat), s # <<>>, NEW p \in {50, 95, 99}
  PROVE  /\ 100 * Cardinality({i \in DOMAIN s : s[i] < Pct(s, p)}) <= p * Len(s)
         /\ 100 * Cardinality({i \in DOMAIN s : s[i] <= Pct(s, p)}) >= p * Len(s)
<1> DEFINE n == Len(s)
           h == (n * p) \div 100
           k == IF h < n THEN h ELSE n - 1
           a == Cardinality({i \in DOMAIN s : s[i] < Ranked(s, k)})
           b == Cardinality({i \in DOMAIN s : s[i] <= Ranked(s, k)})
<1>1. n \in Nat /\ n # 0
  OBVIOUS
<1>2. k \in Nat /\ k < n /\ 100 * k <= p * n /\ 100 * (k + 1) >= p * n
  BY <1>1, PctPlace
<1>3. Pct(s, p) = Ranked(s, k)
  BY DEF Pct
<1> HIDE DEF k
<1>4. a \in 0..k /\ b \in Nat /\ b > k
  BY <1>2, RankFacts
<1> HIDE DEF a, b
<1>5. p * n \in Nat
  BY <1>1
<1> HIDE DEF n
<1>6. 100 * a <= p * n /\ 100 * b >= p * n
  <2> DEFINE z == p * n
  <2>1. z \in Nat /\ 100 * k <= z /\ 100 * (k + 1) >= z
    BY <1>2, <1>5
  <2> HIDE DEF z
  <2>2. 100 * a <= z /\ 100 * b >= z
    BY <1>2, <1>4, <2>1
  <2> QED BY <2>2 DEF z
<1> QED BY <1>3, <1>6 DEF a, b, n

\* Whoever counts the events does not count more than are reported.
EventsBound == events \in Nat /\ events <= Len(Reported)

LEMMA EventsBounded == TelemetrySpec => []EventsBound
<1>1. TelemetryInit => EventsBound
  BY ReportAssumption DEF TelemetryInit, EventsBound
<1>2. EventsBound /\ [TelemetryNext]_telemetryVars => EventsBound'
  <2> SUFFICES ASSUME EventsBound, [TelemetryNext]_telemetryVars PROVE EventsBound'
    OBVIOUS
  <2>1. Len(Reported) \in Nat
    BY ReportAssumption
  <2>2. CASE Event
    BY <2>1, <2>2 DEF Event, EventsBound
  <2>3. CASE UNCHANGED events
    BY <2>3 DEF EventsBound
  <2>4. Event \/ UNCHANGED events
    BY DEF TelemetryNext, Boot, Flush, PostEnds, Down, telemetryVars
  <2> QED BY <2>2, <2>3, <2>4
<1> QED BY <1>1, <1>2, PTL DEF TelemetrySpec

\* The filter by status, by cases, is membership in a class of codes.
LEMMA StatusFilter ==
  ASSUME NEW c \in Nat, NEW flt \in Nat
  PROVE  StatusMatches(c, flt) <=>
           flt = 0 \/ c \in (IF flt < 10 THEN 100 * flt..100 * flt + 99 ELSE {flt})
<1>1. CASE flt = 0
  BY <1>1 DEF StatusMatches
<1>2. CASE flt # 0 /\ flt < 10
  <2>1. c \div 100 = flt <=> c \in 100 * flt..100 * flt + 99
    OBVIOUS
  <2>2. c \in 100 * flt..100 * flt + 99 => c # 0
    BY <1>2
  <2>3. StatusMatches(c, flt) <=> c # 0 /\ c \div 100 = flt
    BY <1>2 DEF StatusMatches
  <2> HIDE DEF StatusMatches
  <2> QED BY <1>2, <2>1, <2>2, <2>3
<1>3. CASE flt >= 10
  BY <1>3 DEF StatusMatches
<1> QED BY <1>1, <1>2, <1>3

\* QueriesAccount: what qv-audit prints of a query are the whole lines that the query asks
\* for, each once and in order, and its percentiles split the latencies as they claim.
THEOREM QueriesAreAccounted == TelemetrySpec => []QueriesAccount
<1>1. LogInv /\ EventsBound => QueriesAccount
  <2> SUFFICES ASSUME LogInv, EventsBound, NEW q \in Queries
               PROVE  LET hits == Matching(files[0], q)
                          ms   == [i \in DOMAIN hits |-> Reported[hits[i]].ms]
                          due  == {i \in (IF files[0] = NoFile THEN {} ELSE DOMAIN files[0]) :
                                     LET n == files[0][i].n IN
                                     /\ files[0][i].newline /\ (i > 1 => files[0][i - 1].newline)
                                     /\ q.event \in {"", Reported[n].event}
                                     /\ q.status = 0 \/ Reported[n].status \in
                                          (IF q.status < 10 THEN 100 * q.status..100 * q.status + 99
                                           ELSE {q.status})
                                     /\ n \in q.since..(IF q.until = 0 THEN n ELSE q.until - 1)}
                      IN /\ Range(hits) = {files[0][i].n : i \in due}
                         /\ \A i, j \in DOMAIN hits : i < j => hits[i] < hits[j]
                         /\ ms # <<>> => \A p \in {50, 95, 99} :
                              /\ 100 * Cardinality({i \in DOMAIN ms : ms[i] < Pct(ms, p)}) <= p * Len(ms)
                              /\ 100 * Cardinality({i \in DOMAIN ms : ms[i] <= Pct(ms, p)}) >= p * Len(ms)
    BY DEF QueriesAccount
  <2> DEFINE f == files[0]
             ns == Lines(f)
             I == {i \in DOMAIN ns : MatchesFilters(ns[i], q)}
             hits == Matching(f, q)
             ms == [i \in DOMAIN hits |-> Reported[hits[i]].ms]
             asked(n) == /\ q.event \in {"", Reported[n].event}
                         /\ q.status = 0 \/ Reported[n].status \in
                              (IF q.status < 10 THEN 100 * q.status..100 * q.status + 99
                               ELSE {q.status})
                         /\ n \in q.since..(IF q.until = 0 THEN n ELSE q.until - 1)
             whole(i) == f[i].newline /\ (i > 1 => f[i - 1].newline)
             places == IF f = NoFile THEN {} ELSE 1..Len(f)
  <2>1. /\ f \in Seq(Line) /\ Len(f) \in Nat /\ DOMAIN f = 1..Len(f)
        /\ f # NoFile => /\ \A i \in 1..Len(f) : f[i].n \in 1..events
                         /\ \A i, j \in 1..Len(f) : i < j => f[i].n < f[j].n
    <3>1. 0 \in 0..Keep /\ files \in Files /\ Ordered(files, events)
      BY LogAssumption DEF LogInv, TelemetryTypes
    <3>2. f \in Seq(Line)
      BY <3>1 DEF Files
    <3> QED BY <3>1, <3>2 DEF Ordered
  <2>2. q.event \in STRING /\ q.status \in Nat /\ q.since \in Nat /\ q.until \in Nat
    BY ReportAssumption
  <2>3. ASSUME NEW n \in 1..events
        PROVE  n \in Nat /\ Reported[n].status \in Nat /\ Reported[n].ms \in Nat
    <3>1. n \in 1..Len(Reported)
      BY ReportAssumption DEF EventsBound
    <3> DEFINE R == [event : STRING, status : Nat, ms : Nat, traced : BOOLEAN,
                     inherited : STRING]
    <3>2. Reported \in Seq(R)
      BY ReportAssumption
    <3>3. \A r \in R : r.status \in Nat /\ r.ms \in Nat
      OBVIOUS
    <3> HIDE DEF R
    <3>4. Reported[n] \in R
      BY <3>1, <3>2, ElementOfSeq
    <3> QED BY <3>3, <3>4
  <2> HIDE DEF f, asked
  <2>4. /\ ns \in Seq(Nat) /\ Rising(ns)
        /\ Range(ns) = {f[i].n : i \in {i \in places : whole(i)}}
    <3>1. CASE f = NoFile
      <4>1. ns = <<>> /\ places = {}
        BY <3>1 DEF Lines
      <4> QED BY <4>1 DEF Rising, Range
    <3>2. CASE f # NoFile
      <4> DEFINE s == [i \in DOMAIN f |-> f[i].n]
                 W == {i \in DOMAIN f : f[i].newline /\ (i = 1 \/ f[i - 1].newline)}
      <4>1. ns = Kept(s, W)
        BY <3>2 DEF Lines
      <4>2. s \in Seq(Nat) /\ Len(s) = Len(f) /\ \A i \in 1..Len(f) : s[i] = f[i].n
        BY <2>1, <2>3, <3>2
      <4>3. W \cap 1..Len(s) = {i \in places : whole(i)}
        BY <2>1, <3>2, <4>2
      <4>4. W \cap 1..Len(s) \subseteq 1..Len(f)
        BY <4>2
      <4> HIDE DEF s, W
      <4>5. Rising(s)
        BY <2>1, <3>2, <4>2 DEF Rising
      <4>6. ns \in Seq(Nat) /\ Rising(ns) /\ Range(ns) = {s[i] : i \in W \cap 1..Len(s)}
        BY <4>1, <4>2, <4>5, KeptFacts
      <4>7. {s[i] : i \in W \cap 1..Len(s)} = {f[i].n : i \in W \cap 1..Len(s)}
        BY <4>2, <4>4
      <4> QED BY <4>3, <4>6, <4>7
    <3> QED BY <3>1, <3>2
  <2>5. Range(ns) \subseteq 1..events
    BY <2>1, <2>4
  <2>6. ASSUME NEW n \in 1..events PROVE MatchesFilters(n, q) <=> asked(n)
    <3>1. n \in Nat /\ Reported[n].status \in Nat
      BY <2>3
    <3>2. StatusMatches(Reported[n].status, q.status) <=>
            q.status = 0 \/ Reported[n].status \in
              (IF q.status < 10 THEN 100 * q.status..100 * q.status + 99 ELSE {q.status})
      BY <2>2, <3>1, StatusFilter
    <3>3. (q.event # "" => Reported[n].event = q.event) <=> q.event \in {"", Reported[n].event}
      OBVIOUS
    <3>4. (q.since # 0 => n >= q.since) /\ (q.until # 0 => n < q.until)
            <=> n \in q.since..(IF q.until = 0 THEN n ELSE q.until - 1)
      BY <2>2, <3>1
    <3> QED BY <3>2, <3>3, <3>4 DEF MatchesFilters, asked
  <2> DEFINE due == {i \in places : whole(i) /\ asked(f[i].n)}
  <2>7. hits \in Seq(Nat) /\ Rising(hits) /\ Range(hits) = {ns[i] : i \in I \cap 1..Len(ns)}
    <3>1. hits = Kept(ns, I)
      BY DEF Matching
    <3> HIDE DEF ns, I, hits
    <3> QED BY <2>4, <3>1, KeptFacts
  <2>8. Range(hits) = {n \in Range(ns) : asked(n)}
    <3>1. DOMAIN ns = 1..Len(ns)
      BY <2>4
    <3>2. Range(ns) = {ns[i] : i \in 1..Len(ns)}
      BY <3>1 DEF Range
    <3>3. \A i \in 1..Len(ns) : MatchesFilters(ns[i], q) <=> asked(ns[i])
      BY <2>5, <2>6, <3>2
    <3>4. I = {i \in 1..Len(ns) : asked(ns[i])}
      BY <3>1, <3>3
    <3> HIDE DEF ns, hits, I
    <3> QED BY <2>7, <3>2, <3>4
  <2>9. Range(hits) = {f[i].n : i \in due}
    <3> HIDE DEF ns, hits, whole, places
    <3> QED BY <2>4, <2>8
  <2>10. DOMAIN hits = 1..Len(hits) /\ Len(hits) \in Nat
    BY <2>7
  <2>11. \A i, j \in DOMAIN hits : i < j => hits[i] < hits[j]
    BY <2>7, <2>10 DEF Rising
  <2>12. ms \in Seq(Nat)
    <3>1. \A i \in 1..Len(hits) : hits[i] \in 1..events
      <4>1. \A i \in 1..Len(hits) : hits[i] \in Range(hits)
        BY <2>10 DEF Range
      <4>2. Range(hits) \subseteq Range(ns)
        BY <2>8
      <4> QED BY <2>5, <4>1, <4>2
    <3> HIDE DEF hits
    <3> QED BY <2>3, <2>10, <3>1
  <2>13. ms # <<>> => \A p \in {50, 95, 99} :
           /\ 100 * Cardinality({i \in DOMAIN ms : ms[i] < Pct(ms, p)}) <= p * Len(ms)
           /\ 100 * Cardinality({i \in DOMAIN ms : ms[i] <= Pct(ms, p)}) >= p * Len(ms)
    <3> HIDE DEF ms
    <3> QED BY <2>12, PctFacts
  <2>14. places = IF f = NoFile THEN {} ELSE DOMAIN f
    BY <2>1
  <2>15. due = {i \in (IF f = NoFile THEN {} ELSE DOMAIN f) :
                  LET n == f[i].n IN
                  /\ f[i].newline /\ (i > 1 => f[i - 1].newline)
                  /\ q.event \in {"", Reported[n].event}
                  /\ q.status = 0 \/ Reported[n].status \in
                       (IF q.status < 10 THEN 100 * q.status..100 * q.status + 99
                        ELSE {q.status})
                  /\ n \in q.since..(IF q.until = 0 THEN n ELSE q.until - 1)}
    <3> HIDE DEF places
    <3> QED BY <2>14 DEF asked
  <2> HIDE DEF due, hits, ms
  <2>16. /\ Range(hits) = {f[i].n : i \in due}
         /\ \A i, j \in DOMAIN hits : i < j => hits[i] < hits[j]
         /\ ms # <<>> => \A p \in {50, 95, 99} :
              /\ 100 * Cardinality({i \in DOMAIN ms : ms[i] < Pct(ms, p)}) <= p * Len(ms)
              /\ 100 * Cardinality({i \in DOMAIN ms : ms[i] <= Pct(ms, p)}) >= p * Len(ms)
    BY <2>9, <2>11, <2>13
  <2> QED BY <2>15, <2>16 DEF f, hits, ms
<1> QED BY <1>1, LogInvariant, EventsBounded, PTL
==============================================================================
