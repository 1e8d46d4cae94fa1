-------------------------- MODULE IssueChain_proofs --------------------------
(***************************************************************************)
(* Proofs about IssueChain, for any number of processes, keys, requests    *)
(* and faults. The theorems on tokens assume that the file store never     *)
(* cuts a record short without an error (fault "short"); the types and     *)
(* the logs that can be loaded do not need it.                             *)
(***************************************************************************)
EXTENDS IssueChain, TLAPS

-------------------------------------------------------------------------------
(* The inductive invariant: TypeOK and the parts below.                    *)

\* A request on its way to a 200, or past it, was taken by a process.
TakenByProcess ==
  \A r \in Req : st[r] \in {"sent", "stored", "released"} => by[r] \in Proc

\* Every INSERT on a connection is of a request that has a counter.
WireHasCounters ==
  \A p \in Proc : \A i \in DOMAIN wire[p] : ctr[wire[p][i]] \in Counter

\* The requests whose token can be, or was, sent.
Kept == {r \in Req : st[r] \in {"stored", "released"}}

KeptIsRecorded ==
  \A r \in Kept : ctr[r] \in Counter /\ ctr[r] \in Recorded(key[r])

KeptIsUnique ==
  \A r, s \in Kept : r # s /\ key[r] = key[s] => ctr[r] # ctr[s]

\* File store: one process at a time, and its RAM chains are never behind the log.
OneUp == backend = "file" =>
  \A p, q \in Proc : pst[p] = "up" /\ pst[q] = "up" => p = q

RamCoversLog == backend = "file" =>
  \A p \in Proc, k \in Key :
    pst[p] = "up" => \A c \in Recorded(k) : c <= chain[p][k]

Shape == TypeOK /\ TakenByProcess /\ WireHasCounters
IInv  == Shape /\ KeptIsRecorded /\ KeptIsUnique /\ OneUp /\ RamCoversLog

-------------------------------------------------------------------------------
(* What an append does to the counters of a log.                           *)
LEMMA RangeOfAppend ==
  ASSUME NEW S, NEW s \in Seq(S), NEW e \in S
  PROVE  LET t == Append(s, e)
         IN  {t[i] : i \in DOMAIN t} = {s[i] : i \in DOMAIN s} \cup {e}
<1> DEFINE t == Append(s, e)
<1>1. /\ DOMAIN s = 1..Len(s) /\ DOMAIN t = 1..(Len(s) + 1) /\ Len(s) \in Nat
      /\ \A i \in 1..Len(s) : t[i] = s[i]
      /\ t[Len(s) + 1] = e
  OBVIOUS
<1>2. QED
  BY <1>1

LEMMA AppendTyped ==
  ASSUME log \in [Key -> Seq(Counter \cup {Torn})],
         NEW k \in Key, NEW c \in Counter \cup {Torn},
         Append1(k, c)
  PROVE  log' \in [Key -> Seq(Counter \cup {Torn})]
<1>1. Append(log[k], c) \in Seq(Counter \cup {Torn})
  OBVIOUS
<1> QED BY <1>1 DEF Append1

LEMMA RecordedAfterAppend ==
  ASSUME log \in [Key -> Seq(Counter \cup {Torn})],
         NEW k \in Key, NEW c \in Counter \cup {Torn},
         Append1(k, c)
  PROVE  \A j \in Key :
           Recorded(j)' = IF j = k THEN Recorded(j) \cup {c} ELSE Recorded(j)
<1> TAKE j \in Key
<1>1. CASE j = k
  <2>1. log'[j] = Append(log[j], c)
    BY <1>1 DEF Append1
  <2>2. Recorded(j)' = Recorded(j) \cup {c}
    BY <2>1, RangeOfAppend DEF Recorded
  <2> QED BY <1>1, <2>2
<1>2. CASE j # k
  <2>1. log'[j] = log[j]
    BY <1>2 DEF Append1
  <2> QED BY <1>2, <2>1 DEF Recorded
<1> QED BY <1>1, <1>2

-------------------------------------------------------------------------------
(* Types, and the two facts on requests and connections that keep them.    *)
LEMMA ShapeInit == Init => Shape
<1> SUFFICES ASSUME Init PROVE Shape
  OBVIOUS
<1>1. TypeOK
  BY DEF Init, TypeOK, ProcStates, ReqStates
<1>2. TakenByProcess /\ WireHasCounters
  BY DEF Init, TakenByProcess, WireHasCounters
<1> QED BY <1>1, <1>2 DEF Shape

\* A step that starts a handler's turn on r in p.
LEMMA ShapeTurn ==
  ASSUME Shape, NEW p \in Proc, NEW r \in Req, Turn(p, r)
  PROVE  Shape'
<1> USE CounterAssumption DEF Shape, TypeOK, TakenByProcess, ReqStates,
        ProcStates, Ends, CanTake
<1> DEFINE n == NextCounter(p, r)
<1>1. CanTake(p, r) /\ (Advance(p, r) => n \in Counter /\ n \in Nat)
  BY DEF Turn, Reject, EncodeFails, AppendThrows, FileAppend, FsyncThrows,
         ShortWrite, Send, SendClosed, TornCrash, Advance, NextCounter
<1>2. ASSUME Advance(p, r)
      PROVE  /\ chain' \in [Proc -> [Key -> Nat]]
             /\ ctr' \in [Req -> Counter \cup {0}]
             /\ ctr'[r] \in Counter
             /\ \A q \in Req : q # r => ctr'[q] = ctr[q]
             /\ by' \in [Req -> Proc \cup {NoProc}]
             /\ by'[r] \in Proc
             /\ \A q \in Req : q # r => by'[q] = by[q]
             /\ UNCHANGED <<backend, key, said>>
  BY <1>1, <1>2 DEF Advance, NextCounter
<1>3. ASSUME UNCHANGED wire, Advance(p, r)
      PROVE  WireHasCounters'
  <2>1. ASSUME NEW q \in Proc, NEW i \in DOMAIN wire[q]
        PROVE  ctr'[wire[q][i]] \in Counter
    <3>1. wire[q][i] \in Req /\ ctr[wire[q][i]] \in Counter
      BY DEF WireHasCounters
    <3> QED BY <1>2, <1>3, <3>1
  <2> QED BY <1>3, <2>1 DEF WireHasCounters
<1>4. CASE Reject(p, r)
  BY <1>4 DEF Reject, chainVars, WireHasCounters
<1>5. CASE EncodeFails(p, r)
  BY <1>2, <1>3, <1>5 DEF EncodeFails, Spoil
<1>6. CASE AppendThrows(p, r)
  BY <1>2, <1>3, <1>6 DEF AppendThrows, Spoil
<1>7. CASE FileAppend(p, r)
  BY <1>1, <1>2, <1>3, <1>7, AppendTyped DEF FileAppend
<1>8. CASE FsyncThrows(p, r)
  BY <1>1, <1>2, <1>3, <1>8, AppendTyped DEF FsyncThrows
<1>9. CASE ShortWrite(p, r)
  BY <1>1, <1>2, <1>3, <1>9, AppendTyped DEF ShortWrite, Spoil
<1>10. CASE Send(p, r)
  <2>1. /\ wire' = [wire EXCEPT ![p] = Append(wire[p], r)]
        /\ Append(wire[p], r) \in Seq(Req)
        /\ Advance(p, r)
    BY <1>10 DEF Send
  <2>2. \A i \in DOMAIN Append(wire[p], r) :
          Append(wire[p], r)[i] = r \/ (i \in DOMAIN wire[p] /\ Append(wire[p], r)[i] = wire[p][i])
    OBVIOUS
  <2>3. WireHasCounters'
    <3> SUFFICES ASSUME NEW q \in Proc, NEW i \in DOMAIN wire'[q]
                 PROVE  ctr'[wire'[q][i]] \in Counter
      BY DEF WireHasCounters
    <3>1. CASE q = p
      <4>1. wire'[q] = Append(wire[p], r)
        BY <2>1, <3>1
      <4>2. wire'[q][i] = r \/ (wire'[q][i] \in Req /\ ctr[wire'[q][i]] \in Counter)
        BY <2>2, <4>1 DEF WireHasCounters
      <4> QED BY <1>2, <2>1, <4>2
    <3>2. CASE q # p
      <4>1. wire'[q] = wire[q] /\ wire[q][i] \in Req
        BY <2>1, <3>2
      <4> QED BY <1>2, <2>1, <4>1 DEF WireHasCounters
    <3> QED BY <3>1, <3>2
  <2>4. wire' \in [Proc -> Seq(Req)]
    BY <2>1
  <2> HIDE DEF WireHasCounters
  <2> QED BY <1>2, <1>10, <2>3, <2>4 DEF Send
<1>11. CASE SendClosed(p, r)
  BY <1>2, <1>3, <1>11 DEF SendClosed
<1>12. CASE TornCrash(p, r)
  <2>1. log' \in [Key -> Seq(Counter \cup {Torn})]
    BY <1>12, AppendTyped DEF TornCrash
  <2>2. st' \in [Req -> ReqStates] 
        /\ \A q \in Req : st'[q] = st[q] \/ st'[q] = "lost"
    BY <1>12 DEF TornCrash, InFlight
  <2> QED BY <1>12, <2>1, <2>2 DEF TornCrash, Die, Spoil, WireHasCounters
<1> QED
  BY <1>4, <1>5, <1>6, <1>7, <1>8, <1>9, <1>10, <1>11, <1>12 DEF Turn

\* A step of the database on the connection of p.
LEMMA ShapeDbStep ==
  ASSUME Shape, NEW p \in Proc, NEW r \in Req,
         DbInsert(p, r) \/ DbConflict(p, r) \/ DbError(p, r)
  PROVE  Shape'
<1> USE DEF Shape, TypeOK, TakenByProcess, ReqStates
<1>1. Execute(p, r) /\ st' \in [Req -> ReqStates]
      /\ \A q \in Req : st'[q] = st[q] \/ st[q] = "sent"
  BY DEF DbInsert, DbConflict, DbError, Resolve
<1>2. /\ wire' \in [Proc -> Seq(Req)]
      /\ ctr[r] \in Counter
      /\ WireHasCounters'
  <2>1. wire[p] \in Seq(Req) /\ wire[p] # <<>> /\ r = wire[p][1]
    BY <1>1 DEF Execute
  <2>2. Tail(wire[p]) \in Seq(Req)
        /\ \A i \in DOMAIN Tail(wire[p]) :
             i + 1 \in DOMAIN wire[p] /\ Tail(wire[p])[i] = wire[p][i + 1]
    BY <2>1
  <2>3. wire' = [wire EXCEPT ![p] = Tail(wire[p])] /\ UNCHANGED ctr
    BY <1>1 DEF Execute
  <2>4. ctr[r] \in Counter
    BY <2>1 DEF WireHasCounters
  <2>5. ASSUME NEW q \in Proc, NEW i \in DOMAIN wire'[q]
        PROVE  ctr'[wire'[q][i]] \in Counter
    BY <2>2, <2>3 DEF WireHasCounters
  <2> QED BY <2>2, <2>3, <2>4, <2>5 DEF WireHasCounters
<1>3. log' \in [Key -> Seq(Counter \cup {Torn})]
  BY <1>2, AppendTyped DEF DbInsert, DbConflict, DbError
<1>4. spoiled' \in [Key -> BOOLEAN]
  BY DEF DbInsert, DbConflict, DbError, Spoil
<1> QED BY <1>1, <1>2, <1>3, <1>4 DEF Execute

LEMMA ShapeNext == Shape /\ [Next]_vars => Shape'
<1> SUFFICES ASSUME Shape, [Next]_vars PROVE Shape'
  OBVIOUS
<1> USE DEF Shape, TypeOK, TakenByProcess, WireHasCounters, ProcStates, ReqStates
<1>1. ASSUME NEW p \in Proc, Boot(p) PROVE Shape'
  BY <1>1 DEF Boot, LoadedCounter, reqVars
<1>2. ASSUME NEW p \in Proc, BootRefused(p) PROVE Shape'
  BY <1>2 DEF BootRefused, reqVars
<1>3. ASSUME NEW p \in Proc, DbStep(p) PROVE Shape'
  BY <1>3, ShapeDbStep DEF DbStep
<1>4. ASSUME NEW p \in Proc, ConnLost(p) PROVE Shape'
  BY <1>4 DEF ConnLost, InFlight
<1>5. ASSUME NEW p \in Proc, WireLost(p) PROVE Shape'
  BY <1>5 DEF WireLost, reqVars
<1>6. ASSUME NEW p \in Proc, Crash(p) PROVE Shape'
  BY <1>6 DEF Crash, Die, InFlight
<1>7. ASSUME NEW p \in Proc, NEW r \in Req, Turn(p, r) PROVE Shape'
  BY <1>7, ShapeTurn
<1>8. ASSUME NEW r \in Req, Reply(r) PROVE Shape'
  BY <1>8 DEF Reply, Ends, chainVars
<1>9. CASE UNCHANGED vars
  BY <1>9 DEF vars, chainVars, reqVars
<1> QED
  BY <1>1, <1>2, <1>3, <1>4, <1>5, <1>6, <1>7, <1>8, <1>9 DEF Next

\* Every variable keeps the type its declaration gives it.
THEOREM TypeCorrect == Spec => []TypeOK
<1>1. Init => Shape
  BY ShapeInit
<1>2. Shape /\ [Next]_vars => Shape'
  BY ShapeNext
<1>3. Shape => TypeOK
  BY DEF Shape
<1> QED BY <1>1, <1>2, <1>3, PTL DEF Spec

-------------------------------------------------------------------------------
(***************************************************************************)
(* Tokens. Two facts carry the argument: a record is only ever added for a *)
(* counter that is not recorded yet (the file store because the one        *)
(* process that is up has a RAM chain at or above its log, Postgres        *)
(* because of the primary key), and a request only becomes one whose token *)
(* can be sent in the step that adds its record.                           *)
(***************************************************************************)
KeptSafe == KeptIsRecorded /\ KeptIsUnique

LogGrows == \A k \in Key : Recorded(k) \subseteq Recorded(k)'

\* A step in which no request becomes one whose token can be sent.
LEMMA KeptSafeOld ==
  ASSUME Shape, KeptSafe, LogGrows, UNCHANGED key,
         \A q \in Req : q \in Kept' => q \in Kept /\ ctr'[q] = ctr[q]
  PROVE  KeptSafe'
<1>1. KeptIsRecorded'
  BY DEF KeptSafe, KeptIsRecorded, LogGrows, Shape, TypeOK, Kept
<1>2. KeptIsUnique'
  BY DEF KeptSafe, KeptIsUnique, Kept
<1> QED BY <1>1, <1>2 DEF KeptSafe

\* A step in which r becomes one, with a counter that was not recorded before.
LEMMA KeptSafeNew ==
  ASSUME Shape, KeptSafe, LogGrows, UNCHANGED key, NEW r \in Req,
         ctr'[r] \in Counter,
         ctr'[r] \notin Recorded(key[r]),
         ctr'[r] \in Recorded(key[r])',
         \A q \in Req : q \in Kept' => q = r \/ (q \in Kept /\ ctr'[q] = ctr[q])
  PROVE  KeptSafe'
<1>1. KeptIsRecorded'
  BY DEF KeptSafe, KeptIsRecorded, LogGrows, Shape, TypeOK, Kept
<1>2. ASSUME NEW q \in Kept', NEW s \in Kept', q # s, key[q] = key[s]
      PROVE  ctr'[q] # ctr'[s]
  <2>1. \A x \in Kept : ctr[x] \in Recorded(key[x])
    BY DEF KeptSafe, KeptIsRecorded
  <2>2. q \in Req /\ s \in Req
    BY DEF Kept
  <2>3. CASE q \in Kept /\ s \in Kept /\ q # r /\ s # r
    BY <1>2, <2>2, <2>3 DEF KeptSafe, KeptIsUnique
  <2>4. CASE q = r \/ s = r
    BY <1>2, <2>1, <2>2, <2>4
  <2> QED BY <1>2, <2>2, <2>3, <2>4
<1>3. KeptIsUnique'
  BY <1>2 DEF KeptIsUnique
<1> QED BY <1>1, <1>3 DEF KeptSafe

\* Steps that leave the log as it is.
LEMMA LogSame == ASSUME UNCHANGED log
                 PROVE  LogGrows /\ \A k \in Key : Recorded(k)' = Recorded(k)
BY DEF LogGrows, Recorded

LEMMA LogAppended ==
  ASSUME Shape, NEW k \in Key, NEW c \in Counter \cup {Torn}, Append1(k, c)
  PROVE  /\ LogGrows
         /\ \A j \in Key :
              Recorded(j)' = IF j = k THEN Recorded(j) \cup {c} ELSE Recorded(j)
<1>1. log \in [Key -> Seq(Counter \cup {Torn})]
  BY DEF Shape, TypeOK
<1> QED BY <1>1, RecordedAfterAppend DEF LogGrows

LEMMA RecordedIsNat == Shape => \A k \in Key : Recorded(k) \subseteq Nat
<1> SUFFICES ASSUME Shape, NEW k \in Key PROVE Recorded(k) \subseteq Nat
  OBVIOUS
<1>1. log[k] \in Seq(Counter \cup {Torn})
  BY DEF Shape, TypeOK
<1>2. Counter \cup {Torn} \subseteq Nat
  BY CounterAssumption DEF Torn
<1>3. \A i \in DOMAIN log[k] : log[k][i] \in Counter \cup {Torn}
  BY <1>1
<1> QED BY <1>2, <1>3 DEF Recorded

\* A loaded log holds no counter above its length.
LEMMA LoadedCovers ==
  ASSUME Shape, NEW k \in Key, Loadable(k), backend = "file"
  PROVE  \A c \in Recorded(k) : c <= LoadedCounter(k)
<1>1. log[k] \in Seq(Counter \cup {Torn})
  BY DEF Shape, TypeOK
<1>2. DOMAIN log[k] = 1..Len(log[k]) /\ Len(log[k]) \in Nat
  BY <1>1
<1> QED BY <1>2 DEF Loadable, Recorded, LoadedCounter

UpSafe == OneUp /\ RamCoversLog

\* A step that starts no process, moves no RAM chain back and adds no record.
LEMMA UpSafeQuiet ==
  ASSUME Shape, UpSafe, UNCHANGED <<backend, log>>,
         \A p \in Proc : pst'[p] = "up" => pst[p] = "up",
         \A p \in Proc, k \in Key : chain'[p][k] \in Nat /\ chain[p][k] <= chain'[p][k]
  PROVE  UpSafe'
<1>1. OneUp'
  BY DEF UpSafe, OneUp
<1>2. ASSUME backend = "file", NEW p \in Proc, NEW k \in Key, pst'[p] = "up",
             NEW c \in Recorded(k)
      PROVE  c <= chain'[p][k]
  <2>1. c <= chain[p][k]
    BY <1>2 DEF UpSafe, RamCoversLog
  <2>2. log[k] \in Seq(Counter \cup {Torn}) /\ chain[p][k] \in Nat
    BY DEF Shape, TypeOK
  <2>3. c \in Nat
    BY <2>2, CounterAssumption DEF Recorded, Torn
  <2> QED BY <2>1, <2>2, <2>3
<1>3. RamCoversLog'
  BY <1>2, LogSame DEF RamCoversLog
<1> QED BY <1>1, <1>3 DEF UpSafe

LEMMA SafeTurn ==
  ASSUME "short" \notin Faults, Shape, KeptSafe, UpSafe,
         NEW p \in Proc, NEW r \in Req, Turn(p, r)
  PROVE  KeptSafe' /\ UpSafe'
<1> DEFINE k == key[r]
           n == NextCounter(p, r)
<1> USE CounterAssumption
<1>1. /\ CanTake(p, r) /\ k \in Key /\ r \notin Kept
      /\ pst[p] = "up" /\ st[r] = "new"
      /\ st \in [Req -> ReqStates] /\ pst \in [Proc -> ProcStates]
      /\ chain \in [Proc -> [Key -> Nat]]
  BY DEF Turn, Reject, EncodeFails, AppendThrows, FileAppend, FsyncThrows,
         ShortWrite, Send, SendClosed, TornCrash, Advance, CanTake, Kept,
         Shape, TypeOK
<1>2. ASSUME Advance(p, r)
      PROVE  /\ n \in Counter /\ n \in Nat /\ n = chain[p][k] + 1 /\ chain[p][k] \in Nat
             /\ ctr'[r] = n
             /\ \A q \in Req : q # r => ctr'[q] = ctr[q]
             /\ chain'[p][k] = n
             /\ \A q \in Proc, j \in Key : q # p \/ j # k => chain'[q][j] = chain[q][j]
             /\ \A q \in Proc, j \in Key :
                  chain'[q][j] \in Nat /\ chain[q][j] <= chain'[q][j]
             /\ UNCHANGED <<backend, key>>
  BY <1>1, <1>2 DEF Advance, NextCounter, CanTake, Shape, TypeOK
\* The turn ends without a record: the request is lost to the client.
<1>3. ASSUME Advance(p, r), UNCHANGED <<log, pst>>, Ends(r, "failed") \/ Ends(r, "sent")
      PROVE  KeptSafe' /\ UpSafe'
  <2>1. \A q \in Req : q \in Kept' => q \in Kept /\ ctr'[q] = ctr[q]
    BY <1>1, <1>2, <1>3 DEF Kept, Ends
  <2>2. KeptSafe'
    BY <1>2, <1>3, <2>1, KeptSafeOld, LogSame
  <2>3. UpSafe'
    BY <1>2, <1>3, UpSafeQuiet
  <2> QED BY <2>2, <2>3
\* The turn writes the record: of a counter no record of the file holds.
<1>4. ASSUME Advance(p, r), backend = "file", Append1(k, n), UNCHANGED pst,
             Ends(r, "stored") \/ Ends(r, "failed")
      PROVE  KeptSafe' /\ UpSafe'
  <2>1. LogGrows /\ \A j \in Key :
          Recorded(j)' = IF j = k THEN Recorded(j) \cup {n} ELSE Recorded(j)
    BY <1>1, <1>2, <1>4, LogAppended
  <2>2. \A j \in Key : \A c \in Recorded(j) : c \in Nat /\ c <= chain[p][j]
    BY <1>1, <1>4, RecordedIsNat DEF UpSafe, RamCoversLog
  <2>3. n \notin Recorded(k)
    BY <1>1, <1>2, <1>4, <2>2
  <2>4. KeptSafe'
    <3>1. \A q \in Req : q \in Kept' => q = r \/ (q \in Kept /\ ctr'[q] = ctr[q])
      BY <1>1, <1>2, <1>4 DEF Kept, Ends
    <3> QED BY <1>1, <1>2, <1>4, <2>1, <2>3, <3>1, KeptSafeNew
  <2>5. OneUp'
    BY <1>2, <1>4 DEF UpSafe, OneUp
  <2>6. ASSUME NEW q \in Proc, pst'[q] = "up", NEW j \in Key, NEW c \in Recorded(j)'
        PROVE  c <= chain'[q][j]
    <3>1. q = p
      BY <1>1, <1>4, <2>6 DEF UpSafe, OneUp
    <3>2. CASE c \in Recorded(j)
      BY <1>1, <1>2, <1>4, <2>2, <3>1, <3>2
    <3>3. CASE c \notin Recorded(j)
      BY <1>2, <1>4, <2>1, <2>6, <3>1, <3>3
    <3> QED BY <3>2, <3>3
  <2>7. RamCoversLog'
    BY <2>6 DEF RamCoversLog
  <2> QED BY <2>4, <2>5, <2>7 DEF UpSafe
<1>5. CASE Reject(p, r)
  <2>1. \A q \in Req : q \in Kept' => q \in Kept /\ ctr'[q] = ctr[q]
    BY <1>1, <1>5 DEF Reject, Kept, Ends
  <2>2. KeptSafe'
    BY <1>5, <2>1, KeptSafeOld, LogSame DEF Reject, chainVars
  <2>3. UpSafe'
    BY <1>1, <1>5, UpSafeQuiet DEF Reject, chainVars
  <2> QED BY <2>2, <2>3
<1>6. CASE EncodeFails(p, r) \/ AppendThrows(p, r) \/ SendClosed(p, r) \/ Send(p, r)
  BY <1>3, <1>6 DEF EncodeFails, AppendThrows, SendClosed, Send
<1>7. CASE FileAppend(p, r) \/ FsyncThrows(p, r)
  BY <1>4, <1>7 DEF FileAppend, FsyncThrows
<1>8. CASE ShortWrite(p, r)
  BY <1>8 DEF ShortWrite
<1>9. CASE TornCrash(p, r)
  <2>1. LogGrows
    BY <1>1, <1>9, LogAppended DEF TornCrash
  <2>2. \A q \in Req : q \in Kept' => q \in Kept /\ ctr'[q] = ctr[q]
    BY <1>1, <1>9 DEF TornCrash, Die, Kept
  <2>3. KeptSafe'
    BY <1>9, <2>1, <2>2, KeptSafeOld DEF TornCrash, Die
  <2>4. \A q \in Proc : pst'[q] # "up"
    BY <1>1, <1>9 DEF TornCrash, Die, UpSafe, OneUp
  <2>5. UpSafe'
    BY <2>4 DEF UpSafe, OneUp, RamCoversLog
  <2> QED BY <2>3, <2>5
<1> QED
  BY <1>5, <1>6, <1>7, <1>8, <1>9 DEF Turn

LEMMA SafeDbStep ==
  ASSUME Shape, KeptSafe, UpSafe, NEW p \in Proc, NEW r \in Req,
         DbInsert(p, r) \/ DbConflict(p, r) \/ DbError(p, r)
  PROVE  KeptSafe'
<1>1. /\ Execute(p, r) /\ st \in [Req -> ReqStates]
      /\ key \in [Req -> Key]
      /\ ctr[r] \in Counter
  <2>1. Execute(p, r) /\ wire[p] \in Seq(Req) /\ wire[p] # <<>> /\ r = wire[p][1]
    BY DEF DbInsert, DbConflict, DbError, Execute, Shape, TypeOK
  <2> QED BY <2>1 DEF Shape, TypeOK, WireHasCounters
<1>2. CASE DbInsert(p, r)
  <2>1. LogGrows /\ ctr[r] \in Recorded(key[r])'
    <3>1. Append1(key[r], ctr[r]) /\ UNCHANGED key /\ key[r] \in Key
      BY <1>1, <1>2 DEF DbInsert, Execute
    <3> QED BY <1>1, <3>1, LogAppended
  <2>2. \A q \in Req : q \in Kept' => q = r \/ (q \in Kept /\ ctr'[q] = ctr[q])
    BY <1>1, <1>2 DEF DbInsert, Execute, Resolve, Kept
  <2> QED BY <1>1, <1>2, <2>1, <2>2, KeptSafeNew DEF DbInsert, Execute
<1>3. CASE DbConflict(p, r) \/ DbError(p, r)
  <2>1. \A q \in Req : q \in Kept' => q \in Kept /\ ctr'[q] = ctr[q]
    BY <1>1, <1>3 DEF DbConflict, DbError, Execute, Resolve, Kept
  <2> QED BY <1>1, <1>3, <2>1, KeptSafeOld, LogSame DEF DbConflict, DbError, Execute
<1> QED BY <1>2, <1>3

LEMMA SafeNext ==
  ASSUME "short" \notin Faults
  PROVE  IInv /\ [Next]_vars => IInv'
<1> SUFFICES ASSUME IInv, [Next]_vars PROVE KeptSafe' /\ UpSafe'
  BY ShapeNext DEF IInv, KeptSafe, UpSafe
<1>1. Shape /\ KeptSafe /\ UpSafe
  BY DEF IInv, KeptSafe, UpSafe
<1>2. /\ st \in [Req -> ReqStates] /\ pst \in [Proc -> ProcStates]
      /\ chain \in [Proc -> [Key -> Nat]]
  BY <1>1 DEF Shape, TypeOK
\* Most steps outside a turn leave log, keys and counters alone.
<1>3. ASSUME UNCHANGED <<log, key, ctr>>,
             \A q \in Req : st'[q] \in {"stored", "released"} =>
                              st[q] \in {"stored", "released"}
      PROVE  KeptSafe'
  BY <1>1, <1>3, KeptSafeOld, LogSame DEF Kept
<1>4. ASSUME UNCHANGED <<backend, log, chain>>,
             \A p \in Proc : pst'[p] = "up" => pst[p] = "up"
      PROVE  UpSafe'
  BY <1>1, <1>2, <1>4, UpSafeQuiet
<1>5. ASSUME NEW p \in Proc, Boot(p) PROVE KeptSafe' /\ UpSafe'
  <2>1. KeptSafe'
    BY <1>3, <1>5 DEF Boot, reqVars
  <2>2. OneUp'
    BY <1>2, <1>5 DEF Boot, SoleWriter, OneUp
  <2>3. ASSUME backend = "file", NEW q \in Proc, pst'[q] = "up", NEW k \in Key
        PROVE  \A c \in Recorded(k) : c <= chain'[q][k]
    <3>1. q = p /\ chain'[p][k] = LoadedCounter(k) /\ Loadable(k)
      BY <1>2, <1>5, <2>3 DEF Boot, SoleWriter
    <3> QED BY <1>1, <2>3, <3>1, LoadedCovers
  <2>4. RamCoversLog'
    BY <1>5, <2>3, LogSame DEF RamCoversLog, Boot
  <2> QED BY <2>1, <2>2, <2>4 DEF UpSafe
<1>6. ASSUME NEW p \in Proc, BootRefused(p) PROVE KeptSafe' /\ UpSafe'
  BY <1>2, <1>3, <1>4, <1>6 DEF BootRefused, reqVars
<1>7. ASSUME NEW p \in Proc, NEW r \in Req,
             DbInsert(p, r) \/ DbConflict(p, r) \/ DbError(p, r)
      PROVE  KeptSafe' /\ UpSafe'
  <2>1. Execute(p, r)
    BY <1>7 DEF DbInsert, DbConflict, DbError
  <2>2. OneUp'
    BY <1>1, <2>1 DEF Execute, UpSafe, OneUp
  <2>3. RamCoversLog'
    BY <2>1 DEF Execute, RamCoversLog
  <2> QED BY <1>1, <1>7, <2>2, <2>3, SafeDbStep DEF UpSafe
<1>8. ASSUME NEW p \in Proc, ConnLost(p) PROVE KeptSafe' /\ UpSafe'
  BY <1>2, <1>3, <1>4, <1>8 DEF ConnLost
<1>9. ASSUME NEW p \in Proc, WireLost(p) PROVE KeptSafe' /\ UpSafe'
  BY <1>2, <1>3, <1>4, <1>9 DEF WireLost, reqVars
<1>10. ASSUME NEW p \in Proc, Crash(p) PROVE KeptSafe' /\ UpSafe'
  BY <1>2, <1>3, <1>4, <1>10 DEF Crash, Die
<1>11. ASSUME NEW r \in Req, Reply(r) PROVE KeptSafe' /\ UpSafe'
  BY <1>2, <1>3, <1>4, <1>11 DEF Reply, Ends, chainVars
<1>12. CASE UNCHANGED vars
  BY <1>2, <1>3, <1>4, <1>12 DEF vars, chainVars, reqVars
<1>13. ASSUME NEW p \in Proc, NEW r \in Req, Turn(p, r) PROVE KeptSafe' /\ UpSafe'
  BY <1>1, <1>13, SafeTurn
<1> QED
  BY <1>5, <1>6, <1>7, <1>8, <1>9, <1>10, <1>11, <1>12, <1>13 DEF Next, DbStep

LEMMA SafeInit == Init => IInv
<1> SUFFICES ASSUME Init PROVE KeptSafe /\ UpSafe
  BY ShapeInit DEF IInv, KeptSafe, UpSafe
<1>1. Kept = {} /\ \A p \in Proc : pst[p] # "up"
  BY DEF Init, Kept
<1> QED
  BY <1>1 DEF KeptSafe, KeptIsRecorded, KeptIsUnique, UpSafe, OneUp, RamCoversLog

\* No two tokens ever sent for a key carry the same mutation counter.
THEOREM TokensAreUnique ==
  ASSUME "short" \notin Faults
  PROVE  Spec => []UniqueTokens
<1>1. Init => IInv
  BY SafeInit
<1>2. IInv /\ [Next]_vars => IInv'
  BY SafeNext
<1>3. IInv => UniqueTokens
  BY DEF IInv, KeptIsUnique, Kept, UniqueTokens, Released
<1> QED BY <1>1, <1>2, <1>3, PTL DEF Spec

\* With the file store, the ratchet only ever moves a request above every token
\* already sent for its key.
THEOREM IssuesAboveReleased ==
  ASSUME "short" \notin Faults
  PROVE  Spec => IssuedAboveReleased
<1> DEFINE Above == \A r \in Req :
             backend = "file" /\ ctr'[r] # ctr[r] =>
               \A s \in Released : key[s] = key[r] => ctr[s] < ctr'[r]
<1>1. Init => IInv
  BY SafeInit
<1>2. IInv /\ [Next]_vars => IInv'
  BY SafeNext
<1>3. IInv /\ [Next]_vars => [Above]_vars
  <2> SUFFICES ASSUME IInv, Next, NEW r \in Req, backend = "file", ctr'[r] # ctr[r],
                      NEW s \in Released, key[s] = key[r]
               PROVE  ctr[s] < ctr'[r]
    OBVIOUS
  <2>1. PICK p \in Proc, q \in Req : Advance(p, q)
    BY DEF Next, Boot, BootRefused, DbStep, DbInsert, DbConflict, DbError, Execute,
           ConnLost, WireLost, Crash, Die, Reply, chainVars, reqVars,
           Turn, Reject, EncodeFails, AppendThrows, FileAppend, FsyncThrows,
           ShortWrite, Send, SendClosed, TornCrash
  <2>2. q = r /\ ctr'[r] = chain[p][key[r]] + 1 /\ pst[p] = "up" /\ key[r] \in Key
        /\ chain[p][key[r]] \in Nat
    BY <2>1 DEF Advance, NextCounter, CanTake, IInv, Shape, TypeOK
  <2>3. ctr[s] \in Recorded(key[r])
    BY DEF Released, Kept, IInv, KeptIsRecorded
  <2>4. ctr[s] <= chain[p][key[r]] /\ ctr[s] \in Nat
    BY <2>2, <2>3, RecordedIsNat DEF IInv, RamCoversLog
  <2> QED BY <2>2, <2>4
<1>4. QED
  BY <1>1, <1>2, <1>3, PTL DEF Spec, IssuedAboveReleased

-------------------------------------------------------------------------------
(***************************************************************************)
(* Refinement. Every step maps to Record, to Release or to a stutter of    *)
(* CounterLedger.                                                          *)
(***************************************************************************)
RecordedPairs == {kc \in Key \X Counter : kc[2] \in Recorded(kc[1])}
ReleasedPairs == {<<key[r], ctr[r]>> : r \in Released}

\* A step that leaves the log, the keys and what was released alone stutters.
LEMMA LedgerStutter ==
  ASSUME UNCHANGED <<log, key>>, Released' = Released,
         \A r \in Released : ctr'[r] = ctr[r]
  PROVE  UNCHANGED <<RecordedPairs, ReleasedPairs>>
BY DEF RecordedPairs, ReleasedPairs, Recorded

\* An append of a counter that was not recorded is Record; of a torn record, a stutter.
LEMMA LedgerAppend ==
  ASSUME Shape, NEW k \in Key, NEW c \in Counter \cup {Torn}, Append1(k, c),
         UNCHANGED key, Released' = Released,
         \A r \in Released : ctr'[r] = ctr[r]
  PROVE  /\ ReleasedPairs' = ReleasedPairs
         /\ RecordedPairs' = IF c = Torn THEN RecordedPairs
                                         ELSE RecordedPairs \cup {<<k, c>>}
<1>1. Torn \notin Counter
  BY CounterAssumption DEF Torn
<1>2. \A j \in Key :
        Recorded(j)' = IF j = k THEN Recorded(j) \cup {c} ELSE Recorded(j)
  BY LogAppended
<1>3. RecordedPairs' = {kc \in Key \X Counter : kc[2] \in Recorded(kc[1]) \/ (kc[1] = k /\ kc[2] = c)}
  BY <1>2 DEF RecordedPairs
<1>4. CASE c = Torn
  BY <1>1, <1>3, <1>4 DEF RecordedPairs, ReleasedPairs
<1>5. CASE c # Torn
  BY <1>3, <1>5 DEF RecordedPairs, ReleasedPairs
<1> QED BY <1>4, <1>5

LEMMA LedgerTurn ==
  ASSUME "short" \notin Faults, IInv, NEW p \in Proc, NEW r \in Req, Turn(p, r)
  PROVE  \/ UNCHANGED <<RecordedPairs, ReleasedPairs>>
         \/ \E k \in Key, c \in Counter :
              /\ <<k, c>> \notin RecordedPairs
              /\ RecordedPairs' = RecordedPairs \cup {<<k, c>>}
              /\ ReleasedPairs' = ReleasedPairs
<1> DEFINE n == NextCounter(p, r)
<1>1. /\ CanTake(p, r) /\ key[r] \in Key /\ r \notin Released /\ st[r] = "new"
      /\ st \in [Req -> ReqStates] /\ Shape /\ ctr \in [Req -> Counter \cup {0}]
      /\ chain[p][key[r]] \in Nat /\ pst[p] = "up"
  BY DEF Turn, Reject, EncodeFails, AppendThrows, FileAppend, FsyncThrows,
         ShortWrite, Send, SendClosed, TornCrash, Advance, CanTake, Released,
         IInv, Shape, TypeOK
<1>2. UNCHANGED key /\ Released' = Released /\ \A q \in Released : ctr'[q] = ctr[q]
  <2>1. UNCHANGED key /\ \A q \in Req : q # r => ctr'[q] = ctr[q]
    BY <1>1 DEF Turn, Reject, EncodeFails, AppendThrows, FileAppend, FsyncThrows,
         ShortWrite, Send, SendClosed, TornCrash, Advance, Die
  <2>2. \A q \in Req : st'[q] = "released" <=> st[q] = "released"
    BY <1>1 DEF Turn, Reject, EncodeFails, AppendThrows, FileAppend, FsyncThrows,
         ShortWrite, Send, SendClosed, TornCrash, Die, Ends, InFlight
  <2> QED BY <1>1, <2>1, <2>2 DEF Released
<1>3. CASE Append1(key[r], n) /\ backend = "file" /\ n \in Counter
  <2>1. n \notin Recorded(key[r])
    <3>1. \A c \in Recorded(key[r]) : c \in Nat /\ c <= chain[p][key[r]]
      BY <1>1, <1>3, RecordedIsNat DEF IInv, RamCoversLog
    <3> QED BY <1>1, <3>1 DEF NextCounter
  <2>2. <<key[r], n>> \notin RecordedPairs
    BY <2>1 DEF RecordedPairs
  <2>3. n # Torn
    BY <1>3, CounterAssumption DEF Torn
  <2> QED BY <1>1, <1>2, <1>3, <2>2, <2>3, LedgerAppend
<1>4. CASE Append1(key[r], Torn)
  BY <1>1, <1>2, <1>4, LedgerAppend
<1>5. CASE UNCHANGED log
  BY <1>2, <1>5, LedgerStutter
<1> QED
  BY <1>3, <1>4, <1>5
     DEF Turn, Reject, EncodeFails, AppendThrows, FileAppend, FsyncThrows,
         ShortWrite, Send, SendClosed, TornCrash, Advance, CanTake, chainVars

LEMMA LedgerReply ==
  ASSUME IInv, NEW r \in Req, Reply(r)
  PROVE  \E k \in Key, c \in Counter :
           /\ <<k, c>> \in RecordedPairs \ ReleasedPairs
           /\ ReleasedPairs' = ReleasedPairs \cup {<<k, c>>}
           /\ RecordedPairs' = RecordedPairs
<1>1. /\ st \in [Req -> ReqStates] /\ key[r] \in Key /\ r \in Kept /\ r \notin Released
      /\ UNCHANGED <<key, ctr, log>> /\ Released' = Released \cup {r}
  BY DEF Reply, IInv, Shape, TypeOK, Kept, Released, Ends, chainVars
<1>2. ctr[r] \in Counter /\ <<key[r], ctr[r]>> \in RecordedPairs
  BY <1>1 DEF IInv, KeptIsRecorded, RecordedPairs
<1>3. ASSUME NEW s \in Released PROVE <<key[s], ctr[s]>> # <<key[r], ctr[r]>>
  BY <1>1 DEF IInv, KeptIsUnique, Kept, Released
<1>4. <<key[r], ctr[r]>> \notin ReleasedPairs
  BY <1>3 DEF ReleasedPairs
<1>5. ReleasedPairs' = ReleasedPairs \cup {<<key[r], ctr[r]>>}
  BY <1>1 DEF ReleasedPairs
<1>6. RecordedPairs' = RecordedPairs
  BY <1>1 DEF RecordedPairs, Recorded
<1> QED BY <1>1, <1>2, <1>4, <1>5, <1>6

\* What the callers of the issue path are promised: a counter is recorded at most
\* once, and sent at most once, only after it was recorded.
THEOREM RefinesLedger ==
  ASSUME "short" \notin Faults
  PROVE  Spec => ImplementsLedger
<1>1. Init => IInv /\ Ledger!Init
  <2>1. Init => RecordedPairs = {} /\ ReleasedPairs = {}
    BY DEF Init, RecordedPairs, ReleasedPairs, Recorded, Released
  <2> QED BY <2>1, SafeInit DEF Ledger!Init, RecordedPairs, ReleasedPairs
<1>2. IInv /\ [Next]_vars => IInv'
  BY SafeNext
<1>3. IInv /\ [Next]_vars => [Ledger!Next]_(Ledger!ledger)
  <2> SUFFICES ASSUME IInv, [Next]_vars
               PROVE  \/ UNCHANGED <<RecordedPairs, ReleasedPairs>>
                      \/ \E k \in Key, c \in Counter :
                           \/ /\ <<k, c>> \notin RecordedPairs
                              /\ RecordedPairs' = RecordedPairs \cup {<<k, c>>}
                              /\ ReleasedPairs' = ReleasedPairs
                           \/ /\ <<k, c>> \in RecordedPairs \ ReleasedPairs
                              /\ ReleasedPairs' = ReleasedPairs \cup {<<k, c>>}
                              /\ RecordedPairs' = RecordedPairs
    BY DEF Ledger!Next, Ledger!Record, Ledger!Release, Ledger!ledger,
           RecordedPairs, ReleasedPairs
  <2>1. /\ Shape /\ st \in [Req -> ReqStates] /\ ctr \in [Req -> Counter \cup {0}]
        /\ key \in [Req -> Key]
    BY DEF IInv, Shape, TypeOK
  <2>2. ASSUME UNCHANGED <<log, key, ctr>>,
               \A q \in Req : st'[q] = "released" <=> st[q] = "released"
        PROVE  UNCHANGED <<RecordedPairs, ReleasedPairs>>
    BY <2>2, LedgerStutter DEF Released
  <2>3. ASSUME NEW p \in Proc, Boot(p) \/ BootRefused(p)
        PROVE  UNCHANGED <<RecordedPairs, ReleasedPairs>>
    BY <2>2, <2>3 DEF Boot, BootRefused, reqVars
  <2>4. ASSUME NEW p \in Proc, ConnLost(p) \/ WireLost(p) \/ Crash(p)
        PROVE  UNCHANGED <<RecordedPairs, ReleasedPairs>>
    BY <2>1, <2>2, <2>4 DEF ConnLost, WireLost, Crash, Die, InFlight, reqVars
  <2>5. ASSUME NEW p \in Proc, NEW r \in Req, DbConflict(p, r) \/ DbError(p, r)
        PROVE  UNCHANGED <<RecordedPairs, ReleasedPairs>>
    BY <2>1, <2>2, <2>5 DEF DbConflict, DbError, Execute, Resolve
  <2>6. ASSUME NEW p \in Proc, NEW r \in Req, DbInsert(p, r)
        PROVE  \E k \in Key, c \in Counter :
                 /\ <<k, c>> \notin RecordedPairs
                 /\ RecordedPairs' = RecordedPairs \cup {<<k, c>>}
                 /\ ReleasedPairs' = ReleasedPairs
    <3>1. /\ Append1(key[r], ctr[r]) /\ ctr[r] \notin Recorded(key[r])
          /\ UNCHANGED <<key, ctr>> /\ key[r] \in Key
          /\ wire[p] \in Seq(Req) /\ wire[p] # <<>> /\ r = wire[p][1]
      BY <2>1, <2>6 DEF DbInsert, Execute, Shape, TypeOK
    <3>2. ctr[r] \in Counter /\ ctr[r] # Torn
      BY <2>1, <3>1, CounterAssumption DEF Shape, WireHasCounters, Torn
    <3>3. Released' = Released
      BY <2>1, <2>6 DEF DbInsert, Resolve, Released
    <3>4. <<key[r], ctr[r]>> \notin RecordedPairs
      BY <3>1 DEF RecordedPairs
    <3> QED BY <2>1, <3>1, <3>2, <3>3, <3>4, LedgerAppend
  <2>7. CASE UNCHANGED vars
    BY <2>2, <2>7 DEF vars, chainVars, reqVars
  <2> QED
    BY <2>3, <2>4, <2>5, <2>6, <2>7, LedgerTurn, LedgerReply DEF Next, DbStep
<1>4. QED
  BY <1>1, <1>2, <1>3, PTL DEF Spec, ImplementsLedger, Ledger!Spec

-------------------------------------------------------------------------------
(***************************************************************************)
(* The log stays loadable. With the file store, the RAM chain of the one   *)
(* process that is up is as long as the log. With Postgres the RAM chain   *)
(* of a process runs ahead of the log by the INSERTs on its connection,    *)
(* and each of these follows a counter that is recorded or comes before it *)
(* on the same connection, so that the table fills without a gap.          *)
(***************************************************************************)
Taken == \A p \in Proc : \A i \in DOMAIN wire[p] : st[wire[p][i]] # "new"

\* The places on the connection of p with an INSERT for k.
Places(p, k) == {i \in DOMAIN wire[p] : key[wire[p][i]] = k}

InRam(k) == \A p \in Proc : pst[p] = "up" => chain[p][k] = Len(log[k])

Followed(p, k) ==
  /\ \A i \in Places(p, k) :
       \/ ctr[wire[p][i]] = 1 \/ ctr[wire[p][i]] - 1 \in Recorded(k)
       \/ \E j \in Places(p, k) : j < i /\ ctr[wire[p][j]] = ctr[wire[p][i]] - 1
  /\ pst[p] = "up" /\ conn[p] =>
       \/ chain[p][k] = 0 \/ chain[p][k] \in Recorded(k)
       \/ \E j \in Places(p, k) : ctr[wire[p][j]] = chain[p][k]

NoGap == \A k \in Key : ~spoiled[k] =>
  /\ Loadable(k)
  /\ IF backend = "file" THEN InRam(k) ELSE \A p \in Proc : Followed(p, k)

GapInv == Shape /\ OneUp /\ Taken /\ NoGap

LEMMA TakenNext ==
  ASSUME Shape, Taken, [Next]_vars
  PROVE  Taken'
<1> USE DEF Shape, TypeOK, ReqStates
<1>1. ASSUME UNCHANGED wire, \A r \in Req : st[r] # "new" => st'[r] # "new"
      PROVE  Taken'
  BY <1>1 DEF Taken
<1>2. ASSUME NEW p \in Proc, NEW r \in Req, DbInsert(p, r) \/ DbConflict(p, r) \/ DbError(p, r)
      PROVE  Taken'
  <2>1. Execute(p, r) /\ \A q \in Req : st[q] # "new" => st'[q] # "new"
    BY <1>2 DEF DbInsert, DbConflict, DbError, Resolve
  <2>2. wire' = [wire EXCEPT ![p] = Tail(wire[p])] /\ wire[p] \in Seq(Req) /\ wire[p] # <<>>
    BY <2>1 DEF Execute
  <2>3. \A i \in DOMAIN Tail(wire[p]) : i + 1 \in DOMAIN wire[p] /\ Tail(wire[p])[i] = wire[p][i + 1]
    BY <2>2
  <2>4. ASSUME NEW q \in Proc, NEW i \in DOMAIN wire'[q] PROVE st'[wire'[q][i]] # "new"
    <3>1. \E j \in DOMAIN wire[q] : wire'[q][i] = wire[q][j]  BY <2>2, <2>3
    <3>2. \A j \in DOMAIN wire[q] : wire[q][j] \in Req  BY <2>2
    <3> QED BY <2>1, <3>1, <3>2 DEF Taken
  <2> QED BY <2>4 DEF Taken
<1>3. ASSUME NEW p \in Proc, WireLost(p) PROVE Taken'
  BY <1>3 DEF WireLost, reqVars, Taken
<1>4. ASSUME NEW p \in Proc, NEW r \in Req, Send(p, r) PROVE Taken'
  <2>1. wire' = [wire EXCEPT ![p] = Append(wire[p], r)] /\ st' = [st EXCEPT ![r] = "sent"]
    BY <1>4 DEF Send, Ends
  <2>2. \A i \in DOMAIN Append(wire[p], r) :
          Append(wire[p], r)[i] = r \/ (i \in DOMAIN wire[p] /\ Append(wire[p], r)[i] = wire[p][i])
    OBVIOUS
  <2>3. ASSUME NEW q \in Proc, NEW i \in DOMAIN wire'[q] PROVE st'[wire'[q][i]] # "new"
    <3>1. wire'[q][i] = r \/ \E j \in DOMAIN wire[q] : wire'[q][i] = wire[q][j]  BY <2>1, <2>2
    <3>2. \A j \in DOMAIN wire[q] : wire[q][j] \in Req /\ st[wire[q][j]] # "new"  BY DEF Taken
    <3> QED BY <2>1, <3>1, <3>2
  <2> QED BY <2>3 DEF Taken
<1>5. ASSUME NEW p \in Proc, Boot(p) \/ BootRefused(p) \/ ConnLost(p) \/ Crash(p) PROVE Taken'
  BY <1>1, <1>5 DEF Boot, BootRefused, ConnLost, Crash, Die, InFlight, reqVars
<1>6. ASSUME NEW p \in Proc, NEW r \in Req, Turn(p, r), ~Send(p, r) PROVE Taken'
  BY <1>1, <1>6 DEF Turn, Reject, EncodeFails, AppendThrows, FileAppend, FsyncThrows, ShortWrite,
                    SendClosed, TornCrash, Die, InFlight, Ends, chainVars
<1>7. ASSUME NEW r \in Req, Reply(r) PROVE Taken'
  BY <1>1, <1>7 DEF Reply, Ends, chainVars
<1>8. CASE UNCHANGED vars
  BY <1>1, <1>8 DEF vars, chainVars, reqVars
<1> QED BY <1>2, <1>3, <1>4, <1>5, <1>6, <1>7, <1>8 DEF Next, DbStep

LEMMA OneUpNext ==
  ASSUME Shape, OneUp, [Next]_vars
  PROVE  OneUp'
<1>1. ASSUME UNCHANGED backend, \A p \in Proc : pst'[p] = "up" => pst[p] = "up"
      PROVE  OneUp'
  BY <1>1 DEF OneUp
<1>2. ASSUME NEW p \in Proc, Boot(p) PROVE OneUp'
  BY <1>2 DEF Boot, SoleWriter, OneUp, Shape, TypeOK
<1>3. \/ \E p \in Proc : Boot(p)
      \/ UNCHANGED backend /\ \A p \in Proc : pst'[p] = "up" => pst[p] = "up"
  BY DEF Next, BootRefused, DbStep, DbInsert, DbConflict, DbError, Execute, ConnLost, WireLost,
         Crash, Die, Reply, chainVars, reqVars, Turn, Reject, EncodeFails, AppendThrows, FileAppend,
         FsyncThrows, ShortWrite, Send, SendClosed, TornCrash, Advance, vars, Shape, TypeOK
<1> QED BY <1>1, <1>2, <1>3

\* What the connection of p holds for k follows on, while p adds nothing to it.
LEMMA FollowedKept ==
  ASSUME NEW p \in Proc, NEW k \in Key, Followed(p, k), Recorded(k) \subseteq Recorded(k)',
         wire'[p] = wire[p], key' = key,
         \A i \in DOMAIN wire[p] : ctr'[wire[p][i]] = ctr[wire[p][i]],
         pst'[p] = "up" /\ conn'[p] => pst[p] = "up" /\ conn[p] /\ chain'[p][k] = chain[p][k]
  PROVE  Followed(p, k)'
<1>1. Places(p, k)' = Places(p, k)  BY DEF Places
<1>2. \A i \in Places(p, k) : ctr'[wire'[p][i]] = ctr[wire[p][i]]  BY DEF Places
<1> QED BY <1>1, <1>2 DEF Followed

LEMMA LoadableKept ==
  ASSUME NEW k \in Key, log'[k] = log[k], UNCHANGED backend
  PROVE  Loadable(k)' = Loadable(k) /\ Recorded(k)' = Recorded(k)
BY DEF Loadable, Recorded

\* A step that adds no record, and moves the RAM chain of no key it does not spoil.
LEMMA GapQuiet ==
  ASSUME NoGap, UNCHANGED <<backend, key, log, wire>>,
         \A p \in Proc : \A i \in DOMAIN wire[p] : ctr'[wire[p][i]] = ctr[wire[p][i]],
         \A k \in Key : ~spoiled'[k] =>
           /\ ~spoiled[k]
           /\ \A p \in Proc : pst'[p] = "up" /\ (conn'[p] \/ backend = "file") =>
                pst[p] = "up" /\ conn[p] = conn'[p] /\ chain'[p][k] = chain[p][k]
  PROVE  NoGap'
<1> SUFFICES ASSUME NEW k \in Key, ~spoiled'[k]
             PROVE  /\ Loadable(k)'
                    /\ IF backend = "file" THEN InRam(k)' ELSE \A p \in Proc : Followed(p, k)'
  BY DEF NoGap
<1>1. Loadable(k)' = Loadable(k) /\ Recorded(k)' = Recorded(k)  BY LoadableKept
<1>2. Loadable(k) /\ IF backend = "file" THEN InRam(k) ELSE \A p \in Proc : Followed(p, k)
  BY DEF NoGap
<1>3. CASE backend = "file"
  BY <1>1, <1>2, <1>3 DEF InRam
<1>4. CASE backend # "file"
  <2>1. ASSUME NEW p \in Proc PROVE Followed(p, k)'
    <3>1. pst'[p] = "up" /\ conn'[p] => pst[p] = "up" /\ conn[p] /\ chain'[p][k] = chain[p][k]
      OBVIOUS
    <3>2. wire'[p] = wire[p] /\ key' = key  OBVIOUS
    <3> QED BY <1>1, <1>2, <1>4, <3>1, <3>2, FollowedKept
  <2> QED BY <1>1, <1>2, <1>4, <2>1
<1> QED BY <1>3, <1>4

\* An appended record of the counter after the last one keeps the log whole.
LEMMA AppendLoadable ==
  ASSUME Shape, NEW k \in Key, Loadable(k), NEW c \in Counter, c = Len(log[k]) + 1, Append1(k, c),
         UNCHANGED backend
  PROVE  Loadable(k)' /\ Len(log'[k]) = c
<1>1. log[k] \in Seq(Counter \cup {Torn}) /\ Len(log[k]) \in Nat /\ log'[k] = Append(log[k], c)
  BY DEF Shape, TypeOK, Append1
<1>2. /\ DOMAIN log[k] = 1..Len(log[k]) /\ DOMAIN log'[k] = 1..c /\ Len(log'[k]) = c
      /\ \A i \in 1..Len(log[k]) : log'[k][i] = log[k][i]
      /\ log'[k][c] = c
  BY <1>1
<1>3. CASE backend = "file"
  <2>1. \A i \in 1..c : i \in 1..Len(log[k]) \/ i = c  BY <1>1
  <2> QED BY <1>2, <1>3, <2>1 DEF Loadable
<1>4. CASE backend # "file"
  <2>1. Recorded(k)' = Recorded(k) \cup {c}
    BY LogAppended
  <2>2. Recorded(k) = 1..Len(log[k])  BY <1>4 DEF Loadable
  <2>3. Recorded(k)' = 1..c  BY <1>1, <2>1, <2>2
  <2> QED BY <1>2, <1>4, <2>3 DEF Loadable
<1> QED BY <1>2, <1>3, <1>4

LEMMA GapBoot ==
  ASSUME Shape, NoGap, NEW p \in Proc, Boot(p)
  PROVE  NoGap'
<1> SUFFICES ASSUME NEW k \in Key, ~spoiled'[k]
             PROVE  /\ Loadable(k)'
                    /\ IF backend = "file" THEN InRam(k)' ELSE \A q \in Proc : Followed(q, k)'
  BY DEF NoGap, Boot
<1>1. /\ UNCHANGED <<backend, conn, wire, log, key, ctr, spoiled>> /\ Loadable(k)
      /\ chain'[p][k] = Len(log[k])
      /\ \A q \in Proc : q # p => chain'[q] = chain[q] /\ pst'[q] = pst[q]
  BY DEF Boot, LoadedCounter, reqVars, Shape, TypeOK
<1>2. Loadable(k)' /\ Recorded(k)' = Recorded(k)  BY <1>1, LoadableKept
<1>3. CASE backend = "file"
  <2>1. \A q \in Proc : pst'[q] = "up" => q = p  BY <1>1, <1>3 DEF Boot, SoleWriter
  <2> QED BY <1>1, <1>2, <1>3, <2>1 DEF InRam
<1>4. CASE backend # "file"
  <2>1. \A q \in Proc : Followed(q, k)  BY <1>1, <1>4 DEF NoGap
  <2>2. ASSUME NEW q \in Proc, q # p PROVE Followed(q, k)'
    <3>1. wire'[q] = wire[q] /\ key' = key  BY <1>1
    <3> QED BY <1>1, <1>2, <2>1, <2>2, <3>1, FollowedKept
  <2>3. Followed(p, k)'
    <3>1. Places(p, k)' = Places(p, k)  BY <1>1 DEF Places
    <3>2. Len(log[k]) = 0 \/ Len(log[k]) \in Recorded(k)
      <4>1. Recorded(k) = 1..Len(log[k]) /\ Len(log[k]) \in Nat
        BY <1>1, <1>4 DEF Loadable, Shape, TypeOK
      <4> QED BY <4>1
    <3> QED BY <1>1, <1>2, <2>1, <3>1, <3>2 DEF Followed
  <2> QED BY <1>2, <1>4, <2>2, <2>3
<1> QED BY <1>3, <1>4

\* What moves the ratchet, to its key and to the others.
LEMMA AdvanceFacts ==
  ASSUME Shape, NEW p \in Proc, NEW r \in Req, Advance(p, r)
  PROVE  /\ pst[p] = "up" /\ st[r] = "new" /\ key[r] \in Key
         /\ ctr'[r] = chain[p][key[r]] + 1 /\ ctr'[r] \in Counter /\ chain[p][key[r]] \in Nat
         /\ chain'[p][key[r]] = ctr'[r]
         /\ \A q \in Req : q # r => ctr'[q] = ctr[q]
         /\ \A q \in Proc, k \in Key : q # p \/ k # key[r] => chain'[q][k] = chain[q][k]
         /\ UNCHANGED <<backend, key>>
BY DEF Advance, NextCounter, CanTake, Shape, TypeOK

\* A turn that moves the ratchet and leaves no record spoils the key, or is on a closed client.
LEMMA GapLost ==
  ASSUME Shape, Taken, NoGap, NEW p \in Proc, NEW r \in Req,
         EncodeFails(p, r) \/ AppendThrows(p, r) \/ SendClosed(p, r)
  PROVE  NoGap'
<1>1. Advance(p, r) /\ UNCHANGED <<pst, conn, wire, log>>
  BY DEF EncodeFails, AppendThrows, SendClosed
<1>2. /\ st[r] = "new" /\ key[r] \in Key /\ UNCHANGED <<backend, key>>
      /\ \A q \in Req : q # r => ctr'[q] = ctr[q]
      /\ \A q \in Proc, k \in Key : q # p \/ k # key[r] => chain'[q][k] = chain[q][k]
  BY <1>1, AdvanceFacts
<1>3. ASSUME NEW q \in Proc, NEW i \in DOMAIN wire[q] PROVE ctr'[wire[q][i]] = ctr[wire[q][i]]
  BY <1>2 DEF Taken, Shape, TypeOK
<1>4. \/ backend # "file" /\ ~conn[p] /\ UNCHANGED spoiled
      \/ spoiled' = [spoiled EXCEPT ![key[r]] = TRUE]
  BY DEF EncodeFails, AppendThrows, SendClosed, Spoil
<1>5. ASSUME NEW k \in Key, ~spoiled'[k]
      PROVE  /\ ~spoiled[k]
             /\ \A q \in Proc : pst'[q] = "up" /\ (conn'[q] \/ backend = "file") =>
                  pst[q] = "up" /\ conn[q] = conn'[q] /\ chain'[q][k] = chain[q][k]
  <2>1. spoiled \in [Key -> BOOLEAN]  BY DEF Shape, TypeOK
  <2>2. CASE backend # "file" /\ ~conn[p] /\ UNCHANGED spoiled
    BY <1>1, <1>2, <1>5, <2>2
  <2>3. CASE spoiled' = [spoiled EXCEPT ![key[r]] = TRUE]
    <3>1. k # key[r] /\ ~spoiled[k]  BY <1>2, <1>5, <2>1, <2>3
    <3> QED BY <1>1, <1>2, <3>1
  <2> QED BY <1>4, <2>2, <2>3
<1> QED BY <1>1, <1>2, <1>3, <1>5, GapQuiet

LEMMA GapFile ==
  ASSUME Shape, OneUp, NoGap, NEW p \in Proc, NEW r \in Req,
         \/ FileAppend(p, r) \/ FsyncThrows(p, r) \/ ShortWrite(p, r) \/ TornCrash(p, r)
  PROVE  NoGap'
<1>1. /\ backend = "file" /\ UNCHANGED <<backend, key>> /\ pst[p] = "up" /\ key[r] \in Key
      /\ \A q \in Proc : pst'[q] = "up" => pst[q] = "up"
  BY DEF FileAppend, FsyncThrows, ShortWrite, TornCrash, Die, Advance, CanTake, Shape, TypeOK
<1>2. \A q \in Proc : pst[q] = "up" => q = p  BY <1>1 DEF OneUp
<1> SUFFICES ASSUME NEW k \in Key, ~spoiled'[k] PROVE Loadable(k)' /\ InRam(k)'
  BY <1>1 DEF NoGap
<1>3. log \in [Key -> Seq(Counter \cup {Torn})] /\ spoiled \in [Key -> BOOLEAN]
  BY DEF Shape, TypeOK
<1>4. ~spoiled[k] /\ (k = key[r] => FileAppend(p, r) \/ FsyncThrows(p, r))
  BY <1>1, <1>3 DEF FileAppend, FsyncThrows, ShortWrite, TornCrash, Spoil
<1>5. Loadable(k) /\ InRam(k)  BY <1>1, <1>4 DEF NoGap
<1>6. CASE k # key[r]
  <2>1. log'[k] = log[k]
    BY <1>3, <1>6 DEF FileAppend, FsyncThrows, ShortWrite, TornCrash, Append1
  <2>2. \A q \in Proc : chain'[q][k] = chain[q][k]
    BY <1>6, AdvanceFacts DEF FileAppend, FsyncThrows, ShortWrite, TornCrash, Die
  <2>3. Loadable(k)'  BY <1>1, <1>5, <2>1, LoadableKept
  <2> QED BY <1>1, <1>5, <2>1, <2>2, <2>3 DEF InRam
<1>7. CASE k = key[r]
  <2>1. Advance(p, r) /\ Append1(k, chain[p][k] + 1)
    BY <1>4, <1>7 DEF FileAppend, FsyncThrows, NextCounter
  <2>2. chain[p][k] + 1 \in Counter /\ chain'[p][k] = chain[p][k] + 1
    BY <1>7, <2>1, AdvanceFacts
  <2>3. chain[p][k] = Len(log[k])  BY <1>1, <1>5 DEF InRam
  <2>4. Loadable(k)' /\ Len(log'[k]) = chain[p][k] + 1
    BY <1>1, <1>5, <2>1, <2>2, <2>3, AppendLoadable
  <2> QED BY <1>1, <1>2, <2>2, <2>4 DEF InRam
<1> QED BY <1>6, <1>7

\* An INSERT goes behind that of the counter before it.
LEMMA GapSend ==
  ASSUME Shape, Taken, NoGap, NEW p \in Proc, NEW r \in Req, Send(p, r)
  PROVE  NoGap'
<1>1. /\ Advance(p, r) /\ conn[p] /\ backend = "postgres" /\ UNCHANGED <<pst, conn, log, spoiled>>
      /\ wire' = [wire EXCEPT ![p] = Append(wire[p], r)]
  BY DEF Send
<1>2. /\ pst[p] = "up" /\ st[r] = "new" /\ key[r] \in Key /\ UNCHANGED <<backend, key>>
      /\ ctr'[r] = chain[p][key[r]] + 1 /\ chain[p][key[r]] \in Nat
      /\ chain'[p][key[r]] = ctr'[r]
      /\ \A q \in Req : q # r => ctr'[q] = ctr[q]
      /\ \A q \in Proc, k \in Key : q # p \/ k # key[r] => chain'[q][k] = chain[q][k]
  BY <1>1, AdvanceFacts
<1>3. \A q \in Proc : \A i \in DOMAIN wire[q] : wire[q][i] \in Req /\ wire[q][i] # r
  BY <1>2 DEF Taken, Shape, TypeOK
<1> SUFFICES ASSUME NEW k \in Key, ~spoiled'[k]
             PROVE  Loadable(k)' /\ \A q \in Proc : Followed(q, k)'
  BY <1>1, <1>2 DEF NoGap
<1>4. Loadable(k) /\ \A q \in Proc : Followed(q, k)  BY <1>1 DEF NoGap
<1>5. Loadable(k)' /\ Recorded(k)' = Recorded(k)  BY <1>1, <1>2, <1>4, LoadableKept
<1>6. ASSUME NEW q \in Proc, q # p PROVE Followed(q, k)'
  <2>1. wire'[q] = wire[q] /\ key' = key  BY <1>1, <1>2, <1>6 DEF Shape, TypeOK
  <2>2. \A i \in DOMAIN wire[q] : ctr'[wire[q][i]] = ctr[wire[q][i]]  BY <1>2, <1>3
  <2>3. pst'[q] = "up" /\ conn'[q] => pst[q] = "up" /\ conn[q] /\ chain'[q][k] = chain[q][k]
    BY <1>1, <1>2, <1>6
  <2> QED BY <1>4, <1>5, <2>1, <2>2, <2>3, FollowedKept
<1>7. Followed(p, k)'
  <2> DEFINE n == Len(wire[p]) + 1
  <2>1. wire[p] \in Seq(Req) /\ Len(wire[p]) \in Nat /\ wire'[p] = Append(wire[p], r)
    BY <1>1 DEF Shape, TypeOK
  <2>2. /\ DOMAIN wire'[p] = 1..n /\ DOMAIN wire[p] = 1..Len(wire[p]) /\ wire'[p][n] = r
        /\ \A i \in DOMAIN wire[p] : wire'[p][i] = wire[p][i] /\ i < n
        /\ 1..n = DOMAIN wire[p] \cup {n}
    BY <2>1
  <2> HIDE DEF n
  <2>3. \A i : i \in Places(p, k)' <=> i \in Places(p, k) \/ (i = n /\ key[r] = k)
    BY <1>2, <2>2 DEF Places
  <2>4. \A i \in Places(p, k) : ctr'[wire'[p][i]] = ctr[wire[p][i]] /\ i < n
    BY <1>2, <1>3, <2>2 DEF Places
  <2>5. ctr'[wire'[p][n]] = ctr'[r]  BY <2>2
  <2>6. \/ chain[p][k] = 0 \/ chain[p][k] \in Recorded(k)
        \/ \E j \in Places(p, k) : ctr[wire[p][j]] = chain[p][k]
    BY <1>1, <1>2, <1>4 DEF Followed
  <2>7. ASSUME NEW i \in Places(p, k)'
        PROVE  \/ ctr'[wire'[p][i]] = 1 \/ ctr'[wire'[p][i]] - 1 \in Recorded(k)
               \/ \E j \in Places(p, k)' : j < i /\ ctr'[wire'[p][j]] = ctr'[wire'[p][i]] - 1
    <3>1. CASE i \in Places(p, k)
      <4>1. \/ ctr[wire[p][i]] = 1 \/ ctr[wire[p][i]] - 1 \in Recorded(k)
            \/ \E j \in Places(p, k) : j < i /\ ctr[wire[p][j]] = ctr[wire[p][i]] - 1
        BY <1>4, <3>1 DEF Followed
      <4> QED BY <2>3, <2>4, <3>1, <4>1
    <3>2. CASE i = n /\ key[r] = k
      <4>1. ctr'[wire'[p][i]] = chain[p][k] + 1 /\ chain[p][k] \in Nat  BY <1>2, <2>5, <3>2
      <4>2. ctr'[wire'[p][i]] - 1 = chain[p][k]  BY <4>1
      <4>3. CASE chain[p][k] = 0  BY <4>1, <4>3
      <4>4. CASE chain[p][k] \in Recorded(k)  BY <4>2, <4>4
      <4>5. CASE \E j \in Places(p, k) : ctr[wire[p][j]] = chain[p][k]
        BY <2>3, <2>4, <3>2, <4>2, <4>5
      <4> QED BY <2>6, <4>3, <4>4, <4>5
    <3> QED BY <2>3, <3>1, <3>2
  <2>8. \/ chain'[p][k] = 0 \/ chain'[p][k] \in Recorded(k)
        \/ \E j \in Places(p, k)' : ctr'[wire'[p][j]] = chain'[p][k]
    <3>1. CASE key[r] = k  BY <1>2, <2>3, <2>5, <3>1
    <3>2. CASE key[r] # k
      <4>1. chain'[p][k] = chain[p][k]  BY <1>2, <3>2
      <4> QED BY <2>3, <2>4, <2>6, <4>1
    <3> QED BY <3>1, <3>2
  <2> QED BY <1>5, <2>7, <2>8 DEF Followed
<1> QED BY <1>5, <1>6, <1>7

\* The INSERT at the head of a connection is of the next counter, or of one that is recorded.
LEMMA GapDbStep ==
  ASSUME Shape, NoGap, NEW p \in Proc, NEW r \in Req,
         DbInsert(p, r) \/ DbConflict(p, r) \/ DbError(p, r)
  PROVE  NoGap'
<1>1. /\ backend = "postgres" /\ wire[p] \in Seq(Req) /\ wire[p] # <<>> /\ r = wire[p][1]
      /\ wire' = [wire EXCEPT ![p] = Tail(wire[p])] /\ wire'[p] = Tail(wire[p])
      /\ UNCHANGED <<backend, pst, chain, conn, key, ctr>>
      /\ log \in [Key -> Seq(Counter \cup {Torn})] /\ key[r] \in Key
      /\ spoiled \in [Key -> BOOLEAN]
  <2>1. Execute(p, r)  BY DEF DbInsert, DbConflict, DbError
  <2>2. wire[p] \in Seq(Req) /\ wire[p] # <<>> /\ r = wire[p][1]
    BY <2>1 DEF Execute, Shape, TypeOK
  <2>3. wire' = [wire EXCEPT ![p] = Tail(wire[p])] /\ wire \in [Proc -> Seq(Req)]
    BY <2>1 DEF Execute, Shape, TypeOK
  <2> QED BY <2>1, <2>2, <2>3 DEF Execute, Shape, TypeOK
<1>2. /\ 1 \in DOMAIN wire[p]
      /\ \A i \in DOMAIN wire[p] : i \in Nat /\ i >= 1
      /\ \A i : i \in DOMAIN wire'[p] <=> i \in Nat /\ i >= 1 /\ i + 1 \in DOMAIN wire[p]
      /\ \A i \in DOMAIN wire'[p] : wire'[p][i] = wire[p][i + 1]
  <2> DEFINE s == wire[p]
  <2>1. /\ s \in Seq(Req) /\ s # <<>> /\ Len(s) \in Nat /\ Len(s) # 0
        /\ DOMAIN s = 1..Len(s)
    BY <1>1
  <2>2. /\ Tail(s) \in Seq(Req) /\ Len(Tail(s)) = Len(s) - 1
        /\ DOMAIN Tail(s) = 1..(Len(s) - 1)
        /\ \A i \in 1..(Len(s) - 1) : Tail(s)[i] = s[i + 1]
    BY <2>1
  <2>3. wire'[p] = Tail(s)  BY <1>1
  <2> HIDE DEF s
  <2>4. \A i : i \in 1..(Len(s) - 1) <=> i \in Nat /\ i >= 1 /\ i + 1 \in 1..Len(s)
    BY <2>1
  <2> QED BY <2>1, <2>2, <2>3, <2>4 DEF s
<1>3. ctr[r] \in Counter /\ ctr[r] \in Nat
  BY <1>1, <1>2, CounterAssumption DEF Shape, WireHasCounters
<1> SUFFICES ASSUME NEW k \in Key, ~spoiled'[k]
             PROVE  Loadable(k)' /\ \A q \in Proc : Followed(q, k)'
  BY <1>1 DEF NoGap
<1>4. ~spoiled[k]  BY <1>1 DEF DbInsert, DbConflict, DbError, Spoil
<1>5. Loadable(k) /\ \A q \in Proc : Followed(q, k)  BY <1>1, <1>4 DEF NoGap
<1>6. Recorded(k) = 1..Len(log[k]) /\ Len(log[k]) \in Nat
  BY <1>1, <1>5 DEF Loadable
<1>7. key[r] = k => ctr[r] = 1 \/ ctr[r] - 1 \in Recorded(k)
  <2> SUFFICES ASSUME key[r] = k PROVE ctr[r] = 1 \/ ctr[r] - 1 \in Recorded(k)
    OBVIOUS
  <2>1. 1 \in Places(p, k)  BY <1>1, <1>2 DEF Places
  <2>2. \A j \in Places(p, k) : ~(j < 1)  BY <1>2 DEF Places
  <2> QED BY <1>1, <1>5, <2>1, <2>2 DEF Followed
\* Once it is executed, its counter is recorded: by itself, or by another process before it.
<1>8. /\ Loadable(k)' /\ Recorded(k) \subseteq Recorded(k)'
      /\ key[r] = k => ctr[r] \in Recorded(k)'
  <2>1. CASE key[r] = k /\ DbInsert(p, r)
    <3>1. Append1(k, ctr[r]) /\ ctr[r] \notin Recorded(k)  BY <2>1 DEF DbInsert
    <3>2. ctr[r] = Len(log[k]) + 1  BY <1>3, <1>6, <1>7, <2>1, <3>1, CounterAssumption
    <3>3. Loadable(k)' /\ Len(log'[k]) = ctr[r]
      BY <1>1, <1>3, <1>5, <3>1, <3>2, AppendLoadable
    <3>4. Recorded(k)' = Recorded(k) \cup {ctr[r]}  BY <1>3, <3>1, LogAppended
    <3> QED BY <3>3, <3>4
  <2>2. CASE key[r] = k /\ DbConflict(p, r)
    <3>1. log'[k] = log[k] /\ ctr[r] \in Recorded(k)  BY <2>2 DEF DbConflict
    <3> QED BY <1>1, <1>5, <3>1, LoadableKept
  <2>3. CASE key[r] = k /\ DbError(p, r)
    BY <1>1, <2>3 DEF DbError, Spoil
  <2>4. CASE key[r] # k
    <3>1. log'[k] = log[k]  BY <1>1, <2>4 DEF DbInsert, DbConflict, DbError, Append1
    <3> QED BY <1>1, <1>5, <2>4, <3>1, LoadableKept
  <2> QED BY <2>1, <2>2, <2>3, <2>4
<1>9. ASSUME NEW q \in Proc, q # p PROVE Followed(q, k)'
  <2>1. wire'[q] = wire[q] /\ key' = key /\ ctr' = ctr  BY <1>1, <1>9
  <2>2. pst'[q] = "up" /\ conn'[q] => pst[q] = "up" /\ conn[q] /\ chain'[q][k] = chain[q][k]
    BY <1>1
  <2> QED BY <1>5, <1>8, <2>1, <2>2, FollowedKept
<1>10. Followed(p, k)'
  <2>1. \A i \in Places(p, k)' : /\ i + 1 \in Places(p, k) /\ wire'[p][i] = wire[p][i + 1]
                                 /\ i \in Nat /\ i >= 1
    BY <1>1, <1>2 DEF Places
  <2>2. ASSUME NEW j \in Places(p, k)
        PROVE  (j = 1 /\ ctr[wire[p][j]] \in Recorded(k)') \/ (j # 1 /\ j - 1 \in Places(p, k)')
    <3>1. CASE j = 1  BY <1>1, <1>8, <2>2, <3>1 DEF Places
    <3>2. CASE j # 1
      <4>1. j \in DOMAIN wire[p] /\ j \in Nat /\ j >= 1 /\ key[wire[p][j]] = k  BY <1>2 DEF Places
      <4>2. j - 1 \in Nat /\ j - 1 >= 1 /\ (j - 1) + 1 = j  BY <3>2, <4>1
      <4>3. j - 1 \in DOMAIN wire'[p] /\ wire'[p][j - 1] = wire[p][j]  BY <1>2, <4>1, <4>2
      <4> QED BY <1>1, <3>2, <4>1, <4>3 DEF Places
    <3> QED BY <3>1, <3>2
  <2>3. \A j \in Places(p, k) : j # 1 => wire'[p][j - 1] = wire[p][j]
    <3> SUFFICES ASSUME NEW j \in Places(p, k), j # 1 PROVE wire'[p][j - 1] = wire[p][j]
      OBVIOUS
    <3>1. j - 1 \in Places(p, k)' /\ j \in Nat  BY <1>2, <2>2 DEF Places
    <3>2. (j - 1) + 1 = j  BY <3>1
    <3> QED BY <2>1, <3>1, <3>2
  <2>4. ASSUME NEW i \in Places(p, k)'
        PROVE  \/ ctr'[wire'[p][i]] = 1 \/ ctr'[wire'[p][i]] - 1 \in Recorded(k)'
               \/ \E j \in Places(p, k)' : j < i /\ ctr'[wire'[p][j]] = ctr'[wire'[p][i]] - 1
    <3>1. i + 1 \in Places(p, k) /\ wire'[p][i] = wire[p][i + 1] /\ i \in Nat  BY <2>1
    <3>2. \/ ctr[wire[p][i + 1]] = 1 \/ ctr[wire[p][i + 1]] - 1 \in Recorded(k)
          \/ \E j \in Places(p, k) : j < i + 1 /\ ctr[wire[p][j]] = ctr[wire[p][i + 1]] - 1
      BY <1>5, <3>1 DEF Followed
    <3>3. ASSUME NEW j \in Places(p, k), j < i + 1, ctr[wire[p][j]] = ctr[wire[p][i + 1]] - 1
          PROVE  \/ ctr'[wire'[p][i]] - 1 \in Recorded(k)'
                 \/ \E l \in Places(p, k)' : l < i /\ ctr'[wire'[p][l]] = ctr'[wire'[p][i]] - 1
      <4>1. CASE j = 1  BY <1>1, <2>2, <3>1, <3>3, <4>1
      <4>2. CASE j # 1
        <5>1. j \in Nat  BY <1>2 DEF Places
        <5>2. j - 1 < i  BY <3>1, <3>3, <5>1
        <5>3. j - 1 \in Places(p, k)' /\ wire'[p][j - 1] = wire[p][j]  BY <2>2, <2>3, <4>2
        <5> QED BY <1>1, <3>1, <3>3, <5>2, <5>3
      <4> QED BY <4>1, <4>2
    <3> QED BY <1>1, <1>8, <3>1, <3>2, <3>3
  <2>5. pst[p] = "up" /\ conn[p] =>
          \/ chain[p][k] = 0 \/ chain[p][k] \in Recorded(k)'
          \/ \E j \in Places(p, k)' : ctr[wire'[p][j]] = chain[p][k]
    <3>1. pst[p] = "up" /\ conn[p] =>
            \/ chain[p][k] = 0 \/ chain[p][k] \in Recorded(k)
            \/ \E j \in Places(p, k) : ctr[wire[p][j]] = chain[p][k]
      BY <1>5 DEF Followed
    <3>2. ASSUME NEW j \in Places(p, k), ctr[wire[p][j]] = chain[p][k]
          PROVE  \/ chain[p][k] \in Recorded(k)'
                 \/ \E l \in Places(p, k)' : ctr[wire'[p][l]] = chain[p][k]
      BY <2>2, <2>3, <3>2
    <3> QED BY <1>8, <3>1, <3>2
  <2> QED BY <1>1, <2>4, <2>5 DEF Followed
<1> QED BY <1>8, <1>9, <1>10

LEMMA GapNext == GapInv /\ [Next]_vars => GapInv'
<1> SUFFICES ASSUME GapInv, [Next]_vars PROVE NoGap'
  BY ShapeNext, TakenNext, OneUpNext DEF GapInv
<1>1. Shape /\ OneUp /\ Taken /\ NoGap  BY DEF GapInv
<1>2. ASSUME UNCHANGED <<backend, key, log, wire, ctr, chain, spoiled>>,
             \A p \in Proc : pst'[p] = "up" => pst[p] = "up",
             \A p \in Proc : conn'[p] = conn[p] \/ (~conn'[p] /\ backend # "file")
      PROVE  NoGap'
  BY <1>1, <1>2, GapQuiet
<1>3. ASSUME NEW p \in Proc, BootRefused(p) \/ Crash(p) PROVE NoGap'
  BY <1>1, <1>2, <1>3 DEF BootRefused, Crash, Die, reqVars, Shape, TypeOK
<1>4. ASSUME NEW p \in Proc, ConnLost(p) PROVE NoGap'
  <2>1. \A q \in Proc : conn'[q] = conn[q] \/ (~conn'[q] /\ backend # "file")
    BY <1>1, <1>4 DEF ConnLost, Shape, TypeOK
  <2> QED BY <1>2, <1>4, <2>1 DEF ConnLost
<1>5. ASSUME NEW p \in Proc, WireLost(p) PROVE NoGap'
  <2>1. /\ UNCHANGED <<backend, pst, chain, conn, log, key, ctr, spoiled>>
        /\ wire' = [wire EXCEPT ![p] = <<>>] /\ (~conn[p] \/ pst[p] # "up")
        /\ wire \in [Proc -> Seq(Req)]
    BY <1>1, <1>5 DEF WireLost, reqVars, Shape, TypeOK
  <2> SUFFICES ASSUME NEW k \in Key, ~spoiled[k]
               PROVE  /\ Loadable(k)'
                      /\ IF backend = "file" THEN InRam(k)' ELSE \A q \in Proc : Followed(q, k)'
    BY <2>1 DEF NoGap
  <2>2. Loadable(k) /\ IF backend = "file" THEN InRam(k) ELSE \A q \in Proc : Followed(q, k)
    BY <1>1 DEF NoGap
  <2>3. Loadable(k)' /\ Recorded(k)' = Recorded(k)  BY <2>1, <2>2, LoadableKept
  <2>4. CASE backend = "file"  BY <2>1, <2>2, <2>3, <2>4 DEF InRam
  <2>5. ASSUME backend # "file", NEW q \in Proc PROVE Followed(q, k)'
    <3>1. CASE q = p
      <4>1. wire'[p] = <<>> /\ Places(p, k)' = {}  BY <2>1 DEF Places
      <4> QED BY <2>1, <3>1, <4>1 DEF Followed
    <3>2. CASE q # p
      <4>1. wire'[q] = wire[q]  BY <2>1, <3>2
      <4> QED BY <2>1, <2>2, <2>3, <2>5, <4>1, FollowedKept
    <3> QED BY <3>1, <3>2
  <2> QED BY <2>3, <2>4, <2>5
<1>6. ASSUME NEW r \in Req, Reply(r) PROVE NoGap'
  BY <1>2, <1>6 DEF Reply, chainVars
<1>7. ASSUME NEW p \in Proc, NEW r \in Req, Reject(p, r) PROVE NoGap'
  BY <1>2, <1>7 DEF Reject, chainVars
<1>8. CASE UNCHANGED vars
  BY <1>2, <1>8 DEF vars, chainVars, reqVars
<1> QED
  BY <1>1, <1>3, <1>4, <1>5, <1>6, <1>7, <1>8, GapBoot, GapLost, GapFile, GapSend, GapDbStep
     DEF Next, DbStep, Turn

LEMMA GapInit == Init => GapInv
<1> SUFFICES ASSUME Init PROVE OneUp /\ Taken /\ NoGap
  BY ShapeInit DEF GapInv
<1>1. \A p \in Proc : pst[p] = "new" /\ wire[p] = <<>>  BY DEF Init
<1>2. \A k \in Key : log[k] = <<>> /\ Recorded(k) = {} /\ Len(log[k]) = 0 /\ DOMAIN log[k] = {}
  BY DEF Init, Recorded
<1>3. \A k \in Key : Loadable(k)  BY <1>2 DEF Loadable
<1>4. \A p \in Proc, k \in Key : Places(p, k) = {}  BY <1>1 DEF Places
<1> QED BY <1>1, <1>3, <1>4 DEF OneUp, Taken, NoGap, InRam, Followed

\* A restart refuses a log only if an issue for its key failed between the ratchet and the
\* log: crashes, conflicts with other writers, lost connections and rejected requests leave
\* no gap, with either store, whatever else fails.
THEOREM LogsStayLoadable == Spec => []LoadableUnlessSpoiled
<1>1. GapInv => LoadableUnlessSpoiled  BY DEF GapInv, NoGap, LoadableUnlessSpoiled
<1> QED BY <1>1, GapInit, GapNext, PTL DEF Spec
==============================================================================
