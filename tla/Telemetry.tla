------------------------------ MODULE Telemetry ------------------------------
(***************************************************************************)
(* What a server leaves behind for its operators: the audit log of         *)
(* audit.mjs with its rotation, the spans otlp.mjs exports, the trace      *)
(* context of trace.mjs, and the log reader qv-audit.mjs.                  *)
(*                                                                         *)
(* An event is a record of its number, name, status, latency and trace; a  *)
(* line counts as one unit of RotateAt. The text of a line is left out, but *)
(* not its end: a write that is cut short leaves a line without a newline, *)
(* and the next line continues it.                                         *)
(*                                                                         *)
(* The names of the specification carry a prefix, since Operations_proofs  *)
(* extends this module and another one that has an Init and a Next.        *)
(***************************************************************************)
EXTENDS Integers, Sequences, FiniteSets, SequencesExt

CONSTANTS RotateAt,   \* QV_AUDIT_ROTATE_BYTES in lines; 0: no rotation
          Keep,       \* QV_AUDIT_ROTATE_KEEP
          BatchMax,   \* QV_OTLP_BATCH_MAX
          Queries,    \* what is asked of qv-audit
          Reported    \* bounds the model: what the routes report, in order, as
                      \* [event, status, ms, traced, inherited]

ASSUME LogAssumption == RotateAt \in Nat /\ Keep \in Nat
\* 0 and a value that is not a number are taken as they are; the buffer then never empties.
ASSUME BatchAssumption == BatchMax \in Nat \ {0}

\* What the routes report, and what may be asked of it: 0 is no filter, and a status below
\* 10 a class of codes.
ASSUME ReportAssumption ==
  /\ Reported \in Seq([event : STRING, status : Nat, ms : Nat, traced : BOOLEAN, inherited : STRING])
  /\ Queries \subseteq [event : STRING, status : Nat, since : Nat, until : Nat]

NoFile == <<[n |-> 0, newline |-> TRUE]>>  \* stands for a name without a file

VARIABLES
  up,      \* the process runs
  files,   \* files[0] is audit.log, files[i] is audit.log.i: lines, oldest first
  fd,      \* the log is open
  broken,  \* fileBroken
  bytes,   \* bytesWritten
  events,  \* the events so far; the n-th is Reported[n]
  written, \* history: the numbers of those whose line was written, in order
  faulty,  \* history: a file could not be renamed
  buf,     \* the exporter's buffer
  timer,   \* its timer is set
  waiting, \* timer callbacks that wait for their POST to end
  posted,  \* history: spans given to the collector, in order
  lost     \* history: spans in the buffer of a process that ended

log           == <<files, fd, broken, bytes, written, faulty>>
exporter      == <<buf, timer, waiting, posted, lost>>
telemetryVars == <<up, log, events, exporter>>

TelemetryInit ==
  /\ up = FALSE
  /\ files = [i \in 0..Keep |-> NoFile]
  /\ fd = FALSE /\ broken = FALSE /\ bytes = 0
  /\ events = 0 /\ written = <<>> /\ faulty = FALSE
  /\ buf = <<>> /\ timer = FALSE /\ waiting = 0 /\ posted = <<>> /\ lost = {}

-------------------------------------------------------------------------------
(***************************************************************************)
(* The audit log.                                                          *)
(***************************************************************************)
\* openLog: appends to what is there.
OpenLog(fs) ==
  /\ files' = [fs EXCEPT ![0] = IF @ = NoFile THEN <<>> ELSE @]
  /\ fd' = TRUE
  /\ bytes' = IF fs[0] = NoFile THEN 0 ELSE Len(fs[0])

OpenFails(fs) == files' = fs /\ fd' = FALSE /\ UNCHANGED bytes

\* Mutant: the files are renamed from the newest to the oldest, each over the next.
ShiftedUpwards(fs, failed, unlinked) ==
  [i \in 0..Keep |-> IF fs[0] = NoFile \/ Keep = 0 THEN fs[i]
                     ELSE IF i = Keep THEN fs[0] ELSE NoFile]

\* rotate's loop, from the oldest file to the newest. Step i renames file i - 1 to i, if
\* there is one and the rename does not fail; the last name is unlinked first.
Shifted(fs, failed, unlinked) ==
  LET moves(i) == i \in 1..Keep /\ fs[i - 1] # NoFile /\ i \notin failed
      dropped(i) == i = Keep /\ i > 0 /\ fs[i - 1] # NoFile /\ unlinked
  IN [i \in 0..Keep |-> IF moves(i) THEN fs[i - 1]
                        ELSE IF moves(i + 1) \/ dropped(i) THEN NoFile
                        ELSE fs[i]]

\* A second openLog is tried when the first throws; after that the log stays closed.
Rotate(fs) ==
  \E failed \in SUBSET (1..Keep), unlinked \in BOOLEAN :
    /\ LET moved == Shifted(fs, failed, unlinked) IN OpenLog(moved) \/ OpenFails(moved)
    /\ faulty' = (faulty \/ failed # {})

\* writeSync puts all of the line or, on a full disk, its beginning; its count is ignored.
WriteLine(n) ==
  /\ written' = Append(written, n)
  /\ \E whole \in BOOLEAN :
       LET fs == [files EXCEPT ![0] = Append(@, [n |-> n, newline |-> whole])]
       IN IF RotateAt > 0 /\ bytes + 1 >= RotateAt THEN Rotate(fs)
          ELSE files' = fs /\ bytes' = bytes + 1 /\ UNCHANGED <<fd, faulty>>
  /\ UNCHANGED broken

\* The file part of event(): a write that throws ends the file log of this process.
LogEvent(n) ==
  \/ fd /\ ~broken /\ WriteLine(n)
  \/ fd /\ ~broken /\ broken' = TRUE /\ UNCHANGED <<files, fd, bytes, written, faulty>>
  \/ ~(fd /\ ~broken) /\ UNCHANGED log

-------------------------------------------------------------------------------
(***************************************************************************)
(* The exporter.                                                           *)
(***************************************************************************)
\* deriveTraceContext: the caller's trace if its header is valid, else one of our own.
\* A span of our own is minted for every request.
DeriveTraceContext(n) ==
  LET inherited == Reported[n].inherited IN
  [trace  |-> IF inherited # "none" THEN <<inherited, 0>> ELSE <<"own", n>>,
   span   |-> n,
   parent |-> inherited]

AuditToSpan(n) == IF Reported[n].traced THEN <<DeriveTraceContext(n)>> ELSE <<>>

\* splice(0, batchMax): what it returns, and what it leaves.
Batch(spans) == SubSeq(spans, 1, Min({BatchMax, Len(spans)}))
Rest(spans)  == SubSeq(spans, BatchMax + 1, Len(spans))

\* Mutant: a full buffer waits for the timer, and sets none.
PushWaits(span) ==
  /\ buf' = buf \o span
  /\ timer' = (timer \/ (span # <<>> /\ Len(buf') < BatchMax))
  /\ UNCHANGED posted

\* onAuditEvent: a full buffer is posted at once, whatever the timer does; else schedule().
Push(span) ==
  LET all == buf \o span IN
  IF span # <<>> /\ Len(all) >= BatchMax
  THEN /\ posted' = posted \o Batch(all)
       /\ buf' = Rest(all)
       /\ UNCHANGED timer
  ELSE buf' = all /\ timer' = (timer \/ span # <<>>) /\ UNCHANGED posted

\* The timer's callback up to its await: no timer, and what is there goes out.
Flush ==
  /\ up /\ timer
  /\ timer' = FALSE
  /\ posted' = posted \o Batch(buf)
  /\ buf' = Rest(buf)
  /\ waiting' = waiting + 1
  /\ UNCHANGED <<up, log, events, lost>>

\* The POST ended, with a status, an error or a timeout. A collector may also never let
\* it end: headers, and then nothing.
PostEnds ==
  /\ up /\ waiting > 0
  /\ waiting' = waiting - 1
  /\ timer' = (timer \/ buf # <<>>)
  /\ UNCHANGED <<up, log, events, buf, posted, lost>>

-------------------------------------------------------------------------------
(***************************************************************************)
(* The server.                                                             *)
(***************************************************************************)
Boot ==
  /\ ~up
  /\ up' = TRUE
  /\ \/ OpenLog(files) /\ broken' = FALSE
     \/ OpenFails(files) /\ broken' = TRUE
  /\ UNCHANGED <<events, written, faulty, exporter>>

\* event(): the line, then the sink, in one turn. Nobody waits for either.
Event ==
  /\ up /\ events < Len(Reported)
  /\ events' = events + 1
  /\ LogEvent(events') /\ Push(AuditToSpan(events'))
  /\ UNCHANGED <<up, waiting, lost>>

\* The teardown closes the log and forgets the exporter; a crash does neither. Either
\* way the spans in the buffer are gone.
Down ==
  /\ up
  /\ up' = FALSE
  /\ fd' = FALSE
  /\ lost' = lost \cup Range(buf)
  /\ buf' = <<>> /\ timer' = FALSE /\ waiting' = 0
  /\ UNCHANGED <<files, broken, bytes, written, faulty, events, posted>>

TelemetryNext == Boot \/ Event \/ Flush \/ PostEnds \/ Down

TelemetrySpec == TelemetryInit /\ [][TelemetryNext]_telemetryVars

\* The timer of a process that lives is due after flushMs. Posts need not end.
TelemetryFairSpec == TelemetrySpec /\ WF_telemetryVars(Flush)

-------------------------------------------------------------------------------
(***************************************************************************)
(* qv-audit.mjs over one file.                                             *)
(***************************************************************************)
\* The members of s at the places in I, in their order.
Kept(s, I) ==
  LET upTo[i \in 0..Len(s)] ==
        IF i = 0 THEN <<>> ELSE IF i \in I THEN Append(upTo[i - 1], s[i]) ELSE upTo[i - 1]
  IN upTo[Len(s)]

\* The readable lines: one that is cut short, or that continues such a line, is not JSON.
Lines(file) ==
  IF file = NoFile THEN <<>>
  ELSE Kept([i \in DOMAIN file |-> file[i].n],
            {i \in DOMAIN file : file[i].newline /\ (i = 1 \/ file[i - 1].newline)})

\* statusMatches: "401" or the class "4xx"; events without a status match no filter.
StatusMatches(code, flt) ==
  \/ flt = 0
  \/ code # 0 /\ (IF flt < 10 THEN code \div 100 = flt ELSE code = flt)

\* Mutant: --until takes the events of its own instant too.
MatchesUntilToo(n, q) ==
  /\ q.event # "" => Reported[n].event = q.event
  /\ StatusMatches(Reported[n].status, q.status)
  /\ n >= q.since /\ (q.until # 0 => n <= q.until)

\* matchesFilters. The clock of an event is its number; 0 is no filter.
MatchesFilters(n, q) ==
  /\ q.event # "" => Reported[n].event = q.event
  /\ StatusMatches(Reported[n].status, q.status)
  /\ q.since # 0 => n >= q.since
  /\ q.until # 0 => n < q.until

Matching(file, q) ==
  LET ns == Lines(file) IN Kept(ns, {i \in DOMAIN ns : MatchesFilters(ns[i], q)})

\* What stands at the place k, counted from 0, when s is sorted.
Ranked(s, k) == Min({x \in Range(s) : Cardinality({i \in DOMAIN s : s[i] <= x}) > k})

\* Summary.pct with p in percent: the sorted latencies at min(n - 1, floor(n p)).
Pct(latencies, p) ==
  LET n == Len(latencies)
      k == (n * p) \div 100
  IN Ranked(latencies, IF k < n THEN k ELSE n - 1)

-------------------------------------------------------------------------------
TelemetryTypeOK ==
  /\ up \in BOOLEAN /\ fd \in BOOLEAN /\ broken \in BOOLEAN /\ faulty \in BOOLEAN
  /\ DOMAIN files = 0..Keep /\ bytes \in Nat
  /\ timer \in BOOLEAN /\ waiting \in Nat

Contents(file) == IF file = NoFile THEN <<>> ELSE file

\* The files from the oldest to audit.log itself.
TrailOf(fs) ==
  LET from[i \in 0..Keep] == IF i = 0 THEN Contents(fs[0]) ELSE Contents(fs[i]) \o from[i - 1]
  IN from[Keep]
Trail == TrailOf(files)

\* The trail, read from the oldest file to the newest, is in the order of the events
\* with none twice, over every rotation, restart and failed rename. As long as no rename
\* failed it ends with the last line written, has no gap, and has dropped no line that
\* is among the last Keep files' worth (rotate of audit.mjs).
TrailKept ==
  LET t == Trail IN
  /\ \A i, j \in DOMAIN t : i < j => t[i].n < t[j].n
  /\ ~faulty => /\ \A i \in DOMAIN t : t[i].n = written[Len(written) - Len(t) + i]
                /\ Len(t) >= Len(written) \/ Len(t) >= Keep * RotateAt

\* What qv-audit says of audit.log accounts for every line in it that is whole and does
\* not continue a cut one: it is reported when its time, name and status are asked for,
\* once, and in order; and its percentiles split the latencies as they claim.
QueriesAccount == \A q \in Queries :
  LET hits == Matching(files[0], q)
      ms   == [i \in DOMAIN hits |-> Reported[hits[i]].ms]
      due  == {i \in (IF files[0] = NoFile THEN {} ELSE DOMAIN files[0]) :
                 LET n == files[0][i].n IN
                 /\ files[0][i].newline /\ (i > 1 => files[0][i - 1].newline)
                 /\ q.event \in {"", Reported[n].event}
                 /\ q.status = 0 \/ Reported[n].status \in
                      (IF q.status < 10 THEN 100 * q.status..100 * q.status + 99 ELSE {q.status})
                 /\ n \in q.since..(IF q.until = 0 THEN n ELSE q.until - 1)}
  IN /\ Range(hits) = {files[0][i].n : i \in due}
     /\ \A i, j \in DOMAIN hits : i < j => hits[i] < hits[j]
     /\ ms # <<>> => \A p \in {50, 95, 99} :
          /\ 100 * Cardinality({i \in DOMAIN ms : ms[i] < Pct(ms, p)}) <= p * Len(ms)
          /\ 100 * Cardinality({i \in DOMAIN ms : ms[i] <= Pct(ms, p)}) >= p * Len(ms)

\* Every span is posted, once and in order, even if no POST ever ends, unless the process
\* ends first (onAuditEvent, flush and schedule of otlp.mjs).
SpansPosted ==
  /\ [](\A i, j \in DOMAIN (posted \o buf) : i < j => (posted \o buf)[i].span < (posted \o buf)[j].span)
  /\ \A n \in {n \in DOMAIN Reported : Reported[n].traced} :
       (events >= n) ~>
         (\E s \in lost \cup Range(posted) : s.span = n)
===============================================================================
