# Quantum Vault: verification project

Quantum Vault issues and verifies tokens that carry a mutation counter. A
Node.js server (`src/qv-server`) keeps signing keys, advances one ratchet per
key, writes every counter to a log before the token leaves, verifies batches on
worker threads, and protects itself with a writer lease, rate limits and a
graceful shutdown. The JavaScript SDK (`src/qv-sdk`) holds the token format and
the ratchet; a Rust core (`src/qv-core`) holds the same format for other hosts.

This directory holds TLA+ modules of the server's stateful parts, the TLC
configurations that check them on small instances, and TLAPS proofs of what
matters most for instances of any size. `PROJECT.json` maps every definition to
the source lines it stands for.

Paths below are relative to `src/qv-server` unless they say otherwise.
`server` stands for `server-sovereign.mjs`.

## Contents

1. Inventory of the system
2. Modules, and how they correspond to the code
3. Runs: what each one asks, its bounds, what it shows
4. Fairness
5. Theorems and their proofs
6. Disagreements between the code and its documents
7. Limits of the models
8. Plan

## 1. Inventory of the system

The server is one process with one event loop. A *turn* is what JavaScript runs
between two awaits: nothing else of the process runs meanwhile. Concurrency
enters in four places: other handlers at every await; worker threads; other
processes on the same directory or table; and crashes, which may come anywhere.

| Part | State | Operations | Talks to | What is hard |
|---|---|---|---|---|
| Issue path (`server` 580-652, SDK `issueToken`) | RAM `MutationChain` per key | `POST /v3/token/issue` | chain store, lease, limiter, keystore | the ratchet moves before the claims are encoded and before the append; handlers of one key share the chain across the await |
| Chain stores (`chain-store.mjs`, `chain-log.mjs`, `chain-store-postgres.mjs`) | one log per key | `append`, `load`, `has` | disk, or Postgres | torn and short records; conflicts of two writers; a loader that refuses anything but 1, 2, 3, ... |
| Postgres client (`postgres.mjs`) | queue of calls, receive buffer, closed flag | `connect`, handshake, `query`, `exec`, `transaction`, `_fatal`, timeouts, `end` | a socket | pipelining by position; one transaction state for all callers; a lost socket leaves the fate of INSERTs unknown |
| Writer lease (`writer-lock.mjs`) | one file: fence, holder, expiry | `acquireWriterLock`, `checkFence`, `renew`, `release` | other processes | read-then-write without a lock; expiry; recycled pids; hosts that cannot be probed |
| Durable writes (`durable.mjs`) | `<file>.tmp` | `writeFileDurable`, `appendFileDurable`, `cleanupStaleTmp` | disk | crash between its steps; one temporary name for all writers |
| Keystore and boot (`server` 256-415) | `keystore.json`, `revoked.json`, RAM maps | load with migration, keygen, revoke | master key, chain store | save after the RAM change; entries that do not open are skipped |
| Master key (`master-key.mjs`) | `master.key` | file, env, exec providers | disk, environment, a command | generate on miss; a provider that gives nothing |
| Rotation tool (`rotate-master.mjs`) | both files and their backups | `rotateMaster` | the lease, by its expiry | four file steps, no transaction |
| Verify pool (`verify-pool.mjs`, `verify-worker.mjs`) | idle stack, queues, pending map | `run`, message, error, `shutdown` | batch-verify route | two dispatch modes; dying workers; queues at their limit |
| Rate limiter (`ratelimit.mjs`) | token buckets per IP and per key | `check`, `recordAuthFail`, `checkKey`, `sweep`, `quotaSnapshot` | every route | caps, idle sweep, retry time |
| Shutdown (`shutdown.mjs`) | in-flight count, one promise | SIGTERM/SIGINT, drain, teardown, forced exit | pool, audit, lease | two deadlines against a drain |
| Audit trail, OTLP exporter (`audit.mjs`, `otlp.mjs`, `trace.mjs`), reader `qv-audit.mjs` | file handle, size, broken flag; export buffer and timer | event, rotate, flush, post | disk, collector | rotation that fails half-way; short writes; a buffer at its limit with posts that never end |
| Admission to admin routes (`auth.mjs`, `cidr.mjs`) | none | pure decisions | admin routes | prefixes inside a byte, IPv4 in IPv6, proxies' headers, three modes of configuration |
| Falcon bridge (`falcon-bridge.mjs`, routes at `server` 864-914) | one child process and one directory per call | sign (admin), verify | `qv-cli` | four events that settle one promise; a secret key on disk meanwhile |
| SDK codec and verifier (`src/qv-sdk`), Rust core (`src/qv-core`), `qv-cli` | a chain, kept by the caller | issue, verify, inspect | - | two implementations of one format; lengths at 31/32 and 255/256; halves of 64 bits; nine checks in order |
| SDK replay stores | a counter per key | `issueTokenWithStore`, `verifyTokenWithStore` | a shared store | verify first, observe later |
| Single verify, verify-auto, inspect | none | one token against a fresh chain | keystore | which of several keys a token belongs to |
| Claims validation (`claims.mjs`) | none | a pure check of an issue request | issue path | caps that may be wider than what the encoder can write |
| Headers and CORS (`security.mjs`) | none | a pure function of a request | every route | origins compared exactly; configurations that are refused |
| Metrics (`metrics.mjs`); benches, fuzzer; legacy `server.mjs`; bindings; charts, docs | none read by other parts | - | - | not modelled, see section 7 |

What makes each part correct:

- **issue path and stores**: no counter of a key leaves in two tokens; what is
  sent was written; a restart continues above everything sent; a log the server
  wrote is one it accepts; every appended request is answered.
- **lease**: two writers never interleave in one log; a straggler is bounded.
- **keystore**: an acknowledged key is neither lost nor left in the clear; an
  acknowledged revocation holds for good.
- **pool**: one job per worker, no worker forgotten, exact queues, every accepted
  job answered.
- **limiter**: a rate is a rate over any period; what clients are told is true.
- **shutdown**: teardown once and in order, no request cut before the
  deadline, an exit for certain.
- **Postgres client**: an answer goes to the call it is for, every call is settled,
  a transaction is all or nothing.
- **tokens**: what a verifier accepts is what an issuer issued; what was issued with
  the suite byte of its signature is accepted in its time; no counter is issued or accepted twice.
- **admission and Falcon bridge**: nobody passes but with address and secret; no origin
  is told more than was configured; no key file, no child process and no unanswered call
  is left.
- **claims**: what the server cannot encode must not spoil what it issues later.
- **audit and export**: the trail is in order and without gaps; every span goes out.

The full list of hazards, each at its line and with the properties that cover
it, is in `PROJECT.json` under `hazards`.

## 2. Modules, and how they correspond to the code

```
CounterLedger          abstract: counters are recorded once, released once
   ^ implemented by
IssueChain             issue path + chain stores + Postgres pipeline + restarts
   . SoleWriter stands for what WriterLock provides
   . Send, DbStep, ConnLost stand for what PgClient does with each query
QueryService           abstract: each call executed in order, told its own outcome
   ^ implemented by
PgClient               one connection: queue, messages, handshake, transaction(), a server
WriterLock             the lease and the file log of one key, several processes
Claims                 which claims the server lets through and the SDK can encode
   ^ used by IssueChain
Keystore               keystore.json, master.key, revoked.json, server, rotation tool
VerifyPool             batch-verify route + pool + workers + shutdown of the pool
RateLimit              token buckets under the routes that spend them
Shutdown               signal, drain, close, teardown and exits, over requests in flight
Admission              allow-list, bearer check, CORS and headers, and what they are for
   ^ extended by
FalconBridge           the Falcon routes behind these gates, and their child processes
Telemetry              audit file, exporter, trace context, and the reader of the file
TokenCodec             claims and tokens as cells, in JavaScript and in Rust, as operators
   ^ extended by
TokenFlow              issuers, stores, verifiers, under ideal cryptography
MC<Module>             instances for TLC       <Module>_proofs   theorems
```

**IssueChain.** A process is one incarnation of the server: it boots, issues,
and dies; its restart is another process. `chain[p][k]` is the RAM ratchet,
`log[k]` the store, `wire[p]` the INSERTs written to a connection. One action is
one turn of a handler: with the file store the turn holds ratchet, append and
fsync (`FileAppend`, `FsyncThrows`, `ShortWrite`), with Postgres it ends at the
write to the socket (`Send`). `Reply` is the rest of the handler and reads the
chain *as it is then*, as the code does. With the file store too it is a later
turn: the awaited value is no promise, and the handler goes on in a microtask, but
the turn of another request that came in the same read may run before it. The ratchet state is a
function of the counter, so a record is its counter. `BootRefused` is the FATAL
exit on a log that is not 1, 2, 3, ... A request carries its claims: `ValidateClaims` of
Claims decides whether it is a 400, and `EncodeFails` fires on what passes it and
`encodeClaims` refuses.

**Claims** sees claims as the list of the values that `walk()` meets, each with its kind,
depth and size. `Cap` is what the environment configures, `Wire` what the format holds.

**CounterLedger** is the promise to callers: `Record` at most once per key and
counter, `Release` at most once and only after `Record`. `IssueChain` maps the
set of counters in the log to `recorded` and the counters of requests answered
200 to `released`.

**WriterLock.** Acquire is a read (`AcquireRead`, `AcquireRefused`) and a durable
replace (`AcquireWrite`); an append is `CheckFence` (which moves the ratchet
first) and `AppendRecord`; release is a read and an unlink. Expiry is one step,
`Expire`, because nothing in the server calls `renew()`: every lease runs out
30 s after it was written. `stamp`, `stampAt`, `straggled` and `late` are history.

**Keystore.** A durable write happens or throws; a crash may come between any
two steps. `Saved` is `saveKeystore`: the file gets exactly the RAM map's
entries. Sealing is its effect: an entry opens under the master it was sealed
with. `given` is the master of the env or exec provider, chosen once; with `NoMaster` the
file provider works on `master.key` and generates it on a miss. The rotation tool is six
actions, interrupted anywhere by `ToolStops`.
`StopsFirst` is the documented procedure (server stopped for the rotation).

**VerifyPool.** The batch handler's admission check and its calls of `run()` are
one turn, kept apart in steps while `todo # <<>>` so that each branch of `run()`
is an action; nothing of the main thread comes between, workers do. `Message` is
the message event with `_release`, `WorkerError` the error event, `Terminate` and
`Drain` the two turns of `shutdown()`. `home[j]` stands for the murmur hash of the
job's key: any function from jobs to workers.

**RateLimit.** Tokens are counted in `1/Minute` of a token and time in units, so
that a refill is the exact `elapsed * rpm` of `refill()`. `Charge` is `check`,
`recordAuthFail` and `checkKey`: an entry is made if the map has room, refilled
and spent. `reading` counts the issue requests that passed the IP limit and whose
body is still being read, since the key's check comes later. `watch`, `since`,
`granted` and `retryAt` are history about one bucket chosen at the start.

**Shutdown.** `shutdown()` is one async function; each of its awaits is a `phase`:
`Signal` is its first turn, `Drained` the end of `waitForDrain`, `Closed` the race
of `server.close()` with the deadline, `TeardownStep` one callback, `ExitZero` and
`ForcedExit` the two exits. A response is "ended" by its handler, then emits finish
and close; `Settle` is the `finish` closure of the server's request listener. A
`Disconnect` closes the response a client waited for, while its handler runs on. A
signal may come before `Listen`: then `close()` finds no server, its callback runs
at once (`settled`), and the server that listens afterwards accepts connections
(`late`). The callbacks are the four that `server` registers; what they do to pool
and keystore is in VerifyPool and Keystore.

**PgClient.** The client matches answers to calls by position, and so does the model:
`asked` are the calls in order, `settled` how many were shifted out of the queue, and a
message of `stream` goes to call `settled + 1` whatever it was sent for (`of`, which the
client cannot see, is compared by the property only). `Chunk` is a data event, which
completes any number of messages; `Dispatch` handles one of them, and nothing else of the
process runs until all are handled (`got`). The handshake is the first call. `Collect` is
the handler of `_collectResults`; a tag it does not know throws, which shifts the call out
while the rest of its answer is still to come: the connection is *derailed*, for good.
`Fatal` rejects what is queued and leaves the socket. A caller of `transaction()` is a
program counter; its BEGIN, body, COMMIT and ROLLBACK are calls like any other's. The
server executes calls in order, may refuse, shut down or vanish, and keeps the state of
its transaction (`tx`, `pend`, `durable`). Nothing in the repository calls `transaction()`
(the server makes single calls of `query` and `exec`): it is modelled as part of the client's interface, and
`TxAtomic` is about that interface, not about a hazard of the server.

**QueryService** is the promise: calls are executed in the order they were made and told
their own outcome in that order, or that the connection was lost. It ends with an unknown
message.

**Admission** holds `loadAdminConfig`, `checkAdmin`, `parseIp`, `parseCidr`, `matchesAny`
as operators (`Pow2`, `Base`, `Value` are the arithmetic of bytes, as recursive functions
so that they can be proved about), and apart from them what they are for: `Allowed` takes a range as an
interval of numbers, `Authorised` compares with the one secret the operator has set. So
with `security.mjs`: `AllowOrigin` and the headers of an answer are the code's, and
`CorsConfined` states what an origin may be told.

**FalconBridge.** A call goes through the gates (one turn, `Dispatch`), reads its body,
writes its files and spawns a child (`Spawn`, one turn), and waits. The child's events
`Timeout`, `OutputTooLarge`, `SpawnError` and `Closed` come in any order that Node can
produce; `Settle` lets the first of them end the call and removes the directory in the
same turn (`Finish`), which may fail. The rate limiter's verdict is a free choice. The
environments include builds of `qv-cli` with and without the falcon command.

**Telemetry.** An event is one turn: a line to the file, with the rotation it may cause,
and a span to the buffer. `Shifted` is the loop of `rotate()` with any of its renames
failing; `WriteLine` may be cut short, and the next line then continues the broken one.
`Push`, `Flush` and `PostEnds` are `onAuditEvent`, the timer's callback and the rest of it
after its await. The reader, `qv-audit.mjs`, is operators over a file: `Kept` is its loop,
which passes over the lines that do not parse or do not match, and `Ranked` what stands at
a place of the sorted latencies.

In FalconBridge and Telemetry the names of the specification carry a prefix (`BridgeInit`,
`TelemetryNext`), since a proof module extends each of them beside another component.

**TokenCodec** works on cells: a byte in the claims, a field in the header, half of a
field for the two 64-bit ones. JavaScript and Rust have their own operators where they
differ (the SDK takes what there is of a string that runs over the end,
a "strict" `DecodeStr` does not; `From_bytes` knows suites and types). `Half` and
`TtlRange` are the widths of the fields, and the loops over claims and entries are
recursive functions, so that they can be proved about.

**TokenFlow.** Cryptography is ideal: `blobs` lists everything that was enciphered, signed
or deflated, and cells on the wire name a blob. What the model checks is thus what the
code makes of the primitives: which bytes are signed, in which order checks come, what a
nonce or a marker is for. `Reserve` and `Sign` are the two turns of an issuer,
`VerifyStore` and `Observe` those of a verifier with a store, `VerifyChain` a verifier
that keeps a chain; the routes of the server and the command line are operators
(`ServerVerify`, `VerifyAuto`, `CliVerify`, `CliInspect`), since they keep nothing.

Operators whose name ends in what goes wrong and whose comment begins with
`Mutant:` are plausible bugs. No specification uses them: substituted for the
definition they vary, each makes a property fail, which shows that the property
has something to say about that code.

## 3. Runs

All runs are exhaustive. Times are on two cores.

| Run | Instance | Asks |
|---|---|---|
| `issue` | 2 incarnations, 2 keys, 3 requests, both stores, faults encode, append, insert; 265,054 states | `UniqueTokens`, `LoadableUnlessSpoiled`, `IssuedAboveReleased`, `Answered`, `ImplementsLedger` |
| `issue_disk` | 3 incarnations, 1 key, 3 requests, file store, faults encode, append, fsync, short, torn; 290,048 states | `UniqueTokens`, `LoadableUnlessSpoiled` on a bad disk |
| `lease` | 3 processes on 2 hosts, 2 counters each; 1,038,168 states | `LogIntactUnlessStraggled`, `OneStragglerEach`, `FreshLeaseIsSafe` |
| `keystore` | 2 keys, 4 masters, server stopped for rotations; 1,853,024 states | `NoKeyLost`, `ServesAcknowledged`, `NothingInTheClear`, `RevocationHolds` |
| `pool` | 2 workers, both may die, queue of 2, 5 items in batches of up to 4, both modes; 214,304 states | `OneJobEach`, `NoWorkerForgotten`, `QueuesAreExact`, `Answered` |
| `limiter` | 2 IPs and 2 throttled keys for maps of 1, 3 categories, rates 1 and 2, a minute of 3 units, 5 units; 924,453 states | `WithinRate`, `RetryIsHonest`, `QuotaAgrees` |
| `shutdown` | 3 requests on 2 connections, timeout 2, grace 1, 4 units; 227,182 states | `InFlightIsExact`, `NoEarlyCut`, `TornDownOnce`, `Exits` |
| `pg` | a statement and a transaction on one connection, 5 calls with the handshake; 658,545 states | `AnswersAreOwn`, `TxAtomic`, `Settles`, `ImplementsService` |
| `gateway` | one sign and one verify call, 9 allow-lists, 12 settings of the secrets, 5 layouts of `qv-cli`, 12 addresses; 974,208 states | `AdmittedRightly`, `CorsConfined`, `NothingLeftBehind`, `Answered` |
| `telemetry` | 6 events, files of 2 lines, 2 kept, batches of 2, 5 queries; 1,098,006 states | `TrailKept`, `QueriesAccount`, `SpansPosted` |
| `tokens` | 4 requests, 2 issuers, 2 verifiers, 2 keys, clocks that differ; 26,076 states | `Sound`, `Complete`, `AcceptedOnce`, `CountersUnique` |
| `issue_gap` | 2 incarnations, 1 key, 2 requests | `BootAccepts`, which a document promises and the code breaks: section 6 |

The type invariants (`TypeOK`) of IssueChain, WriterLock, Keystore, VerifyPool, RateLimit,
Shutdown, PgClient, FalconBridge and Telemetry are proved for all instances (section 5), so
that no run repeats them.

Bounds, and why they are enough for the cases that matter:

- *Requests, incarnations*: three requests let two be in flight on one key while a
  third finds the ratchet moved, or fails between them. Two incarnations give a
  crash with a restart and, on Postgres, two live writers of one table; the disk
  run has three for two restarts. `Counter` is 1..3: as many as there are requests.
- *`UpToNames`* in MCIssueChain: requests are interchangeable and so are keys, and
  of three requests on two keys at least two name the same key. Renaming makes
  them `r1`, `r2` and `k1`; `r3` is free. The other initial states are renamings.
  Symmetry sets are not used there, since the run has liveness properties.
- *Lease*: two processes of one host and one of another are the smallest instance
  with a probe that works, a probe that does not, a steal, and a release by a
  displaced holder. `MaxLog = 2` gives a record before and one after the change.
- *Keystore*: two keys for one that is revoked or lost while another one is saved;
  four masters for the first one and three rotations, of which two break off.
- *Pool*: two workers and a queue of two make a per-worker queue of one, so that
  both limits are met; five items meet them while replies and deaths are due.
- *Limiter*: one client more than the map holds, a bucket of one token and one of
  two, and two units after the first moment the sweep may drop an entry.
- *Shutdown*: three requests on two connections are one that hangs, one that comes
  on an old connection after the drain, and one on a connection that came after the
  signal. `Horizon` leaves a signal at 0 or 1 its whole timeout and grace; the guard
  of `Signal` excludes the later ones, whose end the instance could not reach.

- *Postgres*: `MaxAsked = 5` is the handshake, the transaction's three calls and the
  statement, which may fall anywhere between them; the calls of both callers are made in
  every order, and the connection may break, derail or be ended at any point.
- *Gateway*: bytes of two bits, IPv4 of two and IPv6 of four bytes keep prefixes inside,
  at and between bytes, of both families. The two calls share nothing but the process, so
  that one of each is enough; each environment is one initial state.
- *Telemetry*: six events fill three files of two lines, so that a second and a third
  rotation find files to move; restarts are unbounded. Three spans overflow a batch of two.
- *Claims* in the issue runs: bodies that pass and encode, pass and do not, and fail.
- *Tokens*: counters and times have halves of one bit (`Half = 2`, `TtlRange = 4`), strings of 1 and 2 bytes take the
  two encodings and 3 is too long, a ttl of 5 wraps in two bits. The requests are one with
  two claims, one the encoder refuses, one of a legacy SDK, and one of the command line,
  which signs with Falcon-512, each with the suite byte of its signature; their counters and times reach the high half. `Sound` damages
  the newest token in every cell, cuts it everywhere and extends it.

Deadlock checking is off everywhere: requests, incarnations, time, events or workers
are finite in each instance, and a system that has used them up stops.

## 4. Fairness

Safety needs no fairness. Six properties do:

- `IssueChain!Answered` (an appended request is answered or its process failed):
  weak fairness of `Reply`, since the event loop runs the handler whose promise
  settled, and of `DbStep`, since the database executes what it received. A
  database that never answers is the client's query timeout, `ConnLost`. Nothing
  is assumed of crashes, arrivals or lost connections.
- `VerifyPool!Answered` (an accepted job is answered unless it is stranded): weak
  fairness of `Turn`, of the events `Message` and `WorkerError`, of `Drain`
  (`terminate()` resolves) and of `WorkerReplies` for workers that do not die.
  `Stranded` names what the code gives up: jobs posted to, or waiting for, workers
  that died and are not replaced (accepted by the comment verify-pool.mjs 162-164),
  and jobs queued after shutdown emptied the pool.
- `Shutdown!Exits` (after a signal the process ends): weak fairness of `Tick` and of
  `ForcedExit` alone, that is, time passes and the timer of the forced exit fires.
  Handlers, clients, the drain and every teardown callback may hang for ever.
- `PgClient!Settles` (every call is settled): weak fairness of `Dispatch`, since the loop
  runs a data event to its end, and of the calls' timers. Server and network owe nothing:
  they may go silent for ever.
- `FalconBridge!Answered` (a call that waits is answered and its child ends): weak
  fairness of the turns the loop owes (`Dispatch`, `SpawnError`, `Closed`), of `Timeout`,
  and of the end of a child that was sent SIGKILL. A child need not end by itself.
- `Telemetry!SpansPosted` (a span is posted unless the process ends): weak fairness of
  `Flush`, the timer of a process that lives. No POST need ever end.

## 5. Theorems and their proofs

Every theorem holds for all values of the constants under the modules' named
assumptions. Proofs are in the `_proofs` modules: one for each component, except that
`Gates_proofs` is about RateLimit, Admission and FalconBridge, what a request meets before
its handler, and `Operations_proofs` about Shutdown and Telemetry.

Every safety property of the passing runs is proved, some under an assumption that is named
below: the invariants, the action properties `IssuedAboveReleased` and `FreshLeaseIsSafe`, and
both refinements.

**IssueChain_proofs** (`TypeCorrect`, `TokensAreUnique`, `IssuesAboveReleased`,
`RefinesLedger`, `LogsStayLoadable`). The middle three assume `"short" \notin Faults`: a write cut
short without an error is answered 200 with no counter in the log, so that
recorded-before-released is false then (uniqueness on such a disk is checked by
`issue_disk`). `UniqueTokens` alone is not inductive: it says nothing of a request
whose append resolved and whose response is due. The invariant `IInv` speaks of
the requests that are *stored* or *released* together: each has its counter in the
log (`KeptIsRecorded`), and two of one key differ (`KeptIsUnique`). On Postgres the
primary key keeps that up, since a counter in the log is refused. On the file store
nothing refuses a counter, and it is the RAM chain that must not be behind the log
(`RamCoversLog`), which in turn needs that one process is up at a time (`OneUp`).
The refinement maps `DbInsert`, `FileAppend` and `FsyncThrows`
to `Record`, `Reply` to `Release`, and everything else to a stutter.
`LogsStayLoadable` needs no such assumption and an invariant of its own, `NoGap`: on the
file store the RAM chain is as long as the log (`InRam`); on Postgres, where several
processes write and RAM chains run ahead by the INSERTs under way, each of these
follows a counter that is in the table or comes before it on the same connection
(`Followed`), so that the table fills without a gap whichever of them are lost.

**WriterLock_proofs** (`TypeCorrect`, `FencingWorks`, `StragglersAreBounded`,
`FreshLeasesAreSafe`). Equal fences may be held by two processes that read the
same lease, and fences start at 1 again after a release, so the fence says nothing
by itself. The invariant ties a passed check to the file: between check and record a
process still holds the lease exactly when the file was not replaced since
(`CheckedKnows`), and without a straggler the holder named in the file, once up,
has a RAM chain that stands at the end of the log, one further between check and
record (`HolderIsCurrent`). A process that straggled has nothing checked and has
lost the lease (`StragglerIsDone`), so that it cannot write a second time. What a
process read before it replaces the lease stays a reason to do so (`MayTakeOver`).

**Keystore_proofs** (`TypeCorrect`, `RevocationsHold`, `KeysAreNeverLost`,
`AcknowledgedAreServed`, `NothingStaysInTheClear`). The last three assume
`StopsFirst`, from which it follows that the tool runs alone (`ToolAlone`) and that a
running server's master is the one a boot would take (`MasterLoaded`, `Current`); with
a provider there is no `master.key` and nothing to rotate (`ProviderAlone`). `AckedSafe` says that the
current files or a backup open every acknowledged key, which the two renames and the
two writes preserve whatever breaks off; `Intact` says where every key is at each of
the tool's steps as long as none broke off; `UpServes` that a server that is up has
what opens in its map.

**Gates_proofs**, the limiter (`TypeCorrect`, `RateIsBounded`, `RetryAfterIsHonest`,
`QuotaIsTruthful`). The proof goes through `Balance`, the tokens a bucket would
show if it were refilled continuously and never dropped. Three lemmas say that a
request takes a token from it, a unit of time adds the rate up to the capacity,
and the sweep does not change it: an entry that is dropped has been idle for
longer than a minute and has filled up. That is where `IdleAssumption`
(`idleSweepSec` at least 60 s; 300 in the code) is needed, and with a shorter
sweep `WithinRate` is false. The invariant is then
`granted * Minute + Balance <= Full + Rate * (now - since)`.

**Gates_proofs**, the gates (`InCidrIsTheRange`, `GatesAdmitRightly`, `CorsIsConfined`), for
any width of a byte, number of bytes, list, setting and request. `inCidr` compares byte by
byte, the last one under a mask; `Covers` asks whether the address, read as a number, lies
between the first and the last of a block. `ByteStep` says that one more byte keeps the two
together: an address that agrees in `k` bytes lies in the same block of `Block(mask, k)`
numbers, of which the next byte cuts a part (`QuotientScaled`, `QuotientInside`).
`BytesAndBlocks` is the induction over the bytes. `InputAssumption` says what settings and
requests may look like. `GateIsAllowed` and `AdminIsAuthorised` bring the lists and the
secrets to what the operator meant; for the last it matters that `loadAdminConfig` refuses
settings that contradict each other, which the invariant keeps as `Accepted`.

**Gates_proofs**, the Falcon calls (`BridgeTypesHold`, `CallsLeaveNothing`). The invariant has
a clause for each call (`CallInv`): what its headers are once it was dispatched, what the
gates said of it as long as it reads or waits, and that its directory and its child belong to
the time it waits. The four events that may settle a call are one lemma, `Finished`: whichever
comes first, the directory is gone or stuck and nothing of the other calls changes
(`CallKept`).

**Operations_proofs**, the shutdown (`TypeCorrect`, `DrainCountIsExact`, `NoClientIsCutEarly`,
`TeardownRunsOnce`). The counter has a floor at zero, so that a response counted
twice would go unnoticed in its type; `Served` says that no event of a response
somebody waits for was counted, and that every waiting client has an open connection
of its own. `ClosedInTime` says that past the close an open connection came after
the signal or the time is up, which for a signal before the listening needs that all
connections came after it (`Accepted`). `Status` and `TeardownPrefix` tie the exit
status to the phase and to the callbacks that ran.

**Operations_proofs**, the log (`TelemetryTypesHold`, `TrailIsKept`), for any sizes, numbers
of files, faults and restarts. Two invariants carry `TrailKept`. `Ordered` says that each
file's lines rise and that every line of an older file is older; every subset of failed
renames keeps it, since a name ends up with what it had, with what the newer name had, or with
nothing, and the names keep their order (`ShiftedSources`). `Rotated` holds as long as no
rename failed: the trail is the end of what was written, each file after the first is full,
there is no gap between the names, and all names are taken once a line was dropped. That a file
is full when it is moved needs `Opened`: an open log knows its length, after a restart too.
`TrailShift` says that a rotation drops the oldest file from the trail and nothing else.

**Operations_proofs**, the reader (`QueriesAreAccounted`). The lines of one file rise
(`Ordered`), so what `Kept` leaves of them is in order and is known by its set (`KeptFacts`,
an induction over the lines). The filters are compared with the classes and intervals they
stand for one by one (`StatusFilter`). `RankFacts` is the percentile: a largest of finitely many
members exists (`Largest`), so that the place asked for has a member, with no more than its
rank below it and more than that not above it.

**Operations_proofs**, the exporter (`SpansAreAccounted`). `posted \o buf` only grows at its
end, since what `splice` takes and what it leaves are what there was (`SpliceKeepsAll`), until
the process ends and the buffer goes to `lost`. So spans leave in order and none goes missing
unnoticed. That each does leave is liveness, and TLC's part of `SpansPosted`.

**VerifyPool_proofs** (`TypeCorrect`, `OneJobPerWorker`, `WorkersAreManned`,
`QueuesAreTrue`), for any number of workers, deaths, jobs and batches, under
`BoundsAssumption`. None of the three properties is inductive: a worker is free for a
second job only if the flag or the stack that says so is right, and that is right only if
the lines hold queued jobs and nothing else. The invariant has them together. `Exact`
treats the shared queue and the queues of the workers as the lines of one function, in
which the queued jobs wait, each once; four lemmas say what it becomes when a job joins,
the head leaves, a line is dropped or a job that waits nowhere changes. `Handed` keeps the
items of the running batch apart from everything the pool holds. `MannedByKey` ties the
busy flag of a slot to a posted job, `MannedByStack` the idle stack to the workers without
one, for each of the two modes; a worker that died stays off the stack and keeps its job
until its error event, and `Modes` says that neither mode touches the other's queues.
`Places` counts positions, so that `QueuesAreTrue` also shows that no line holds a job twice.

**PgClient_proofs** (`TypeCorrect`, `AnswersGoHome`, `ClientImplementsService`,
`TransactionsAreAtomic`), for any callers, calls and timeouts. The client matches answers
to calls by position, so the proof is about the bytes under way. `InOrder` says that they
are whole answers in order, from the call at the head of the queue on, without a gap;
`TellsOutcome` that an error message is followed by the end of its answer and comes
exactly when the server decided on an error; `UpToDate` that a socket that is up has
nothing missing at the end. Together they are `Aligned`, which holds until a fatal error
or a message the client does not know. `AnswersAreOwn` follows with `Owned`, which says the
same of calls that still wait. The refinement of QueryService maps a settled call to `Tell`,
the server's execution to `Run` and a fatal error to `Break`, everything else to a stutter.
For transactions, `Phase` and `Order` say what a caller has asked at each of its places, and
`Held` what the server holds for one into which nobody else's call fell: its statement is
pending from its execution to the end, and durable exactly if its COMMIT was executed
without an error.

**TokenFlow_proofs** (`MapRoundTrip`, `AcceptedAreSound`, `IssuedAreAccepted`,
`ReplayIsRefused`, `StoreCountersAreUnique`), for any issuers, verifiers, keys, requests,
drifts of the clocks and widths of the fields, under the assumptions of the two modules.
They come in five layers.

- *The claims.* `EncodeClaims` and `DecodeMap` are recursive functions. Every claim about
  them is an induction over the entries, done with the least entry for which it would
  fail (`LeastNumber`, `UpTo`; the library gives the well-foundedness of `<`). That the
  functions exist at all is `Recursion`, since TLA+ defines them by a choice. `MapRoundTrip`
  is then the round trip of the claims for both decoders.
- *The wire.* `Wire` is what `SerializeToken` and `To_bytes` both make; `IsWire` names its
  cells, `Parsed` reads them back. A number is put together again from its halves if it
  fits (`Halves`). That all times and counters do is `SizeInv` and `WideAssumption`: the
  clock's bound, and the number of requests to the SDK, are below `Half * Half`, which
  stands for 2^64. Without it `Complete` is false, and so is `AcceptedOnce`'s counterpart in
  the code: a counter that wraps starts again at 0.
- *Making.* `MadeInv` says that every token is one that its issuer made: which blob is its
  payload, which one its signature, and what they cover.
- *Verdicts.* `JsVerdict`, `RustVerdict` and `FalconVerdict` turn the pipelines into the
  conjunction of their checks. On a token as it was issued a verifier says OK exactly if it
  is the issuer's own, with the same key and in time (`VerdictOfIssued`), whatever its suite
  byte says: `Complete`, which demands it only where the byte fits, and the first half of
  `Sound`. On a damaged one, what is accepted would have to open as a
  signature (`AcceptedIsSigned`). A cut or a doubled token leaves a signature of the wrong
  length, a changed length cell too, a changed signature cell names a blob that is no
  signature, and any other changed cell shows in the signed bytes (`ChangeShows`), for the
  two-cell fields and the ttl too, where different cells might stand for the same number
  (`HalfNear`, `ModNear`).
- *Replay.* `GuardInv`: what a guard accepted of a key is in rising order and not above the
  mark it keeps, so that the next one is above all of them. `CountersUnique` is not
  inductive either: between the store's answer and the token an issuer holds a counter that
  is in no token yet. `IInv` gives every counter one owner from its reservation on:
  what issuers hold was reserved, no two hold one counter of a key (`HeldOnce`), and no token
  carries one that is still held (`HeldIsUnspent`). A counter whose claims the encoder
  refuses is lost.

Only model-checked: the six liveness properties, since fairness and ENABLED are out of the
prover's reach (of `SpansPosted` the half that is safety is proved), and unique tokens on a disk
that cuts writes short (`issue_disk`).

Theorems about recursive definitions need the induction to be spelled out, since the
provers cannot instantiate the library's induction rules: `LeastNumber`, `UpTo` and
`Recursion` do that in TokenFlow_proofs, Gates_proofs and Operations_proofs. The provers know
nothing of `SelectSeq` and `SortSeq`, so that Telemetry does without them.

What the proofs have shown about the models: `LoadAdminConfig` was a CASE whose guards
overlapped, whose value is open where two of them hold (TLC takes the first); it is now a chain
of conditions, as in `auth.mjs` 33-70.

## 6. Disagreements between the code and its documents

One has a run of its own, whose counterexample shows it; the quote is in `PROJECT.json`.

- `issue_gap`: claims that pass validation and fail in the encoder move the ratchet
  and write nothing. The next issue leaves a gap, and the next start refuses the
  log and exits. The changelog promises that advances continue across restarts.

Five more are stated in the modules as the documents say them, with a comment that says
when they fail. Each is violated in the instance of the module's passing run (the last one
with one change to it), and checking it there (as an INVARIANT, or a PROPERTY for the lease)
gives the counterexample:

- `IssueChain!ReplyNamesItsToken` (`qv-spec/wire-format.md` 104): the response's
  `mutationCtr` is read from the shared chain after the await (`server` 642), so that of
  two concurrent issues on Postgres the first names the second one's counter.
- `WriterLock!RefusesWhileHolderRuns` (`server` 77-78): the lease is never renewed
  (`writer-lock.mjs` 89), so that after 30 s a second server starts beside a running one.
- `Keystore!RevocationAppendOnly` (`docs/story/03-threat-model.md` 91): a revocation whose
  save failed (`server` 1031) is reported to later clients as revoked (409, 410) and is
  forgotten by a restart.
- `VerifyPool!AdmittedBatchFits` (`server` 753-755): the admission check counts busy
  workers as free, so that items of an admitted batch are refused one by one where the
  comment says that the batch fails as a whole.
- `TokenFlow!SuiteByteRefused` (`qv-spec/wire-format.md` 31-39 and 135-136): a verifier must
  reject a token whose suite byte fails to validate. `issueToken` writes the byte it is given
  (`index.mjs` 409) and always signs ML-DSA-87 (414), though it does not sign Falcon (15-16),
  and `verifyToken` (477-530) never reads the byte: an SDK token that says Falcon-512 is
  accepted. The core's `issue_token` and `verify_token` do the same. The counterexample needs
  the byte 16 in the first request of `MCAsked`. `Complete` demands acceptance only where the
  byte fits (`SuiteFits`); that the others are accepted too is nobody's promise.

Noticed while modelling:

- `qv-sdk/README.md` 88-99 gives one `InMemoryChainStore` to `issueTokenWithStore` and to
  `verifyTokenWithStore`. It keeps one map for both (`index.mjs` 646-662): reserving a counter
  is observing it, so that a fresh token is refused with REPLAY. The Postgres and DynamoDB
  stores of that README share a column in the same way, the Redis one does not. The model's
  issuers and verifiers have a mark each (`reserved`, `observed`), as with two stores;
  `AcceptedOnce` and `CountersUnique` hold either way, and `Complete` is about `verifyToken`
  and the core's verifiers, never about `verifyTokenWithStore`.
- `rotate-master.mjs` 102 looks at the lease's expiry and not at its holder, so that
  the tool runs beside a server that is up, whose lease has expired; its header says
  that it refuses.
- A signal before the boot has ended finds no server to close; the server that
  listens afterwards accepts connections during the teardown, where `shutdown.mjs` 5
  says that it stops accepting (modelled: `settled`, `late`).
- `chain-store.mjs` 66 does not look at the count `writeSync` returns, which the
  changelog's durability entry presumes (modelled: `ShortWrite`).
- `rotate-master.mjs` 43-46 says that the old `master.key` is on disk and the tool
  can be run again after an interruption; both files were renamed first. With
  `StopsFirst = FALSE`, `NoKeyLost` fails.
- `writer-lock.mjs` 37 says the fence only ever increases; after a release it
  starts at 1.
- `verify-pool.mjs` 221: with affinity, jobs of a dead worker's keys are posted to
  it for ever, since it is marked not busy and keeps its slot.
- `shutdown.mjs` 13-14 says that a drain beyond its deadline exits with 1; the code
  tears down and exits with 0 (59-81).
- `server` 169-170 says that a drained authFail bucket makes later admin requests
  429; nobody reads its verdict. `server` 668-669 says that verify enforces a replay
  window; each verify uses a fresh chain. `server` 515 calls a getter as a function, so
  that the health route, "always 200", throws when the queue is not empty.
- `falcon-bridge.mjs` 77-79 says that a `qv-cli` built without the falcon feature is
  answered with a structured error; such a build passes the probe, since its complaint
  contains the word "falcon" (95), and its usage error is exit code 2, which
  `falconVerify` takes for an invalid signature: 200 `{valid: false}` (modelled:
  `ProbeFalconCli`, `VerifyExits`).
- The Falcon routes, verify-auto and keys/identify look for `body._err`, which
  `readJsonBounded` never returns: a body that is too large or not JSON is a 500
  (modelled: `BodyThrows`).
- `docs/story/09-auth-cidr-rate.md` 100 and `cidr.mjs` 65 say that `::ffff:1.2.3.4` is
  taken for its IPv4 address; it meets IPv6 ranges only (modelled: `ParseV6`; so does the
  test at `test/cidr.test.mjs` 52).
- `audit.mjs` 106-107 says that logging always continues when a rotation fails; a second
  `openLog` that throws ends it for the process, and so does one failed write (modelled:
  `OpenFails`, `LogEvent`). `server` 1084 says that every audit event carries a trace;
  only `http.request` does (modelled: `traced`).
- Nothing calls `flush()` or `stop()` of the exporter at teardown: the spans in its
  buffer are lost (modelled: `lost`). `QV_OTLP_BATCH_MAX` of 0 never empties the buffer
  (`otlp.mjs` 44; excluded by `BatchAssumption`).
- `postgres.mjs`: the comment at `_enqueue` speaks of killing the socket, which `_fatal`
  leaves open, as a failed handshake does; a COMMIT of a failed transaction is reported as
  success by the protocol and by `transaction()` alike, and statements of other callers
  fall into an open transaction (modelled; `TxAtomic` is stated for transactions alone on
  their connection).
- `ttl` of the issue route is not validated and wraps at 2^32 in the token, while the
  response repeats the asked one (modelled: `Uint32`, `Timely`).
- A verifier that keeps a chain has moved it before it inflates and decodes the claims, so
  that a token that fails there cannot be tried again (modelled: `Advances`).
- Tokens of the Rust core and of the SDK do not verify with each other, and every token
  of the command line has counter 1 (modelled: `Own`, `CliIssue`).
- A restart within 30 s of a crash is refused when the old pid is in use again
  (always so for pid 1 of a container); modelled by `AcquireRefused`.

## 7. Limits of the models

- In IssueChain a token is the counter it carries; TokenFlow has its bytes as cells, with
  ideal primitives. Texts and logging are left out.
- Not modelled: metrics (counters no other part reads), the legacy `server.mjs`, which nothing starts, the bindings (wrappers of the Rust core), key
  generation and entropy of the core, benches and the fuzzer, charts, scripts and the web
  site.
- PgClient abstracts rows, parameters, error texts and the SCRAM proof, and has one
  connection, as the server has. A message split over chunks is one that is not yet
  complete.
- In FalconBridge the two calls meet only in the process; the body's arrival is not
  forced, and a client that leaves is one whose body throws.
- Telemetry's copy of the log on stdout, the level filter and the blocked field names are
  left out, and so are relative times and formats of `qv-audit.mjs`.
- TokenFlow's clock moves by whole units. Its issuers and verifiers have a store each, which
  the documented use of one store for both does not (section 6).
- Claims are compared as the bytes of their texts: the SDK's `TextDecoder` drops a leading
  byte-order mark (`index.mjs` 254, 258), and a claim named `__proto__` is lost where the
  object is filled (238).
- A durable write is atomic or has no effect. The steps inside `writeFileDurable`,
  and the temporary name two processes share, are below that grain.
- `has()` and `close()` of the stores and `renew()` of the lease (no caller in the
  server) are left out. A deployment keeps its master provider: `given` does not change.
- IssueChain keeps the keystore fixed; keys come and go in Keystore. `SoleWriter` is
  the deployment rule for the file store. What the lease makes of that rule, and
  where it falls short, is WriterLock's subject.
- The limiter's clock does not go back, its arithmetic is exact, and its
  configuration is fixed (the code that adapts a changed override is not reachable
  from the server, which reads its configuration once).
- In Shutdown clients do not pipeline requests on a connection, and a handler that
  throws has its response ended by the dispatcher, so that it counts as `End`.
- In WriterLock an append does not fail by itself (that is IssueChain's subject), and
  there is one log; its `MaxLog` bounds RAM counters and records, and appears
  in guards only.

## 8. Plan

Done: CounterLedger and IssueChain first, since the counter is what the product is
about; WriterLock, Keystore, VerifyPool, RateLimit, Shutdown; then PgClient under
IssueChain with its abstract QueryService, TokenCodec and TokenFlow for what a counter is
written into, Admission with FalconBridge, Telemetry, and Claims; proofs of every safety
property the runs check.

Next:

1. **Composition**: IssueChain over QueryService instead of its own database, so that the
   two refinements meet.
2. **Proofs**: that the transactions of PgClient implement an abstract transaction.
