------------------------------ MODULE IssueChain ------------------------------
(***************************************************************************)
(* POST /v3/token/issue and the mutation-chain log behind it.              *)
(*                                                                         *)
(* A server process keeps one MutationChain per key in RAM. An issue       *)
(* handler advances it, builds and signs the token, appends the new        *)
(* counter to the key's log, and answers after the append resolved. A      *)
(* restart reloads every chain from its log and refuses to boot when a     *)
(* log is not 1, 2, 3, ... A process of this module is one incarnation of  *)
(* the server: it boots once, and its restart is another process.          *)
(*                                                                         *)
(* The ratchet state after c advances from a key's seed is a function of   *)
(* c, so a log record is its counter; the linkage check of the loader then *)
(* adds nothing to its counter check.                                      *)
(*                                                                         *)
(* JavaScript runs a handler up to its await in one turn. With the file    *)
(* store the turn holds the append too, and the handler goes on in a later *)
(* microtask: the turn of another request that came in the same read of a  *)
(* connection (pipelined requests) may run first. With the Postgres store  *)
(* the turn ends at the write of the INSERT to the connection, which the   *)
(* database executes in the order sent, whenever it gets to it.            *)
(***************************************************************************)
EXTENDS Integers, FiniteSets, Claims

CONSTANTS Proc,      \* server incarnations
          Key,       \* signing keys, in every incarnation's keystore
          Req,       \* issue requests
          NoProc,    \* the process of a request no handler has taken yet
          Counter,   \* bounds the model: counters a record can hold (u64 in the code)
          Backends,  \* QV_CHAIN_STORE values considered
          Bodies,    \* the claims that requests may carry
          Faults     \* which steps may fail: see the actions

ASSUME CounterAssumption == Counter \subseteq Nat \ {0}
ASSUME NoProcAssumption  == NoProc \notin Proc

VARIABLES
  backend, \* the chain store of this deployment
  pst,     \* process state: "new", "up", "refused" (boot failed), "dead"
  chain,   \* chain[p][k]: counter of p's RAM MutationChain of key k
  conn,    \* conn[p]: p's Postgres client is not closed
  wire,    \* wire[p]: requests whose INSERT p sent and the database did not execute
  log,     \* log[k]: records in storage order, each its counter; Torn when cut short
  st,      \* request state: new, sent, stored, released, rejected, failed, lost
  by,      \* the process whose handler took the request
  key,     \* the key the request names
  ctr,     \* the counter inside the request's token, 0 before the ratchet moved
  said,    \* mutationCtr of the 200 response, 0 before it
  spoiled  \* spoiled[k]: an issue for k failed between the ratchet and the log

chainVars == <<pst, chain, conn, wire, log>>
reqVars   == <<st, by, key, ctr, said>>
vars      == <<backend, chainVars, reqVars, spoiled>>

Torn == 0  \* a record cut short: no counter, and the log's length is off

ReqStates  == {"new", "sent", "stored", "released", "rejected", "failed", "lost"}
ProcStates == {"new", "up", "refused", "dead"}

Recorded(k) == {log[k][i] : i \in DOMAIN log[k]}

(***************************************************************************)
(* The loader. The file loader reads records in file order; the Postgres   *)
(* loader reads rows ORDER BY counter. Both throw unless the counters are  *)
(* 1, 2, ..., n, and then restore counter n.                               *)
(***************************************************************************)
Loadable(k) ==
  IF backend = "file" THEN \A i \in DOMAIN log[k] : log[k][i] = i
                      ELSE Recorded(k) = 1..Len(log[k])

\* Mutant: a restart forgets the log.
LoadedFresh(k)  == 0

LoadedCounter(k) == Len(log[k])

-------------------------------------------------------------------------------
Init ==
  /\ backend \in Backends
  /\ pst   = [p \in Proc |-> "new"]
  /\ chain = [p \in Proc |-> [k \in Key |-> 0]]
  /\ conn  = [p \in Proc |-> TRUE]
  /\ wire  = [p \in Proc |-> <<>>]
  /\ log   = [k \in Key |-> <<>>]
  /\ st    = [r \in Req |-> "new"]
  /\ by    = [r \in Req |-> NoProc]
  /\ key   \in [Req -> Key]
  /\ ctr   = [r \in Req |-> 0]
  /\ said  = [r \in Req |-> 0]
  /\ spoiled = [k \in Key |-> FALSE]

(***************************************************************************)
(* Boot. SoleWriter is the deployment rule for the file store that the     *)
(* writer lease is there to enforce (module WriterLock); any number of     *)
(* processes may share a Postgres table.                                   *)
(***************************************************************************)
SoleWriter == backend = "file" => \A q \in Proc : pst[q] # "up"

Boot(p) ==
  /\ pst[p] = "new"
  /\ SoleWriter
  /\ \A k \in Key : Loadable(k)
  /\ chain' = [chain EXCEPT ![p] = [k \in Key |-> LoadedCounter(k)]]
  /\ pst' = [pst EXCEPT ![p] = "up"]
  /\ UNCHANGED <<backend, conn, wire, log, reqVars, spoiled>>

\* loadKeystore throws CHAIN_LOG_CORRUPT or CHAIN_LOG_NON_MONOTONIC: exit(1).
BootRefused(p) ==
  /\ pst[p] = "new"
  /\ SoleWriter
  /\ \E k \in Key : ~Loadable(k)
  /\ pst' = [pst EXCEPT ![p] = "refused"]
  /\ UNCHANGED <<backend, chain, conn, wire, log, reqVars, spoiled>>

-------------------------------------------------------------------------------
(***************************************************************************)
(* The synchronous turn of an issue handler.                               *)
(***************************************************************************)
NextCounter(p, r) == chain[p][key[r]] + 1

CanTake(p, r) ==
  /\ pst[p] = "up"
  /\ st[r] = "new"
  /\ NextCounter(p, r) \in Counter

\* chain.advance() inside issueToken, before claims are encoded.
Advance(p, r) ==
  /\ CanTake(p, r)
  /\ chain' = [chain EXCEPT ![p][key[r]] = @ + 1]
  /\ ctr'   = [ctr EXCEPT ![r] = NextCounter(p, r)]
  /\ by'    = [by EXCEPT ![r] = p]
  /\ UNCHANGED <<backend, key, said>>

Ends(r, s) == st' = [st EXCEPT ![r] = s]
Spoil(r)   == spoiled' = [spoiled EXCEPT ![key[r]] = TRUE]
Append1(k, rec) == log' = [log EXCEPT ![k] = Append(@, rec)]

\* The early returns: bad body, claims that validateClaims refuses, revoked, unknown
\* key, rate limit, suite or type unknown. All are before the ratchet.
Reject(p, r) ==
  /\ CanTake(p, r)
  /\ Ends(r, "rejected")
  /\ by' = [by EXCEPT ![r] = p]
  /\ UNCHANGED <<backend, chainVars, key, ctr, said, spoiled>>

\* encodeClaims throws on claims validateClaims let through: the ratchet moved.
EncodeFails(p, r) ==
  /\ \E claims \in Bodies : ValidateClaims(claims) /\ ~EncodesClaims(claims)
  /\ Advance(p, r)
  /\ Ends(r, "failed")
  /\ Spoil(r)
  /\ UNCHANGED <<pst, conn, wire, log>>

\* checkFence, open or write throws: nothing reaches the log.
AppendThrows(p, r) ==
  /\ "append" \in Faults
  /\ Advance(p, r)
  /\ Ends(r, "failed")
  /\ Spoil(r)
  /\ UNCHANGED <<pst, conn, wire, log>>

FileAppend(p, r) ==
  /\ backend = "file"
  /\ Advance(p, r)
  /\ Append1(key[r], NextCounter(p, r))
  /\ Ends(r, "stored")
  /\ UNCHANGED <<pst, conn, wire, spoiled>>

\* fsync throws after the write: the record is in the file, the client gets a 500.
FsyncThrows(p, r) ==
  /\ "fsync" \in Faults
  /\ backend = "file"
  /\ Advance(p, r)
  /\ Append1(key[r], NextCounter(p, r))
  /\ Ends(r, "failed")
  /\ UNCHANGED <<pst, conn, wire, spoiled>>

\* writeSync returns fewer than 40 bytes on a full disk; the count is not looked at.
ShortWrite(p, r) ==
  /\ "short" \in Faults
  /\ backend = "file"
  /\ Advance(p, r)
  /\ Append1(key[r], Torn)
  /\ Ends(r, "stored")
  /\ Spoil(r)
  /\ UNCHANGED <<pst, conn, wire>>

Send(p, r) ==
  /\ backend = "postgres"
  /\ conn[p]
  /\ Advance(p, r)
  /\ wire' = [wire EXCEPT ![p] = Append(@, r)]
  /\ Ends(r, "sent")
  /\ UNCHANGED <<pst, conn, log, spoiled>>

\* PgClient.exec on a closed client: PG_CLOSED, after the ratchet moved.
SendClosed(p, r) ==
  /\ backend = "postgres"
  /\ ~conn[p]
  /\ Advance(p, r)
  /\ Ends(r, "failed")
  /\ UNCHANGED <<pst, conn, wire, log, spoiled>>

-------------------------------------------------------------------------------
(***************************************************************************)
(* The database executes the INSERTs of a connection in the order sent.    *)
(* It does so even when the sender closed its client or died meanwhile.    *)
(***************************************************************************)
Resolve(r, s) == st' = IF st[r] = "sent" THEN [st EXCEPT ![r] = s] ELSE st

Execute(p, r) ==
  /\ backend = "postgres"
  /\ wire[p] # <<>>
  /\ r = Head(wire[p])
  /\ wire' = [wire EXCEPT ![p] = Tail(@)]
  /\ UNCHANGED <<backend, pst, chain, conn, by, key, ctr, said>>

\* Mutants: a table without a primary key; an error that settles no promise.
InsertWithoutKey(p, r) ==
  /\ Execute(p, r)
  /\ Append1(key[r], ctr[r])
  /\ Resolve(r, "stored")
  /\ UNCHANGED spoiled
ConflictUnanswered(p, r) ==
  /\ Execute(p, r)
  /\ ctr[r] \in Recorded(key[r])
  /\ UNCHANGED <<st, log, spoiled>>

DbInsert(p, r) ==
  /\ Execute(p, r)
  /\ ctr[r] \notin Recorded(key[r])
  /\ Append1(key[r], ctr[r])
  /\ Resolve(r, "stored")
  /\ UNCHANGED spoiled

\* PRIMARY KEY (key_id, counter): 23505, CHAIN_LOG_CONFLICT.
DbConflict(p, r) ==
  /\ Execute(p, r)
  /\ ctr[r] \in Recorded(key[r])
  /\ Resolve(r, "failed")
  /\ UNCHANGED <<log, spoiled>>

\* Any other ErrorResponse: no row, the connection stays usable.
DbError(p, r) ==
  /\ "insert" \in Faults
  /\ Execute(p, r)
  /\ Resolve(r, "failed")
  /\ Spoil(r)
  /\ UNCHANGED log

DbStep(p) ==
  \E r \in Req : DbInsert(p, r) \/ DbConflict(p, r) \/ DbError(p, r)

InFlight(p) == {r \in Req : by[r] = p /\ st[r] \in {"sent", "stored"}}

\* PgClient._fatal: socket error, close or query timeout rejects every pending query.
ConnLost(p) ==
  /\ backend = "postgres"
  /\ pst[p] = "up"
  /\ conn[p]
  /\ conn' = [conn EXCEPT ![p] = FALSE]
  /\ st' = [r \in Req |-> IF r \in InFlight(p) THEN "failed" ELSE st[r]]
  /\ UNCHANGED <<backend, pst, chain, wire, log, by, key, ctr, said, spoiled>>

\* Mutant: the client reconnects under a RAM chain that counted the lost INSERTs.
WireLostReconnects(p) ==
  /\ wire[p] # <<>>
  /\ ~conn[p] \/ pst[p] # "up"
  /\ wire' = [wire EXCEPT ![p] = <<>>]
  /\ conn' = [conn EXCEPT ![p] = TRUE]
  /\ UNCHANGED <<backend, pst, chain, log, reqVars, spoiled>>

\* What was still on its way over a dead connection never arrives.
WireLost(p) ==
  /\ wire[p] # <<>>
  /\ ~conn[p] \/ pst[p] # "up"
  /\ wire' = [wire EXCEPT ![p] = <<>>]
  /\ UNCHANGED <<backend, pst, chain, conn, log, reqVars, spoiled>>

-------------------------------------------------------------------------------
(***************************************************************************)
(* The rest of the handler, after the await: the response is built from    *)
(* the token of this request and from the chain as it is NOW.              *)
(***************************************************************************)
\* Mutant: the handler does not await the append.
ReplyWithoutAwait(r) ==
  /\ st[r] \in {"sent", "stored"}
  /\ pst[by[r]] = "up"
  /\ said' = [said EXCEPT ![r] = chain[by[r]][key[r]]]
  /\ Ends(r, "released")
  /\ UNCHANGED <<backend, chainVars, by, key, ctr, spoiled>>

Reply(r) ==
  /\ st[r] = "stored"
  /\ pst[by[r]] = "up"
  /\ said' = [said EXCEPT ![r] = chain[by[r]][key[r]]]
  /\ Ends(r, "released")
  /\ UNCHANGED <<backend, chainVars, by, key, ctr, spoiled>>

\* Requests of a process that stops are never answered.
Die(p) ==
  /\ pst' = [pst EXCEPT ![p] = "dead"]
  /\ UNCHANGED <<backend, chain, conn, wire, by, key, ctr, said>>

Crash(p) ==
  /\ pst[p] = "up"
  /\ Die(p)
  /\ st' = [r \in Req |-> IF r \in InFlight(p) THEN "lost" ELSE st[r]]
  /\ UNCHANGED <<log, spoiled>>

\* The process or the machine stops in the middle of a record's write.
TornCrash(p, r) ==
  /\ "torn" \in Faults
  /\ backend = "file"
  /\ CanTake(p, r)
  /\ Die(p)
  /\ st' = [q \in Req |-> IF q = r \/ q \in InFlight(p) THEN "lost" ELSE st[q]]
  /\ Append1(key[r], Torn)
  /\ Spoil(r)

-------------------------------------------------------------------------------
Turn(p, r) ==
  \/ Reject(p, r)     \/ EncodeFails(p, r) \/ AppendThrows(p, r)
  \/ FileAppend(p, r) \/ FsyncThrows(p, r) \/ ShortWrite(p, r)
  \/ Send(p, r)       \/ SendClosed(p, r)  \/ TornCrash(p, r)

Next ==
  \/ \E p \in Proc : Boot(p) \/ BootRefused(p) \/ DbStep(p)
                     \/ ConnLost(p) \/ WireLost(p) \/ Crash(p)
  \/ \E p \in Proc, r \in Req : Turn(p, r)
  \/ \E r \in Req : Reply(r)

(***************************************************************************)
(* Fairness: the event loop runs a resolved handler, and the database      *)
(* executes what it received (a query that gets no answer ends in          *)
(* ConnLost through the client's query timeout).                           *)
(***************************************************************************)
Fairness ==
  /\ \A r \in Req : WF_vars(Reply(r))
  /\ \A p \in Proc : WF_vars(DbStep(p))

Spec     == Init /\ [][Next]_vars
FairSpec == Spec /\ Fairness

-------------------------------------------------------------------------------
\* Type invariant: every variable holds what its declaration says.
TypeOK ==
  /\ backend \in Backends
  /\ pst   \in [Proc -> ProcStates]
  /\ chain \in [Proc -> [Key -> Nat]]
  /\ conn  \in [Proc -> BOOLEAN]
  /\ wire  \in [Proc -> Seq(Req)]
  /\ log   \in [Key -> Seq(Counter \cup {Torn})]
  /\ st    \in [Req -> ReqStates]
  /\ by    \in [Req -> Proc \cup {NoProc}]
  /\ key   \in [Req -> Key]
  /\ ctr   \in [Req -> Counter \cup {0}]
  /\ said  \in [Req -> Nat]
  /\ spoiled \in [Key -> BOOLEAN]

Released == {r \in Req : st[r] = "released"}

\* No two tokens ever sent for a key carry the same mutation counter, across
\* concurrent handlers, failed appends, crashes and restarts.
UniqueTokens ==
  \A r, s \in Released : r # s /\ key[r] = key[s] => ctr[r] # ctr[s]

\* The boot check can only refuse a log in which some issue failed between the
\* ratchet and the log: crashes, conflicts with another writer's INSERT, lost
\* connections and rejected requests never leave a gap.
LoadableUnlessSpoiled == \A k \in Key : ~spoiled[k] => Loadable(k)

\* File store: a handler that moves the ratchet gets a counter above that of
\* every token already sent for the key, so a verifier whose high-water mark
\* has seen them all still accepts it, also after any restart.
IssuedAboveReleased ==
  [][ \A r \in Req :
        backend = "file" /\ ctr'[r] # ctr[r] =>
          \A s \in Released : key[s] = key[r] => ctr[s] < ctr'[r] ]_vars

\* A request whose record is on its way is answered, unless its process stops.
Answered ==
  \A r \in Req :
    st[r] \in {"sent", "stored"} ~> st[r] \in {"released", "failed", "lost"}

\* The promise of module CounterLedger.
Ledger == INSTANCE CounterLedger WITH
  recorded <- {kc \in Key \X Counter : kc[2] \in Recorded(kc[1])},
  released <- {<<key[r], ctr[r]>> : r \in Released}
ImplementsLedger == Ledger!Spec

-------------------------------------------------------------------------------
\* chain-log.mjs and server-sovereign.mjs: a log the server itself wrote, with no
\* crash in the middle of a record, restores the chain at the next start.
BootAccepts == \A p \in Proc : pst[p] # "refused"

\* The mutationCtr of the response is the counter inside the token it carries
\* (qv-spec/wire-format.md 104). Not so of two concurrent issues on Postgres: Reply reads
\* the chain after the await. No run checks it.
ReplyNamesItsToken == \A r \in Released : said[r] = ctr[r]
===============================================================================
