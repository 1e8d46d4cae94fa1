------------------------------- MODULE RateLimit -------------------------------
(***************************************************************************)
(* The token buckets of ratelimit.mjs: four per client IP, one per key id, *)
(* as the routes of server-sovereign.mjs spend them.                       *)
(*                                                                         *)
(* Time is counted in units of which Sec make a second and Minute a        *)
(* minute; tokens are counted in 1/Minute of a token, so that one unit of  *)
(* time refills rpm units of tokens and a request costs Minute of them.    *)
(* The rounding of the floating-point balances is left out, and the clock  *)
(* does not go back.                                                       *)
(***************************************************************************)
EXTENDS Integers, FiniteSets

CONSTANTS Ip,        \* client addresses
          Key,       \* key ids
          Category,  \* "admin", "authFail" and the categories of the other routes
          Rpm,       \* Rpm[c]: requests per minute of a category
          KeyRpm,    \* KeyRpm[k]: issues per minute of a key, 0 when not throttled
          MaxIps,    \* entries each of the two maps may hold
          Idle,      \* idleSweepSec: how long an entry is kept unused
          Sec, Minute,
          Horizon,   \* bounds the model: the last moment
          MaxReading \* bounds the model: issue requests whose body is being read

ASSUME RateAssumption ==
  /\ Ip \cap Key = {}
  /\ {"admin", "authFail"} \subseteq Category
  /\ Rpm \in [Category -> Nat \ {0}] /\ KeyRpm \in [Key -> Nat]
  /\ MaxIps \in Nat /\ Horizon \in Nat /\ MaxReading \in Nat
  /\ Sec \in Nat \ {0} /\ Minute \in Nat \ {0} /\ Idle \in Nat
ASSUME IdleAssumption == Idle >= Minute  \* 300 and 60 seconds in the code

Throttled == {k \in Key : KeyRpm[k] > 0}
Holder    == Ip \cup Throttled
Bucket    == (Ip \X Category) \cup (Throttled \X {"issue"})
Of(b)     == b[1]
Rate(b)   == IF Of(b) \in Ip THEN Rpm[b[2]] ELSE KeyRpm[Of(b)]
Full(b)   == Rate(b) * Minute  \* a new bucket, and its capacity

VARIABLES
  now,      \* Date.now()
  held,     \* the owners of entries: client IPs in the one map, keys in the other
  seen,     \* seen[o]: lastSeen of o's entry
  tokens,   \* tokens[b]: the balance at the last refill
  last,     \* last[b]: lastRefill
  reading,  \* admin requests let through that have yet to reach the issue check
  watch,    \* the bucket the history is about
  since,    \* history: the start of the period that is measured; Never
  granted,  \* history: requests allowed on watch since then
  retryAt   \* history: when a refused client was told to come back; Never

entries == <<held, seen, tokens, last>>
history == <<since, granted, retryAt>>
vars    == <<now, entries, reading, watch, history>>

Never == -1

Init ==
  /\ now = 0
  /\ held = {}
  /\ seen   = [o \in Holder |-> 0]
  /\ tokens = [b \in Bucket |-> Full(b)]  \* no meaning before b's owner is held
  /\ last   = [b \in Bucket |-> 0]
  /\ reading = 0
  /\ watch \in Bucket
  /\ since = Never /\ granted = 0 /\ retryAt = Never

-------------------------------------------------------------------------------
Smaller(a, b) == IF a < b THEN a ELSE b
CeilDiv(a, b) == (a + b - 1) \div b

\* newBucket, or refill of the bucket that is there.
Refilled(b) == Smaller(Full(b), tokens[b] + (now - last[b]) * Rate(b))
Balance(b)  == IF Of(b) \in held THEN Refilled(b) ELSE Full(b)

SameMap(o)  == IF o \in Ip THEN held \cap Ip ELSE held \ Ip
HasEntry(o) == o \in held \/ Cardinality(SameMap(o)) < MaxIps
Allows(b)   == HasEntry(Of(b)) /\ Balance(b) >= Minute

\* Mutant: the seconds to wait are rounded down.
RetrySecDown(b) == IF Minute - Balance(b) < Sec * Rate(b) THEN 1
                   ELSE (Minute - Balance(b)) \div (Sec * Rate(b))

RetrySec(b) == IF CeilDiv(Minute - Balance(b), Sec * Rate(b)) < 1 THEN 1
               ELSE CeilDiv(Minute - Balance(b), Sec * Rate(b))

Spent(b) == IF Balance(b) >= Minute THEN Balance(b) - Minute ELSE Balance(b)

\* What the refused or admitted client of the watched bucket saw.
Noted(S) ==
  /\ IF watch \in S
       THEN /\ granted' = IF since # Never /\ Balance(watch) >= Minute
                           THEN granted + 1 ELSE granted
            /\ retryAt' = IF Balance(watch) >= Minute
                            THEN Never ELSE now + Sec * RetrySec(watch)
       ELSE UNCHANGED <<granted, retryAt>>
  /\ UNCHANGED since

\* check, recordAuthFail, checkKey: in one turn every bucket of S, all of them o's.
\* An owner without an entry gets one with full buckets, if the map has room.
Charge(o, S) ==
  IF HasEntry(o)
    THEN /\ held' = held \cup {o}
         /\ seen' = [seen EXCEPT ![o] = now]
         /\ tokens' = [b \in Bucket |->
              IF b \in S THEN Spent(b)
              ELSE IF Of(b) = o /\ o \notin held THEN Full(b) ELSE tokens[b]]
         /\ last' = [b \in Bucket |->
              IF b \in S \/ (Of(b) = o /\ o \notin held) THEN now ELSE last[b]]
         /\ Noted(S)
    ELSE UNCHANGED <<entries, history>>

-------------------------------------------------------------------------------
\* publicRL, verifyRL.
Request(i, c) ==
  /\ c \notin {"admin", "authFail"}
  /\ Charge(i, {<<i, c>>})
  /\ UNCHANGED <<now, reading, watch>>

\* admin(): the rate first, then the bearer token.
AdminRequest(i) ==
  /\ Charge(i, {<<i, "admin">>})
  /\ reading' \in IF Allows(<<i, "admin">>) /\ reading < MaxReading
                    THEN {reading, reading + 1} ELSE {reading}
  /\ UNCHANGED <<now, watch>>

AdminDenied(i) ==
  /\ Allows(<<i, "admin">>)
  /\ Charge(i, {<<i, "admin">>, <<i, "authFail">>})
  /\ UNCHANGED <<now, reading, watch>>

\* The issue route, once the body is read: an early return, a key that is not
\* throttled, or the check of the key's bucket.
IssueUnchecked ==
  /\ reading > 0
  /\ reading' = reading - 1
  /\ UNCHANGED <<now, entries, watch, history>>

IssueChecked(k) ==
  /\ reading > 0
  /\ reading' = reading - 1
  /\ Charge(k, {<<k, "issue">>})
  /\ UNCHANGED <<now, watch>>

\* The entries of S go; what is left in their functions has no meaning.
Drop(S) ==
  /\ held' = held \ S
  /\ seen'   = [o \in Holder |-> IF o \in S THEN 0 ELSE seen[o]]
  /\ tokens' = [b \in Bucket |-> IF Of(b) \in S THEN Full(b) ELSE tokens[b]]
  /\ last'   = [b \in Bucket |-> IF Of(b) \in S THEN 0 ELSE last[b]]

\* Mutant: entries are dropped after half the time.
SweepEarly ==
  /\ Drop({o \in held : 2 * (now - seen[o]) > Idle})
  /\ UNCHANGED <<now, reading, watch, history>>

\* sweep(), on its timer; a timer event may come late.
Sweep ==
  /\ Drop({o \in held : seen[o] < now - Idle})
  /\ UNCHANGED <<now, reading, watch, history>>

Tick ==
  /\ now < Horizon
  /\ now' = now + 1
  /\ UNCHANGED <<entries, reading, watch, history>>

\* History only: the measured period starts, at any moment.
StartPeriod ==
  /\ since = Never
  /\ since' = now
  /\ UNCHANGED <<now, entries, reading, watch, granted, retryAt>>

Next ==
  \/ \E i \in Ip : \/ \E c \in Category : Request(i, c)
                   \/ AdminRequest(i) \/ AdminDenied(i)
  \/ \E k \in Throttled : IssueChecked(k)
  \/ IssueUnchecked \/ Sweep \/ Tick \/ StartPeriod

Spec == Init /\ [][Next]_vars

-------------------------------------------------------------------------------
\* Mutant: the tokens refilled since the last issue are forgotten.
SnapshotUnrefilled(k) == (IF k \in held THEN tokens[<<k, "issue">>]
                          ELSE Full(<<k, "issue">>)) \div Minute

\* quotaSnapshot: the tokens it reports for a throttled key.
SnapshotTokens(k) ==
  IF k \in held
    THEN Smaller(Full(<<k, "issue">>),
                 tokens[<<k, "issue">>] + (now - last[<<k, "issue">>]) * KeyRpm[k]) \div Minute
    ELSE KeyRpm[k]

-------------------------------------------------------------------------------
\* Type invariant: every variable holds what its declaration says.
TypeOK ==
  /\ now \in Nat
  /\ held \subseteq Holder
  /\ seen \in [Holder -> Nat]
  /\ tokens \in [Bucket -> Nat]
  /\ last \in [Bucket -> Nat]
  /\ reading \in Nat
  /\ watch \in Bucket
  /\ since \in Nat \cup {Never} /\ granted \in Nat /\ retryAt \in Nat \cup {Never}

\* In any period, an IP in a category, or a key, is allowed at most rpm requests and
\* what its rate refills in that time, also when its entry is swept and made anew.
WithinRate ==
  since # Never => granted * Minute <= Rate(watch) * (Minute + (now - since))

\* A client that was refused for its rate and waits for the Retry-After it was sent,
\* with nobody else spending from its bucket, finds a token there.
RetryIsHonest == retryAt # Never /\ now >= retryAt => Balance(watch) >= Minute

\* GET /v3/keys/:id/quota agrees with the verdict the next issue of the key would
\* get, except when the map of keys is full.
QuotaAgrees ==
  \A k \in Throttled : HasEntry(k) => (SnapshotTokens(k) >= 1 <=> Allows(<<k, "issue">>))
===============================================================================
