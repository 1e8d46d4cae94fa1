------------------------------- MODULE TokenFlow -------------------------------
(***************************************************************************)
(* Tokens from the issuer to the verifiers: the stateless issuers that     *)
(* reserve counters in a store (issueTokenWithStore), the command line     *)
(* that issues with a chain of its own, and the verifiers: the pure        *)
(* pipeline behind the server's routes, a verifier that keeps a chain, and *)
(* verifiers that share a store (verifyTokenWithStore).                    *)
(*                                                                         *)
(* Cryptography is ideal: "blobs" is everything that was ever enciphered,  *)
(* signed or deflated, and a blob on the wire is cells that name it.       *)
(***************************************************************************)
EXTENDS TokenCodec, FiniteSets

CONSTANTS Issuers,    \* callers of issueTokenWithStore
          Verifiers,  \* callers of verifyTokenWithStore
          Keys,       \* key entries: a signing key pair and an encryption key
          Asked,      \* the requests, in the order they come
          Inflates,   \* whether the verifier that keeps a chain runs where zlib is
          Skew,       \* 5 s
          Drifts,     \* how far a verifier's clock may be from the issuer's
          MaxTime     \* bound of the clock

\* A request asks the SDK or the core for a token under a key. A suite is a byte, and one the
\* core knows when the core is asked; the core's ttl has the width of its field.
Texts8   == Seq(0..255)
Requests ==
  {r \in [impl : {"js", "rust"}, claims : Seq([key : Texts8, type : STRING, text : Texts8]),
          compress : {"legacy", "off", "on", "auto"}, ttl : Nat, suite : 0..255, key : Keys] :
     r.impl = "rust" => r.suite \in Suites /\ r.ttl < TtlRange}

ASSUME AskedAssumption == Asked \in Seq(Requests)

ASSUME TimeAssumption == MaxTime \in Nat /\ Skew \in Nat /\ Drifts \subseteq Int /\ Inflates \in BOOLEAN

ASSUME KeysAssumption == IsFiniteSet(Keys)

\* A time and a counter of the store fit the 64-bit fields they are written to.
ASSUME WideAssumption ==
  /\ MaxTime < Half * Half
  /\ Cardinality({n \in DOMAIN Asked : Asked[n].impl = "js"}) < Half * Half

VARIABLES now,       \* the issuers' clock
          reserved,  \* the issuing store: the last counter of each key
          issuing,   \* per issuer: its request and the counter it reserved
          next,      \* the next request of Asked
          blobs, issued,
          mark,      \* the counter of the chain a verifier keeps, per key
          observed,  \* the verifying store: the highest counter of each key
          pending,   \* per store verifier: what it verified and has not observed
          accepted   \* history: the counters accepted, per guard and key

vars == <<now, reserved, issuing, next, blobs, issued, mark, observed, pending, accepted>>

Idle   == [ask |-> 0, ctr |-> 0]
Guards == {"chain", "store"}

Init ==
  /\ now = 0 /\ next = 1 /\ blobs = <<>> /\ issued = <<>>
  /\ reserved = [k \in Keys |-> 0] /\ observed = [k \in Keys |-> 0] /\ mark = [k \in Keys |-> 0]
  /\ issuing = [i \in Issuers |-> Idle]
  /\ pending = [v \in Verifiers |-> {}]
  /\ accepted = [gk \in Guards \X Keys |-> <<>>]

-------------------------------------------------------------------------------
(***************************************************************************)
(* Ideal cryptography and compression.                                     *)
(***************************************************************************)
Opaque == 1000

Blob(kind, key, nonce, text, len) ==
  [kind |-> kind, key |-> key, nonce |-> nonce, text |-> text, len |-> len]

\* The cells of the blob that comes as number b.
CellsOf(b, len) == [i \in 1..len |-> Opaque + b]

\* What the cells stand for, if they are a whole blob of this kind, key and nonce.
OpenBlob(cells, kind, key, nonce) ==
  LET is(b) == /\ blobs[b].kind = kind /\ blobs[b].key = key /\ blobs[b].nonce = nonce
               /\ cells = CellsOf(b, blobs[b].len)
      found == {b \in DOMAIN blobs : is(b)}
  IN IF found = {} THEN Fail ELSE Ok(blobs[CHOOSE b \in found : TRUE].text)

-------------------------------------------------------------------------------
(***************************************************************************)
(* Issuing.                                                                *)
(***************************************************************************)
Raw     == 0
Deflate == 1

Dilithium5 == 5
Falcon     == 16  \* 0x10

SignatureOf(suite, impl) == IF impl = "rust" /\ suite = Falcon THEN "falcon512" ELSE "ml-dsa"

\* The plaintexts the SDK may make of the encoded claims, each with the blob it needs.
\* The SDK before 4.1 ("legacy") put no marker in front.
Plaintexts(compress, raw) ==
  LET plain(text)   == [text |-> text, deflated |-> <<>>]
      deflated(len) == [text |-> <<Deflate>> \o CellsOf(Len(blobs) + 1, len),
                        deflated |-> <<Blob("deflate", 0, 0, raw, len)>>]
      lens == {1, Len(raw)}
  IN CASE compress = "legacy" -> {plain(raw)}
       [] compress = "off"    -> {plain(<<Raw>> \o raw)}
       [] compress = "on"     -> {deflated(len) : len \in lens}
       [] compress = "auto"   ->
            {IF len < Len(raw) THEN deflated(len) ELSE plain(<<Raw>> \o raw) : len \in lens}

Header(r, ctr) ==
  [suite |-> r.suite, tokenType |-> 1, issuedAt |-> now, ttl |-> r.ttl,
   nonce |-> Len(issued) + 1, deviceFp |-> Len(issued) + 1, mutationCtr |-> ctr]

\* Encrypt the text, sign the header and the payload, and send.
Emit(r, h, known, text) ==
  LET js      == r.impl = "js"
      sealed  == Append(known, Blob(r.impl, r.key, h.nonce, text, Len(text) + 1))
      payload == CellsOf(Len(sealed), Len(text) + 1)
      covered == IF js THEN SignedBytes(h, payload) ELSE Signed_bytes(h, payload)
      signed  == Append(sealed, Blob(SignatureOf(r.suite, r.impl), r.key, 0, covered, 1))
      sig     == CellsOf(Len(signed), 1)
      bytes   == IF js THEN SerializeToken(h, payload, sig) ELSE To_bytes(h, payload, sig)
  IN /\ blobs' = signed
     /\ issued' = Append(issued, [bytes |-> bytes, ask |-> r, at |-> now, ctr |-> h.mutationCtr])

\* issueToken of the SDK. Claims that cannot be encoded throw, and the chain is already
\* one further.
IssueToken(r, ctr) ==
  IF ~Encodable(r.claims) THEN UNCHANGED <<blobs, issued>>
  ELSE \E p \in Plaintexts(r.compress, EncodeClaims(r.claims)) :
         Emit(r, Header(r, ctr), blobs \o p.deflated, p.text)

\* issue_token and issue_token_falcon512 of the core.
Issue_token(r, ctr) ==
  IF ~Encodable(r.claims) THEN UNCHANGED <<blobs, issued>>
  ELSE Emit(r, Header(r, ctr), blobs, EncodeClaims(r.claims))

\* Mutant: the counter is read and not stored.
ReserveReadsOnly(i) ==
  /\ issuing[i] = Idle /\ next \in DOMAIN Asked /\ Asked[next].impl = "js"
  /\ issuing' = [issuing EXCEPT ![i] = [ask |-> next, ctr |-> reserved[Asked[next].key] + 1]]
  /\ next' = next + 1
  /\ UNCHANGED <<now, reserved, blobs, issued, mark, observed, pending, accepted>>

\* issueTokenWithStore, up to the answer of the store.
Reserve(i) ==
  /\ issuing[i] = Idle /\ next \in DOMAIN Asked /\ Asked[next].impl = "js"
  /\ LET k == Asked[next].key
     IN /\ reserved' = [reserved EXCEPT ![k] = @ + 1]
        /\ issuing' = [issuing EXCEPT ![i] = [ask |-> next, ctr |-> reserved[k] + 1]]
  /\ next' = next + 1
  /\ UNCHANGED <<now, blobs, issued, mark, observed, pending, accepted>>

\* issueTokenAt: a chain rebuilt one below the counter, and advanced.
Sign(i) ==
  /\ issuing[i] # Idle
  /\ IssueToken(Asked[issuing[i].ask], issuing[i].ctr)
  /\ issuing' = [issuing EXCEPT ![i] = Idle]
  /\ UNCHANGED <<now, reserved, next, mark, observed, pending, accepted>>

\* The core's chain: a counter, its state a function of it.
Advance(counter) == counter + 1
Check_token_counter(token_ctr, counter) == token_ctr > counter

\* The command line issues with a new chain, so at counter 1.
CliIssue ==
  /\ next \in DOMAIN Asked /\ Asked[next].impl = "rust"
  /\ Issue_token(Asked[next], Advance(0))
  /\ next' = next + 1
  /\ UNCHANGED <<now, reserved, issuing, mark, observed, pending, accepted>>

-------------------------------------------------------------------------------
(***************************************************************************)
(* Verifying.                                                              *)
(***************************************************************************)
\* A layer of the pipeline; the first that fails decides.
Layer(fails, throws) == <<fails, throws>>

Decide(h, layers, claims) ==
  LET first == SelectInSeq(layers, LAMBDA layer : layer[1])
  IN [verdict |-> IF first = 0 THEN "OK" ELSE layers[first][2],
      ctr     |-> h.mutationCtr,
      claims  |-> IF first = 0 THEN claims.value ELSE <<>>]

Timing(h, clock) ==
  << Layer(h.nonce = 0, "KOLMOGOROV"),
     Layer(h.issuedAt > clock + Skew, "NOT_YET_VALID"),
     Layer(clock > h.issuedAt + h.ttl, "EXPIRED") >>

\* The encoded claims in a plaintext: behind a marker, deflated, or (legacy) bare.
Body(inflates, plain) ==
  IF Head(plain) \notin {Raw, Deflate} THEN Ok(plain)
  ELSE IF Head(plain) = Raw THEN Ok(Tail(plain))
  ELSE IF inflates THEN OpenBlob(Tail(plain), "deflate", 0, 0) ELSE Fail

\* verifyToken of the SDK.
VerifyToken(inflates, data, key, chain, clock) ==
  LET parsed == DeserializeToken(data) IN
  IF ~parsed.ok THEN [verdict |-> "MALFORMED"]
  ELSE LET h      == parsed.value.header
           signed == OpenBlob(parsed.value.signature, "ml-dsa", key, 0)
           plain  == OpenBlob(parsed.value.payload, "js", key, h.nonce)
           body   == IF plain.ok THEN Body(inflates, plain.value) ELSE Fail
           claims == IF body.ok THEN DecodeClaims(body.value) ELSE Fail
       IN Decide(h, Timing(h, clock) \o
            << Layer(signed # Ok(SignedBytes(h, parsed.value.payload)), "SIGNATURE_INVALID"),
               Layer(~plain.ok, "DECRYPT"), Layer(h.mutationCtr <= chain, "REPLAY"),
               Layer(~body.ok, "DECOMPRESS"), Layer(~claims.ok, "CLAIMS") >>, claims)

\* decrypt, counter and claims of the core, whose plaintext is the claims.
Content(raw, key, chain) ==
  LET plain  == OpenBlob(raw.payload, "rust", key, raw.header.nonce)
      claims == IF plain.ok THEN Claims_decode(plain.value) ELSE Fail
  IN [claims |-> claims,
      layers |-> << Layer(~plain.ok, "DECRYPT"),
                    Layer(~Check_token_counter(raw.header.mutationCtr, chain), "REPLAY"),
                    Layer(~claims.ok, "CLAIMS") >>]

Signature(raw, alg, key) ==
  << Layer(OpenBlob(raw.signature, alg, key, 0) # Ok(Signed_bytes(raw.header, raw.payload)),
           "SIGNATURE_INVALID") >>

\* verify_token of the core.
Verify_token(data, key, chain, clock) ==
  LET parsed == From_bytes(data)
      raw    == parsed.value
      rest   == Content(raw, key, chain)
  IN IF ~parsed.ok THEN [verdict |-> "MALFORMED"]
     ELSE Decide(raw.header, Timing(raw.header, clock) \o Signature(raw, "ml-dsa", key)
                               \o rest.layers, rest.claims)

\* verify_token_falcon512 of the core: the suite and the signature come first.
Verify_token_falcon512(data, key, chain, clock) ==
  LET parsed == From_bytes(data)
      raw    == parsed.value
      rest   == Content(raw, key, chain)
  IN IF ~parsed.ok THEN [verdict |-> "MALFORMED"]
     ELSE Decide(raw.header, << Layer(raw.header.suite # Falcon, "SUITE") >>
                               \o Signature(raw, "falcon512", key)
                               \o Timing(raw.header, clock) \o rest.layers, rest.claims)

\* The command line verifies with a new chain at 0, and shows what From_bytes reads.
CliVerify(data, key, clock) == Verify_token(data, key, 0, clock)
CliInspect(data) ==
  LET raw == From_bytes(data)
  IN IF ~raw.ok THEN Fail
     ELSE Ok([issuedAt |-> raw.value.header.issuedAt, ttl |-> raw.value.header.ttl,
              mutationCtr |-> raw.value.header.mutationCtr, totalBytes |-> Len(data)])

\* /v3/token/verify, and an item of a batch: a new chain at 0 for every call.
ServerVerify(data, key, clock) == VerifyToken(TRUE, data, key, 0, clock)

\* /v3/token/verify-auto: the first active key the token verifies with; 0 if none.
VerifyAuto(data, active, clock) ==
  SelectInSeq(active, LAMBDA key : ServerVerify(data, key, clock).verdict = "OK")

\* The checks behind which verifyToken has moved the caller's chain.
Advances == {"OK", "DECOMPRESS", "CLAIMS"}

\* Mutant: the chain is checked and left where it is.
VerifyChainOnlyChecks(t, drift) ==
  LET key == t.ask.key
      r == VerifyToken(Inflates, t.bytes, key, mark[key], now + drift)
  IN /\ r.verdict \in Advances
     /\ accepted' = IF r.verdict = "OK" THEN [accepted EXCEPT ![<<"chain", key>>] = Append(@, r.ctr)]
                                        ELSE accepted
     /\ UNCHANGED <<now, reserved, issuing, next, blobs, issued, mark, observed, pending>>

\* verifyToken with the caller's own chain, where it gets as far as the chain.
VerifyChain(t, drift) ==
  LET key == t.ask.key
      r == VerifyToken(Inflates, t.bytes, key, mark[key], now + drift)
  IN /\ r.verdict \in Advances
     /\ mark' = [mark EXCEPT ![key] = r.ctr]
     /\ accepted' = IF r.verdict = "OK" THEN [accepted EXCEPT ![<<"chain", key>>] = Append(@, r.ctr)]
                                        ELSE accepted
     /\ UNCHANGED <<now, reserved, issuing, next, blobs, issued, observed, pending>>

\* verifyTokenWithStore, up to the call of observe.
VerifyStore(v, t, drift) ==
  LET r == ServerVerify(t.bytes, t.ask.key, now + drift)
  IN /\ pending[v] = {} /\ r.verdict = "OK"
     /\ pending' = [pending EXCEPT ![v] = {[key |-> t.ask.key, ctr |-> r.ctr]}]
     /\ UNCHANGED <<now, reserved, issuing, next, blobs, issued, mark, observed, accepted>>

\* Mutant: a counter that was observed before passes.
ObserveFromEqual(v) ==
  \E p \in pending[v] :
    /\ observed' = [observed EXCEPT ![p.key] = IF p.ctr >= @ THEN p.ctr ELSE @]
    /\ accepted' = IF p.ctr >= observed[p.key]
                   THEN [accepted EXCEPT ![<<"store", p.key>>] = Append(@, p.ctr)] ELSE accepted
    /\ pending' = [pending EXCEPT ![v] = {}]
    /\ UNCHANGED <<now, reserved, issuing, next, blobs, issued, mark>>

\* observe: the store takes the counter if it is above its own, and throws REPLAY otherwise.
Observe(v) ==
  \E p \in pending[v] :
    /\ observed' = [observed EXCEPT ![p.key] = IF p.ctr > @ THEN p.ctr ELSE @]
    /\ accepted' = IF p.ctr > observed[p.key]
                   THEN [accepted EXCEPT ![<<"store", p.key>>] = Append(@, p.ctr)] ELSE accepted
    /\ pending' = [pending EXCEPT ![v] = {}]
    /\ UNCHANGED <<now, reserved, issuing, next, blobs, issued, mark>>

\* The call of observe fails, before or after the store took the counter; the verify throws.
ObserveFails(v) ==
  \E p \in pending[v], took \in BOOLEAN :
    /\ observed' = [observed EXCEPT ![p.key] = IF took /\ p.ctr > @ THEN p.ctr ELSE @]
    /\ pending' = [pending EXCEPT ![v] = {}]
    /\ UNCHANGED <<now, reserved, issuing, next, blobs, issued, mark, accepted>>

Tick ==
  /\ now < MaxTime /\ now' = now + 1
  /\ UNCHANGED <<reserved, issuing, next, blobs, issued, mark, observed, pending, accepted>>

Next ==
  \/ \E i \in Issuers : Reserve(i) \/ Sign(i)
  \/ CliIssue
  \/ \E t \in Range(issued), drift \in Drifts :
       VerifyChain(t, drift) \/ \E v \in Verifiers : VerifyStore(v, t, drift)
  \/ \E v \in Verifiers : Observe(v) \/ ObserveFails(v)
  \/ Tick

Spec == Init /\ [][Next]_vars

-------------------------------------------------------------------------------
(***************************************************************************)
(* Properties.                                                             *)
(***************************************************************************)
\* The tokens as a faulty transport may deliver them: a cell changed, the end lost, or
\* something behind the end.
Damaged(bytes) ==
  {[bytes EXCEPT ![i] = @ + d] : i \in DOMAIN bytes, d \in {-1, 1}}
    \cup {SubSeq(bytes, 1, n) : n \in 0..(Len(bytes) - 1)} \cup {bytes \o bytes}

Verifier == {"js", "rust", "falcon512"}

Verdict(verifier, data, key, clock) ==
  CASE verifier = "js"        -> ServerVerify(data, key, clock)
    [] verifier = "rust"      -> CliVerify(data, key, clock)
    [] verifier = "falcon512" -> Verify_token_falcon512(data, key, 0, clock)

\* The one that verifies what this request makes.
Own(r) == IF SignatureOf(r.suite, r.impl) = "falcon512" THEN "falcon512" ELSE r.impl

Texts(claims) == [i \in DOMAIN claims |-> <<claims[i].key, claims[i].text>>]

\* The token may be used at this clock: the ttl is what 32 bits keep of the asked one.
Timely(t, clock) == t.at <= clock + Skew /\ clock <= t.at + Uint32(t.ask.ttl)

\* What a verifier accepts is a token as it was issued: by its own implementation, with its
\* key, in its time, and it reports the claims the issuer asked for (as text) and the
\* counter the issuer spent. A token damaged on the way is never accepted, whichever cell
\* (tried while the token is fresh, so that nothing but the damage can refuse it).
Sound ==
  \A t \in Range(issued) :
    /\ \A verifier \in Verifier, key \in Keys, d \in Drifts :
         LET r == Verdict(verifier, t.bytes, key, now + d)
         IN r.verdict = "OK" =>
              /\ verifier = Own(t.ask) /\ key = t.ask.key /\ Timely(t, now + d)
              /\ r.claims = Texts(t.ask.claims) /\ r.ctr = t.ctr
    /\ t = Last(issued) /\ t.at = now =>
         \A data \in Damaged(t.bytes) :
           Verdict(Own(t.ask), data, t.ask.key, now).verdict # "OK"

\* The signature that the wire format ties to a suite byte; the issuers above make no others.
NamedBy(suite) == CASE suite = Dilithium5 -> "ml-dsa"
                    [] suite = Falcon     -> "falcon512"
                    [] OTHER              -> "other"

\* The suite byte says how the token is signed. Both issuers write the byte they are given,
\* so that it may say something else.
SuiteFits(r) == NamedBy(r.suite) = SignatureOf(r.suite, r.impl)

\* A token whose suite byte fits is accepted by its verifier all its time, also across the
\* boundaries of the wire format (a counter or a time that needs the high half, a string of
\* 32 bytes, a payload that deflate does not shrink), and verify-auto finds its key among the
\* others. Inspect, which verifies nothing, shows any token as it was issued (the core's only
\* of a suite it knows).
Complete ==
  \A t \in Range(issued) :
    /\ LET shown == Ok([issuedAt |-> t.at, ttl |-> Uint32(t.ask.ttl),
                        mutationCtr |-> t.ctr, totalBytes |-> Len(t.bytes)])
       IN /\ InspectToken(t.bytes) = shown
          /\ t.ask.suite \in Suites => CliInspect(t.bytes) = shown
    /\ \A clock \in {now + d : d \in Drifts} :
         SuiteFits(t.ask) /\ Timely(t, clock) =>
           /\ Verdict(Own(t.ask), t.bytes, t.ask.key, clock).verdict = "OK"
           /\ t.ask.impl = "js" =>
                \A active \in SetToSeqs(Keys) :
                  LET found == VerifyAuto(t.bytes, active, clock)
                  IN found # 0 /\ active[found] = t.ask.key

\* A verifier rejects a token whose suite byte fails to validate (qv-spec/wire-format.md 135,
\* with the signature of each byte at 31-39). Not so of an SDK token that was asked for with
\* the byte of Falcon-512: issueToken writes it and signs ML-DSA, and verifyToken never reads
\* it. No run checks it.
SuiteByteRefused ==
  \A t \in Range(issued), verifier \in Verifier, d \in Drifts :
    Verdict(verifier, t.bytes, t.ask.key, now + d).verdict = "OK" => SuiteFits(t.ask)

\* A chain, and a store shared by verifiers that call it when they like, accept each counter
\* of a key at most once, and never one below a counter they accepted.
AcceptedOnce ==
  \A gk \in Guards \X Keys :
    \A i, j \in DOMAIN accepted[gk] : i < j => accepted[gk][i] < accepted[gk][j]

\* No two tokens issued through the store for one key have the same counter, whatever the
\* order the issuers sign in and whichever issue failed; and none of them is above the store.
CountersUnique ==
  LET js == {i \in DOMAIN issued : issued[i].ask.impl = "js"}
  IN \A i, j \in js :
       /\ issued[i].ctr \in 1..reserved[issued[i].ask.key]
       /\ i # j /\ issued[i].ask.key = issued[j].ask.key => issued[i].ctr # issued[j].ctr
===============================================================================
