--------------------------- MODULE PgClient_proofs ---------------------------
(***************************************************************************)
(* Proofs about PgClient: every call gets its own answer, transaction() is *)
(* atomic, and the client implements QueryService.                         *)
(*                                                                         *)
(* The client matches answers to calls by position only, so the heart of   *)
(* the invariant, Aligned, says what the bytes under way look like: in     *)
(* order, whole answers without a gap, from the call at the head of the    *)
(* queue on, until the connection ends.                                    *)
(***************************************************************************)
EXTENDS PgClient, SequenceTheorems, TLAPS

Call    == [by : Caller \cup {Opener}, kind : Kind]
Tag     == {"clear", "sasl", "other_mechanism", "V", "continue", "bad_nonce", "final", "bad_proof",
            "auth_ok", "A", "C", "D", "E", "Z"}
Message == [tag : Tag, of : Nat]
Results == {"wait", "ok", "error", "lost", "confused"}
Outcomes == {"ok", "error"}

QueueOK ==
  /\ asked \in Seq(Call) /\ result \in Seq(Results) /\ source \in Seq(SUBSET Nat)
  /\ Len(result) = Len(asked) /\ Len(source) = Len(asked)
  /\ settled \in 0..Len(asked) /\ err \in BOOLEAN /\ derailed \in BOOLEAN

WireOK ==
  /\ scram \in {"none", "first", "proof"} /\ replies \in Nat
  /\ stream \in Seq(Message) /\ got \in 0..Len(stream) /\ sock \in {"up", "down"}

ServerOK ==
  /\ login \in {"start", "asked", "challenged", "done", "gone"} /\ tx \in {"I", "T", "E"}
  /\ outcome \in Seq(Outcomes) /\ Len(outcome) <= Len(asked)
  /\ pend \subseteq 1..Len(outcome) /\ durable \subseteq 1..Len(outcome)

TypeOK ==
  /\ tcp \in {"connecting", "up", "failed"} /\ link \in {"open", "ended", "fatal"}
  /\ QueueOK /\ WireOK /\ ServerOK
  /\ pc \in [Caller -> {"idle", "sent", "begin", "body", "commit", "rollback", "done", "failed"}]
  /\ at \in [Caller -> Nat]

-------------------------------------------------------------------------------
(***************************************************************************)
(* The invariants.                                                         *)
(***************************************************************************)
\* The queue holds the calls behind settled, and a fatal error leaves none in it.
Queued ==
  /\ \A k \in 1..Len(asked) : result[k] = "wait" <=> k > settled
  /\ link = "fatal" => settled = Len(asked)
  /\ ~derailed => \A k \in 1..Len(asked) : result[k] # "confused"
  /\ tcp # "up" => asked = <<>> /\ link = "open"

\* The server answers the handshake first; it runs no call unless it admits the client.
LoggedIn ==
  /\ login \in {"start", "asked", "challenged"} => outcome = <<>>
  /\ login = "done" \/ Len(outcome) > 1 => Len(outcome) >= 1 /\ outcome[1] = "ok"
  /\ asked # <<>> => asked[1].kind = "startup"

Ends(m) == m.tag = "Z" \/ (m.tag = "E" /\ m.of = 1)  \* it settles the call at the head

InOrder ==
  /\ settled <= Len(outcome)
  /\ settled = 0 => ~err
  /\ stream # <<>> => stream[1].of = settled + 1
  /\ \A i \in 1..(Len(stream) - 1) :
       stream[i + 1].of = stream[i].of + (IF Ends(stream[i]) THEN 1 ELSE 0)

\* A call is told an error if and only if an E came right before its Z.
TellsOutcome ==
  /\ \A i \in 1..Len(stream) : stream[i].tag = "Z" =>
       /\ stream[i].of \in 1..Len(outcome)
       /\ outcome[stream[i].of] = "error" <=> IF i = 1 THEN err ELSE stream[i - 1].tag = "E"
  /\ \A i \in 1..Len(stream) : stream[i].tag = "E" =>
       /\ i < Len(stream) => stream[i + 1].tag = "Z"
       /\ stream[i].of = 1 => Len(outcome) >= 1 /\ outcome[1] = "error"
  /\ err => stream = <<>> \/ stream[1].tag = "Z"

\* While the socket is up nothing is missing at the end.
UpToDate ==
  sock = "up" =>
    /\ login = "done" => IF stream = <<>> THEN settled = Len(outcome) /\ ~err
                         ELSE /\ stream[Len(stream)].of = Len(outcome)
                              /\ Ends(stream[Len(stream)])
    /\ login \in {"start", "asked", "challenged"} /\ stream # <<>> =>
         stream[Len(stream)].of = 1 /\ stream[Len(stream)].tag \notin {"Z", "E"}

\* After a fatal error the queue is empty for good, and after an unknown message
\* nothing is promised.
Aligned == link # "fatal" /\ ~derailed => InOrder /\ TellsOutcome /\ UpToDate

\* What AnswersAreOwn says, of the calls that still wait, too.
Owned ==
  ~derailed => \A k \in 1..Len(asked) :
    /\ source[k] \subseteq {k}
    /\ result[k] \in Outcomes => k <= Len(outcome) /\ result[k] = outcome[k]

-------------------------------------------------------------------------------
\* Where a transaction() is, and what it has asked.
Phase(c) ==
  /\ pc[c] = "idle" =>
       Own(c, "begin") \cup Own(c, "stmt") \cup Own(c, "commit") \cup Own(c, "rollback") = {}
  /\ pc[c] = "begin" => /\ at[c] \in Own(c, "begin")
                        /\ Own(c, "stmt") \cup Own(c, "commit") \cup Own(c, "rollback") = {}
  /\ pc[c] = "body" => /\ at[c] \in Own(c, "stmt")
                       /\ Own(c, "commit") \cup Own(c, "rollback") = {}
  /\ pc[c] \in {"commit", "done"} => Own(c, "commit") = {at[c]}
  /\ pc[c] = "done" => result[at[c]] = "ok"
  /\ pc[c] \in {"rollback", "failed"} =>
       \A m \in Own(c, "commit") : result[m] \notin {"wait", "ok"}

Order(c) ==
  /\ \A a, b \in Own(c, "begin") : a = b
  /\ \A a, b \in Own(c, "stmt") : a = b
  /\ \A s \in Own(c, "stmt") : \E b \in Own(c, "begin") : b < s /\ result[b] = "ok"
  /\ \A m \in Own(c, "commit"), s \in Own(c, "stmt") : result[s] = "ok"
  /\ \A s \in Own(c, "stmt"), e \in Own(c, "commit") \cup Own(c, "rollback") : s < e
  /\ \A m \in Own(c, "commit"), e \in Own(c, "commit") \cup Own(c, "rollback") : m <= e

Ended(c) == \E e \in Own(c, "commit") \cup Own(c, "rollback") : e <= Len(outcome)
Executed(k, o) == k <= Len(outcome) /\ outcome[k] = o

\* What the server holds for a transaction nobody else's calls fell into.
Held(c) ==
  Alone(c) /\ ~derailed =>
    /\ \A b \in Own(c, "begin") : Executed(b, "ok") /\ login = "done" /\ ~Ended(c) =>
         /\ tx # "I"
         /\ \A s \in Own(c, "stmt") : Executed(s, "ok") => tx = "T" /\ s \in pend
    /\ \A s \in Own(c, "stmt") :
         /\ s \in pend => ~Ended(c)
         /\ s \in durable <=> \E m \in Own(c, "commit") : Executed(m, "ok")

TxInv == \A c \in Txs : Phase(c) /\ Order(c) /\ Held(c)

-------------------------------------------------------------------------------
(***************************************************************************)
(* Types.                                                                  *)
(***************************************************************************)
\* What a server writes joins the end of the stream.
LEMMA Written ==
  ASSUME NEW s \in Seq(Message), NEW tags \in Seq(Tag), NEW k \in Nat
  PROVE  /\ s \o Msgs(tags, k) \in Seq(Message)
         /\ Len(s \o Msgs(tags, k)) = Len(s) + Len(tags)
         /\ \A i \in 1..Len(s) : (s \o Msgs(tags, k))[i] = s[i]
         /\ \A i \in 1..Len(tags) : /\ (s \o Msgs(tags, k))[Len(s) + i].tag = tags[i]
                                   /\ (s \o Msgs(tags, k))[Len(s) + i].of = k
<1> DEFINE t == Msgs(tags, k)
<1>1. t = [i \in 1..Len(tags) |-> [tag |-> tags[i], of |-> k]]  BY DEF Msgs
<1>2. Len(tags) \in Nat /\ \A i \in 1..Len(tags) : tags[i] \in Tag
  BY LenProperties, ElementOfSeq
<1>3. t \in [1..Len(tags) -> Message]  BY <1>1, <1>2 DEF Message
<1>4. t \in Seq(Message) /\ Len(t) = Len(tags)  BY <1>2, <1>3
<1> HIDE DEF t
<1>5. /\ s \o t \in Seq(Message) /\ Len(s \o t) = Len(s) + Len(tags)
      /\ \A i \in 1..(Len(s) + Len(tags)) :
           (s \o t)[i] = IF i <= Len(s) THEN s[i] ELSE t[i - Len(s)]
  <2>1. Len(t) = Len(tags) /\ t \in Seq(Message)  BY <1>4
  <2>2. \A i \in 1..(Len(s) + Len(t)) : (s \o t)[i] = IF i <= Len(s) THEN s[i] ELSE t[i - Len(s)]
    BY <2>1, ConcatProperties
  <2>3. s \o t \in Seq(Message) /\ Len(s \o t) = Len(s) + Len(t)  BY <2>1, ConcatProperties
  <2> QED BY <2>1, <2>2, <2>3
<1>6. Len(s) \in Nat  BY LenProperties
<1>7. ASSUME NEW i \in 1..Len(tags) PROVE (s \o t)[Len(s) + i] = t[i]
  <2>1. Len(s) + i \in 1..(Len(s) + Len(tags)) /\ ~(Len(s) + i <= Len(s)) /\ (Len(s) + i) - Len(s) = i
    BY <1>2, <1>6
  <2> QED BY <1>5, <2>1
<1>8. \A i \in 1..Len(tags) : t[i].tag = tags[i] /\ t[i].of = k  BY <1>1
<1> QED BY <1>2, <1>5, <1>6, <1>7, <1>8 DEF t

\* The steps of the handshake: questions, then the end of it.
LEMMA LoginTags ==
  ASSUME NEW step \in LoginSteps
  PROVE  /\ step[1] \in {"start", "asked", "challenged"} /\ step[4] \in Seq(Tag)
         /\ \/ /\ step[3] \in {"asked", "challenged"}
               /\ Len(step[4]) = 1 /\ step[4][1] \notin {"Z", "E"}
            \/ /\ step[3] = "done"
               /\ Len(step[4]) = 2 \/ (Len(step[4]) = 3 /\ step[4][1] \notin {"Z", "E"})
               /\ step[4][Len(step[4]) - 1] = "auth_ok" /\ step[4][Len(step[4])] = "Z"
            \/ step[3] = "gone" /\ Len(step[4]) = 1 /\ step[4][1] = "E"
<1>1. ASSUME NEW t \in {"final", "bad_proof"}
      PROVE  /\ <<t>> \o Admits \in Seq(Tag) /\ Len(<<t>> \o Admits) = 3
             /\ (<<t>> \o Admits)[1] = t /\ (<<t>> \o Admits)[2] = "auth_ok"
             /\ (<<t>> \o Admits)[3] = "Z"
  BY DEF Admits, Tag
<1>2. Admits \in Seq(Tag) /\ Len(Admits) = 2 /\ Admits[1] = "auth_ok" /\ Admits[2] = "Z"
  BY DEF Admits, Tag
<1>3. ASSUME NEW t \in Tag PROVE <<t>> \in Seq(Tag) /\ Len(<<t>>) = 1 /\ <<t>>[1] = t
  OBVIOUS
<1>4. \/ \E t \in {"clear", "sasl", "other_mechanism", "V"} : step = <<"start", 0, "asked", <<t>>>>
      \/ \E t \in {"continue", "bad_nonce"} : step = <<"asked", 1, "challenged", <<t>>>>
      \/ \E t \in {"final", "bad_proof"} : step = <<"challenged", 2, "done", <<t>> \o Admits>>
      \/ step = <<"start", 0, "done", Admits>> \/ step = <<"asked", 1, "done", Admits>>
      \/ step = <<"start", 0, "gone", <<"E">>>> \/ step = <<"asked", 1, "gone", <<"E">>>>
      \/ step = <<"challenged", 2, "gone", <<"E">>>>
  BY DEF LoginSteps, Refuses
<1>5. CASE \E t \in {"clear", "sasl", "other_mechanism", "V"} : step = <<"start", 0, "asked", <<t>>>>
  BY <1>5, <1>3 DEF Tag
<1>6. CASE \E t \in {"continue", "bad_nonce"} : step = <<"asked", 1, "challenged", <<t>>>>
  BY <1>6, <1>3 DEF Tag
<1>7. CASE \E t \in {"final", "bad_proof"} : step = <<"challenged", 2, "done", <<t>> \o Admits>>
  <2>1. PICK t \in {"final", "bad_proof"} : step = <<"challenged", 2, "done", <<t>> \o Admits>>
    BY <1>7
  <2>2. step[1] = "challenged" /\ step[3] = "done" /\ step[4] = <<t>> \o Admits  BY <2>1
  <2> QED BY <2>2, <1>1
<1>8. CASE step = <<"start", 0, "done", Admits>> \/ step = <<"asked", 1, "done", Admits>>
  <2>1. step[1] \in {"start", "asked"} /\ step[3] = "done" /\ step[4] = Admits  BY <1>8
  <2> QED BY <2>1, <1>2
<1>9. CASE \/ step = <<"start", 0, "gone", <<"E">>>> \/ step = <<"asked", 1, "gone", <<"E">>>>
           \/ step = <<"challenged", 2, "gone", <<"E">>>>
  <2>1. step[1] \in {"start", "asked", "challenged"} /\ step[3] = "gone" /\ step[4] = <<"E">>
    BY <1>9
  <2> QED BY <2>1, <1>3 DEF Tag
<1> QED BY <1>4, <1>5, <1>6, <1>7, <1>8, <1>9

\* The answers to a call: E Z for an error, and no E but a Z at the end otherwise.
LEMMA AnswerTags ==
  ASSUME NEW o \in Outcomes, NEW a \in Answers(o)
  PROVE  /\ a \in Seq(Tag)
         /\ \/ o = "error" /\ Len(a) = 2 /\ a[1] = "E" /\ a[2] = "Z"
            \/ o = "ok" /\ Len(a) = 3 /\ a[1] \notin {"Z", "E"} /\ a[2] = "C" /\ a[3] = "Z"
<1>1. \/ o = "error" /\ a = <<"E", "Z">>
      \/ o = "ok" /\ (a = <<"D", "C", "Z">> \/ a = <<"A", "C", "Z">>)
  BY DEF Answers, Outcomes
<1>2. \A x, y \in Tag : <<x, y>> \in Seq(Tag) /\ Len(<<x, y>>) = 2 /\ <<x, y>>[1] = x /\ <<x, y>>[2] = y
  OBVIOUS
<1>3. \A x, y, z \in Tag : /\ <<x, y, z>> \in Seq(Tag) /\ Len(<<x, y, z>>) = 3
                           /\ <<x, y, z>>[1] = x /\ <<x, y, z>>[2] = y /\ <<x, y, z>>[3] = z
  OBVIOUS
<1>4. CASE o = "error" /\ a = <<"E", "Z">>
  <2>1. "E" \in Tag /\ "Z" \in Tag  BY DEF Tag
  <2> QED BY <1>4, <1>2, <2>1
<1>5. CASE o = "ok" /\ (a = <<"D", "C", "Z">> \/ a = <<"A", "C", "Z">>)
  <2>1. "D" \in Tag /\ "A" \in Tag /\ "C" \in Tag /\ "Z" \in Tag  BY DEF Tag
  <2>2. CASE a = <<"D", "C", "Z">>  BY <1>5, <1>3, <2>1, <2>2
  <2>3. CASE a = <<"A", "C", "Z">>  BY <1>5, <1>3, <2>1, <2>3
  <2> QED BY <1>5, <2>2, <2>3
<1> QED BY <1>1, <1>4, <1>5

-------------------------------------------------------------------------------
(***************************************************************************)
(* What the changes of the queue do to it.                                 *)
(***************************************************************************)
LEMMA AskFacts ==
  ASSUME QueueOK, NEW by \in Caller \cup {Opener}, NEW kind \in Kind, Ask(by, kind)
  PROVE  /\ QueueOK' /\ Len(asked') = Len(asked) + 1
         /\ asked'[Len(asked) + 1] = [by |-> by, kind |-> kind]
         /\ result'[Len(asked) + 1] = "wait" /\ source'[Len(asked) + 1] = {}
         /\ \A k \in 1..Len(asked) :
              asked'[k] = asked[k] /\ result'[k] = result[k] /\ source'[k] = source[k]
<1>1. [by |-> by, kind |-> kind] \in Call /\ "wait" \in Results /\ {} \in SUBSET Nat
  BY DEF Call, Results
<1>2. /\ asked \in Seq(Call) /\ result \in Seq(Results) /\ source \in Seq(SUBSET Nat)
      /\ Len(result) = Len(asked) /\ Len(source) = Len(asked) /\ Len(asked) \in Nat
  BY LenProperties DEF QueueOK
<1>3. /\ asked' = Append(asked, [by |-> by, kind |-> kind]) /\ result' = Append(result, "wait")
      /\ source' = Append(source, {}) /\ UNCHANGED <<settled, err, derailed>>
  BY DEF Ask
<1>4. /\ asked' \in Seq(Call) /\ Len(asked') = Len(asked) + 1
      /\ \A i \in 1..Len(asked) : asked'[i] = asked[i]
      /\ asked'[Len(asked) + 1] = [by |-> by, kind |-> kind]
  BY <1>1, <1>2, <1>3, AppendProperties
<1>5. /\ result' \in Seq(Results) /\ Len(result') = Len(asked) + 1
      /\ \A i \in 1..Len(asked) : result'[i] = result[i]
      /\ result'[Len(asked) + 1] = "wait"
  BY <1>1, <1>2, <1>3, AppendProperties
<1>6. /\ source' \in Seq(SUBSET Nat) /\ Len(source') = Len(asked) + 1
      /\ \A i \in 1..Len(asked) : source'[i] = source[i]
      /\ source'[Len(asked) + 1] = {}
  BY <1>1, <1>2, <1>3, AppendProperties
<1> QED BY <1>2, <1>3, <1>4, <1>5, <1>6 DEF QueueOK

LEMMA ShiftFacts ==
  ASSUME QueueOK, settled < Len(asked), NEW r \in Results, Shift(r), derailed' \in BOOLEAN,
         source' \in Seq(SUBSET Nat), Len(source') = Len(source)
  PROVE  /\ QueueOK' /\ asked' = asked /\ settled' = settled + 1 /\ ~err'
         /\ \A k \in 1..Len(asked) : result'[k] = IF k = settled + 1 THEN r ELSE result[k]
<1>1. /\ Len(asked) \in Nat /\ result \in Seq(Results) /\ Len(result) = Len(asked)
      /\ settled + 1 \in 1..Len(result)
  BY LenProperties DEF QueueOK
<1>2. result' = [result EXCEPT ![settled + 1] = r]  BY DEF Shift
<1>3. /\ result' \in Seq(Results) /\ Len(result') = Len(asked)
      /\ \A k \in 1..Len(asked) : result'[k] = IF k = settled + 1 THEN r ELSE result[k]
  BY <1>1, <1>2, ExceptSeq
<1>4. asked' = asked /\ settled' = settled + 1 /\ err' = FALSE  BY DEF Shift
<1>5. settled' \in 0..Len(asked)  BY <1>1, <1>4 DEF QueueOK
<1>6. QueueOK'  BY <1>3, <1>4, <1>5 DEF QueueOK
<1> QED BY <1>3, <1>4, <1>6

LEMMA ConsumeFacts ==
  ASSUME QueueOK, settled < Len(asked), NEW m \in Message, Consume(m)
  PROVE  /\ source' \in Seq(SUBSET Nat) /\ Len(source') = Len(source)
         /\ \A k \in 1..Len(asked) :
              source'[k] = IF k = settled + 1 THEN source[k] \cup {m.of} ELSE source[k]
<1>1. /\ Len(asked) \in Nat /\ source \in Seq(SUBSET Nat) /\ Len(source) = Len(asked)
      /\ settled + 1 \in 1..Len(source)
  BY LenProperties DEF QueueOK
<1>2. source[settled + 1] \cup {m.of} \in SUBSET Nat
  BY <1>1, ElementOfSeq DEF Message
<1>3. source' = [source EXCEPT ![settled + 1] = source[settled + 1] \cup {m.of}]  BY DEF Consume
<1>4. /\ source' \in Seq(SUBSET Nat) /\ Len(source') = Len(source)
      /\ \A k \in 1..Len(source) :
           source'[k] = IF k = settled + 1 THEN source[settled + 1] \cup {m.of} ELSE source[k]
  BY <1>1, <1>2, <1>3, ExceptSeq
<1> QED BY <1>1, <1>4

LEMMA FatalFacts ==
  ASSUME QueueOK, Queued, Fatal, tcp = "up", tcp' = tcp
  PROVE  /\ QueueOK' /\ Queued' /\ link' = "fatal" /\ asked' = asked /\ source' = source
         /\ derailed' = derailed
         /\ \A k \in 1..Len(asked) :
              result'[k] = IF result[k] = "wait" THEN "lost" ELSE result[k]
<1>1. /\ Len(asked) \in Nat /\ Len(result) = Len(asked) /\ DOMAIN result = 1..Len(asked)
      /\ \A k \in 1..Len(asked) : result[k] \in Results
  BY LenProperties, ElementOfSeq DEF QueueOK
<1>2. \A k \in 1..Len(asked) : Waiting(k) <=> result[k] = "wait"
  <2>1. settled \in 0..Len(asked)  BY DEF QueueOK
  <2>2. \A k \in 1..Len(asked) : result[k] = "wait" <=> k > settled  BY DEF Queued
  <2> QED BY <1>1, <2>1, <2>2 DEF Waiting
<1>3. result' = [k \in 1..Len(asked) |-> IF result[k] = "wait" THEN "lost" ELSE result[k]]
  BY <1>1, <1>2 DEF Fatal
<1>4. result' \in [1..Len(asked) -> Results]
  BY <1>1, <1>3 DEF Results
<1>5. result' \in Seq(Results) /\ Len(result') = Len(asked)
  BY <1>1, <1>4
<1>6. asked' = asked /\ settled' = Len(asked) /\ link' = "fatal" /\ derailed' = derailed /\ source' = source
      /\ err' = FALSE
  BY DEF Fatal
<1>7. settled' \in 0..Len(asked)  BY <1>1, <1>6
<1>8. QueueOK'  BY <1>5, <1>6, <1>7 DEF QueueOK
<1>9. ASSUME NEW k \in 1..Len(asked)
      PROVE  /\ result'[k] = IF result[k] = "wait" THEN "lost" ELSE result[k]
             /\ result'[k] # "wait" /\ ~(k > Len(asked))
  BY <1>1, <1>3
<1>10. Queued'
  <2>1. \A k \in 1..Len(asked)' : result'[k] = "wait" <=> k > settled'  BY <1>6, <1>9
  <2>2. ~derailed' => \A k \in 1..Len(asked)' : result'[k] # "confused"  BY <1>6, <1>9 DEF Queued
  <2> QED BY <1>6, <2>1, <2>2 DEF Queued
<1> QED BY <1>6, <1>8, <1>9, <1>10

\* Every way in which a message changes the queue.
LEMMA DispatchFacts ==
  ASSUME TypeOK, Dispatch
  PROVE  /\ stream # <<>> /\ Len(stream) > 0 /\ stream[1] \in Message /\ WireOK'
         /\ Len(stream') = Len(stream) - 1 /\ \A i \in 1..Len(stream') : stream'[i] = stream[i + 1]
         /\ UNCHANGED <<tcp, link, sock, server, callers>>
         /\ \/ UNCHANGED queue /\ (settled = Len(asked) \/ stream[1].tag \notin {"Z", "E"})
            \/ /\ 0 < settled /\ settled < Len(asked) /\ stream[1].tag \in {"D", "E"}
               /\ Consume(stream[1]) /\ err' = (IF stream[1].tag = "E" THEN TRUE ELSE err)
               /\ UNCHANGED <<asked, result, settled, derailed>>
            \/ /\ settled < Len(asked) /\ stream[1].tag = "Z"
               /\ Shift(IF settled > 0 /\ err THEN "error" ELSE "ok")
               /\ Consume(stream[1]) /\ UNCHANGED derailed
            \/ /\ settled = 0 /\ settled < Len(asked) /\ stream[1].tag = "E"
               /\ Shift("error") /\ Consume(stream[1]) /\ UNCHANGED derailed
            \/ /\ settled < Len(asked)
               /\ Shift("confused") /\ derailed' = TRUE /\ UNCHANGED source
<1>1. /\ stream \in Seq(Message) /\ Len(stream) \in Nat /\ got \in 0..Len(stream) /\ got > 0
      /\ settled \in 0..Len(asked) /\ Len(asked) \in Nat
  BY LenProperties DEF TypeOK, WireOK, QueueOK, Dispatch
<1>2. stream # <<>> /\ Len(stream) > 0
  BY <1>1, EmptySeq
<1>3. /\ Head(stream) = stream[1] /\ stream[1] \in Message
  BY <1>1, <1>2, ElementOfSeq
<1>4. /\ Tail(stream) \in Seq(Message) /\ Len(Tail(stream)) = Len(stream) - 1
      /\ \A i \in 1..Len(Tail(stream)) : Tail(stream)[i] = stream[i + 1]
  BY <1>1, <1>2, HeadTailProperties
<1>5. /\ stream' = Tail(stream) /\ got' = got - 1 /\ UNCHANGED <<tcp, link, sock, server, callers>>
      /\ IF settled = Len(asked) THEN UNCHANGED <<queue, auth>>
         ELSE IF settled = 0 THEN Handshake(stream[1]) ELSE Collect(stream[1])
  BY <1>3 DEF Dispatch
<1>6. scram' \in {"none", "first", "proof"} /\ replies' \in Nat
  BY <1>5 DEF TypeOK, WireOK, Handshake, Collect, auth
<1>7. got' \in 0..Len(stream')
  BY <1>1, <1>4, <1>5
<1>8. WireOK'
  BY <1>4, <1>5, <1>6, <1>7 DEF TypeOK, WireOK
<1>9. CASE settled = Len(asked)
  BY <1>2, <1>3, <1>4, <1>5, <1>8, <1>9
<1>10. CASE settled # Len(asked) /\ settled = 0
  <2>1. Handshake(stream[1]) /\ settled < Len(asked)  BY <1>1, <1>5, <1>10
  <2> QED BY <1>2, <1>3, <1>4, <1>5, <1>8, <1>10, <2>1 DEF Handshake
<1>11. CASE settled # Len(asked) /\ settled # 0
  <2>1. Collect(stream[1]) /\ settled < Len(asked) /\ 0 < settled  BY <1>1, <1>5, <1>11
  <2> QED BY <1>2, <1>3, <1>4, <1>5, <1>8, <1>11, <2>1 DEF Collect, Known, queue
<1> QED BY <1>9, <1>10, <1>11

LEMMA WriteFacts ==
  ASSUME WireOK, NEW tags \in Seq(Tag), NEW k \in Nat, Write(tags, k), UNCHANGED auth
  PROVE  WireOK' /\ (sock = "up" => stream' = stream \o Msgs(tags, k))
         /\ (sock = "down" => stream' = stream) /\ sock' = sock
<1>1. /\ stream \in Seq(Message) /\ Len(stream) \in Nat /\ Len(tags) \in Nat /\ got \in 0..Len(stream)
  BY LenProperties DEF WireOK
<1>2. /\ stream \o Msgs(tags, k) \in Seq(Message)
      /\ Len(stream \o Msgs(tags, k)) = Len(stream) + Len(tags)
  BY <1>1, Written
<1>3. stream' = (IF sock = "up" THEN stream \o Msgs(tags, k) ELSE stream) /\ UNCHANGED <<got, sock>>
  BY DEF Write
<1>4. CASE sock = "up"
  <2>1. got' \in 0..Len(stream')  BY <1>1, <1>2, <1>3, <1>4
  <2> QED BY <1>2, <1>3, <1>4, <2>1 DEF WireOK, auth
<1>5. CASE sock # "up"
  BY <1>1, <1>3, <1>5 DEF WireOK, auth
<1> QED BY <1>4, <1>5

-------------------------------------------------------------------------------
(***************************************************************************)
(* Types, the queue and the handshake hold in every step.                  *)
(***************************************************************************)
Basics == TypeOK /\ Queued /\ LoggedIn

LEMMA LengthFacts ==
  ASSUME TypeOK
  PROVE  /\ Len(asked) \in Nat /\ Len(outcome) \in Nat /\ Len(stream) \in Nat
         /\ settled \in Nat /\ settled <= Len(asked) /\ Len(outcome) <= Len(asked)
         /\ (asked = <<>> <=> Len(asked) = 0) /\ (stream = <<>> <=> Len(stream) = 0)
         /\ (outcome = <<>> <=> Len(outcome) = 0)
<1>1. asked \in Seq(Call) /\ outcome \in Seq(Outcomes) /\ stream \in Seq(Message)
      /\ settled \in 0..Len(asked) /\ Len(outcome) <= Len(asked)
  BY DEF TypeOK, QueueOK, WireOK, ServerOK
<1>2. /\ Len(asked) \in Nat /\ (asked = <<>> <=> Len(asked) = 0)
      /\ Len(outcome) \in Nat /\ (outcome = <<>> <=> Len(outcome) = 0)
      /\ Len(stream) \in Nat /\ (stream = <<>> <=> Len(stream) = 0)
  BY <1>1, LenProperties, EmptySeq
<1> QED BY <1>1, <1>2

LEMMA AskBasics ==
  ASSUME Basics, NEW by \in Caller \cup {Opener}, NEW kind \in Kind, Ask(by, kind),
         UNCHANGED <<auth, wire, server>>, link = "open", link' = "open",
         tcp' = "up", asked = <<>> => kind = "startup"
  PROVE  QueueOK' /\ WireOK' /\ ServerOK' /\ Queued' /\ LoggedIn'
<1>1. QueueOK /\ WireOK /\ ServerOK  BY DEF Basics, TypeOK
<1>2. WireOK'  BY <1>1 DEF WireOK, auth, wire
<1> HIDE DEF Kind
<1>3. /\ QueueOK' /\ Len(asked') = Len(asked) + 1
      /\ asked'[Len(asked) + 1] = [by |-> by, kind |-> kind]
      /\ result'[Len(asked) + 1] = "wait"
      /\ \A k \in 1..Len(asked) : asked'[k] = asked[k] /\ result'[k] = result[k]
  BY <1>1, AskFacts
<1>4. /\ Len(asked) \in Nat /\ Len(outcome) \in Nat /\ settled \in Nat /\ settled <= Len(asked)
      /\ Len(outcome) <= Len(asked) /\ (asked = <<>> <=> Len(asked) = 0)
  BY LengthFacts DEF Basics
<1>5. ServerOK'
  BY <1>1, <1>3, <1>4 DEF ServerOK, server
<1>6. settled' = settled /\ derailed' = derailed  BY DEF Ask
<1>7. Queued'
  <2>1. ASSUME NEW k \in 1..Len(asked')
        PROVE  (result'[k] = "wait" <=> k > settled') /\ (~derailed' => result'[k] # "confused")
    <3>1. k \in 1..Len(asked) \/ k = Len(asked) + 1  BY <1>3, <1>4
    <3> QED BY <3>1, <1>3, <1>4, <1>6 DEF Basics, Queued
  <2> QED BY <2>1 DEF Queued
<1>8. LoggedIn'
  <2>1. UNCHANGED <<login, outcome>>  BY DEF server
  <2>2. asked'[1].kind = "startup"
    <3>1. CASE asked = <<>>  BY <3>1, <1>3, <1>4
    <3>2. CASE asked # <<>>  BY <3>2, <1>3, <1>4 DEF Basics, LoggedIn
    <3> QED BY <3>1, <3>2
  <2> QED BY <2>1, <2>2 DEF Basics, LoggedIn
<1> QED BY <1>2, <1>3, <1>5, <1>7, <1>8

LEMMA FatalBasics ==
  ASSUME Basics, Fatal, tcp = "up", UNCHANGED <<tcp, auth, wire, server, callers>>
  PROVE  Basics'
<1>1. QueueOK /\ WireOK /\ ServerOK /\ Queued  BY DEF Basics, TypeOK
<1>2. QueueOK' /\ Queued' /\ link' = "fatal" /\ asked' = asked  BY <1>1, FatalFacts
<1>3. WireOK' /\ ServerOK'  BY <1>1, <1>2 DEF WireOK, ServerOK, auth, wire, server
<1>4. LoggedIn'  BY <1>2 DEF Basics, LoggedIn, server
<1> QED BY <1>2, <1>3, <1>4 DEF Basics, TypeOK, callers

LEMMA DispatchBasics ==
  ASSUME Basics, Dispatch
  PROVE  Basics'
<1>1. TypeOK /\ QueueOK /\ ServerOK /\ Queued /\ LoggedIn  BY DEF Basics, TypeOK
<1>2. stream[1] \in Message /\ WireOK' /\ UNCHANGED <<tcp, link, sock, server, callers>>
  BY <1>1, DispatchFacts
<1>3. /\ Len(asked) \in Nat /\ settled \in Nat /\ settled <= Len(asked)
      /\ (asked = <<>> <=> Len(asked) = 0)
  BY <1>1, LengthFacts
<1>4. ASSUME QueueOK', asked' = asked, Queued' PROVE Basics'
  <2>1. ServerOK'  BY <1>1, <1>2, <1>4 DEF ServerOK, server
  <2>2. LoggedIn'  BY <1>1, <1>2, <1>4 DEF LoggedIn, server
  <2> QED BY <1>1, <1>2, <1>4, <2>1, <2>2 DEF Basics, TypeOK, callers
<1>5. CASE UNCHANGED queue
  <2>1. QueueOK' /\ asked' = asked  BY <1>1, <1>5 DEF QueueOK, queue
  <2>2. Queued'  BY <1>1, <1>2, <1>5 DEF Queued, queue
  <2> QED BY <1>4, <2>1, <2>2
<1>6. CASE /\ settled < Len(asked) /\ Consume(stream[1]) /\ err' \in BOOLEAN
           /\ UNCHANGED <<asked, result, settled, derailed>>
  <2>1. source' \in Seq(SUBSET Nat) /\ Len(source') = Len(source)
    BY <1>1, <1>2, <1>6, ConsumeFacts
  <2>2. QueueOK'  BY <1>1, <1>6, <2>1 DEF QueueOK
  <2>3. Queued'  BY <1>1, <1>2, <1>6 DEF Queued
  <2> QED BY <1>4, <1>6, <2>2, <2>3
<1>7. ASSUME NEW r \in {"ok", "error", "confused"}, settled < Len(asked), Shift(r),
             \/ Consume(stream[1]) /\ derailed' = derailed
             \/ UNCHANGED source /\ derailed' = TRUE,
             r = "confused" => derailed'
      PROVE  Basics'
  <2>1. source' \in Seq(SUBSET Nat) /\ Len(source') = Len(source)
    <3>1. CASE Consume(stream[1])  BY <1>1, <1>2, <1>7, <3>1, ConsumeFacts
    <3>2. CASE UNCHANGED source  BY <1>1, <3>2 DEF QueueOK
    <3> QED BY <1>7, <3>1, <3>2
  <2>2. derailed' \in BOOLEAN  BY <1>1, <1>7 DEF QueueOK
  <2>3. r \in Results  BY DEF Results
  <2>4. /\ QueueOK' /\ asked' = asked /\ settled' = settled + 1
        /\ \A k \in 1..Len(asked) : result'[k] = IF k = settled + 1 THEN r ELSE result[k]
    BY <1>1, <1>7, <2>1, <2>2, <2>3, ShiftFacts
  <2>5. Queued'
    <3>1. tcp' = tcp /\ link' = link  BY <1>2
    <3>2. link # "fatal"  BY <1>1, <1>3, <1>7 DEF Queued
    <3>3. tcp = "up"  BY <1>1, <1>3, <1>7 DEF Queued
    <3>4. ASSUME NEW k \in 1..Len(asked)
          PROVE  (result'[k] = "wait" <=> k > settled') /\ (~derailed' => result'[k] # "confused")
      <4>1. CASE k = settled + 1  BY <1>3, <1>7, <2>4, <4>1
      <4>2. CASE k # settled + 1
        <5>1. (k > settled <=> k > settled + 1) /\ result'[k] = result[k]
          BY <1>3, <2>4, <4>2
        <5>2. ~derailed' => ~derailed  BY <1>7
        <5> QED BY <1>1, <2>4, <5>1, <5>2 DEF Queued
      <4> QED BY <4>1, <4>2
    <3> QED BY <2>4, <3>1, <3>2, <3>3, <3>4 DEF Queued
  <2> QED BY <1>4, <2>4, <2>5
<1>8. err \in BOOLEAN  BY <1>1 DEF QueueOK
<1>9. \/ UNCHANGED queue
      \/ /\ settled < Len(asked) /\ Consume(stream[1]) /\ err' = (IF stream[1].tag = "E" THEN TRUE ELSE err)
         /\ UNCHANGED <<asked, result, settled, derailed>>
      \/ \E r \in {"ok", "error", "confused"} :
            /\ settled < Len(asked) /\ Shift(r)
            /\ \/ Consume(stream[1]) /\ derailed' = derailed
               \/ UNCHANGED source /\ derailed' = TRUE
            /\ r = "confused" => derailed'
  BY <1>1, DispatchFacts
<1> QED BY <1>5, <1>6, <1>7, <1>8, <1>9

LEMMA ReadyFacts ==
  ASSUME Basics, Ready
  PROVE  tcp = "up" /\ asked # <<>>
<1>1. result \in Seq(Results) /\ Len(result) = Len(asked)  BY DEF Basics, TypeOK, QueueOK
<1>2. Len(result) \in Nat /\ Len(result) # 0  BY <1>1, EmptySeq, LenProperties DEF Ready
<1>3. asked # <<>>  BY <1>1, <1>2, LengthFacts DEF Basics
<1> QED BY <1>3 DEF Basics, Queued

Places == {"idle", "sent", "begin", "body", "commit", "rollback", "done", "failed"}

LEMMA SayBasics ==
  ASSUME Basics, MayCall, NEW c \in Caller, NEW kind \in Kind, NEW where \in Places, Say(c, kind, where)
  PROVE  Basics'
<1>1. tcp = "up" /\ asked # <<>>  BY ReadyFacts DEF MayCall
<1>2. UNCHANGED <<tcp, link, auth, wire, server>>  BY DEF Say
<1>3. pc' \in [Caller -> Places] /\ at' \in [Caller -> Nat]
  BY LengthFacts DEF Say, Basics, TypeOK, Places
<1>4. QueueOK' /\ WireOK' /\ ServerOK' /\ Queued' /\ LoggedIn'
  <2>1. CASE link = "open"
    <3>1. Ask(c, kind)  BY <2>1 DEF Say
    <3> QED BY <1>1, <1>2, <2>1, <3>1, AskBasics
  <2>2. CASE link # "open"
    <3>1. UNCHANGED queue  BY <2>2 DEF Say
    <3>2. QueueOK'  BY <3>1 DEF Basics, TypeOK, QueueOK, queue
    <3>3. WireOK' /\ ServerOK'
      BY <3>1, <1>2 DEF Basics, TypeOK, WireOK, ServerOK, queue, auth, wire, server
    <3>4. Queued' /\ LoggedIn'
      BY <3>1, <1>2 DEF Basics, Queued, LoggedIn, queue, server
    <3> QED BY <3>2, <3>3, <3>4
  <2> QED BY <2>1, <2>2
<1> QED BY <1>2, <1>3, <1>4 DEF Basics, TypeOK, Places

\* What a call does in the server's transaction.
LEMMA EffectFacts ==
  ASSUME TypeOK, NEW k \in 1..Len(asked), NEW o \in Outcomes, Effect(k, o)
  PROVE  /\ tx' \in {"I", "T", "E"} /\ pend' \subseteq pend \cup {k}
         /\ durable' \subseteq durable \cup pend \cup {k}
BY DEF TypeOK, ServerOK, Effect

LEMMA ServerBasics ==
  ASSUME Basics, UNCHANGED <<tcp, link, queue, auth, callers>>, WireOK', ServerOK', LoggedIn'
  PROVE  Basics'
<1>1. QueueOK'  BY DEF Basics, TypeOK, QueueOK, queue
<1>2. Queued'  BY DEF Basics, Queued, queue
<1> QED BY <1>1, <1>2 DEF Basics, TypeOK, callers

LEMMA LoginBasics ==
  ASSUME Basics, NEW step \in LoginSteps, Login(step)
  PROVE  Basics'
<1>1. /\ step[1] \in {"start", "asked", "challenged"} /\ step[4] \in Seq(Tag)
      /\ step[3] \in {"asked", "challenged", "done", "gone"}
  BY LoginTags
<1>2. /\ asked # <<>> /\ login = step[1] /\ login' = step[3] /\ Write(step[4], 1)
      /\ outcome' = CASE step[3] = "done" -> <<"ok">> [] step[3] = "gone" -> <<"error">> [] OTHER -> outcome
      /\ UNCHANGED <<tcp, link, queue, auth, tx, pend, durable, callers>>
  BY DEF Login
<1>3. outcome = <<>> /\ WireOK /\ ServerOK  BY <1>1, <1>2 DEF Basics, LoggedIn, TypeOK
<1>4. WireOK'  BY <1>1, <1>2, <1>3, WriteFacts
<1>5. \/ step[3] = "done" /\ outcome' = <<"ok">>
      \/ step[3] = "gone" /\ outcome' = <<"error">>
      \/ step[3] \in {"asked", "challenged"} /\ outcome' = <<>>
  BY <1>1, <1>2, <1>3
<1>6. /\ outcome' \in Seq(Outcomes) /\ Len(outcome') <= 1
      /\ login' = "done" => Len(outcome') = 1 /\ outcome'[1] = "ok"
      /\ login' \in {"start", "asked", "challenged"} => outcome' = <<>>
  <2>1. \A o \in Outcomes : <<o>> \in Seq(Outcomes) /\ Len(<<o>>) = 1 /\ <<o>>[1] = o  OBVIOUS
  <2>2. <<>> \in Seq(Outcomes) /\ Len(<<>>) = 0  OBVIOUS
  <2>3. "ok" \in Outcomes /\ "error" \in Outcomes  BY DEF Outcomes
  <2>4. CASE step[3] = "done" /\ outcome' = <<"ok">>  BY <1>2, <2>1, <2>3, <2>4
  <2>5. CASE step[3] = "gone" /\ outcome' = <<"error">>  BY <1>2, <2>1, <2>3, <2>5
  <2>6. CASE step[3] \in {"asked", "challenged"} /\ outcome' = <<>>
    <3>1. outcome' \in Seq(Outcomes) /\ Len(outcome') = 0  BY <2>2, <2>6
    <3>2. login' # "done"  BY <1>2, <2>6
    <3> QED BY <2>6, <3>1, <3>2
  <2> QED BY <1>5, <2>4, <2>5, <2>6
<1>7. asked' = asked /\ Len(asked) >= 1 /\ pend' = {} /\ durable' = {} /\ tx' = tx
  <2>1. pend = {} /\ durable = {}  BY <1>3 DEF ServerOK
  <2>2. Len(asked) \in Nat /\ Len(asked) # 0  BY <1>2, LengthFacts DEF Basics
  <2> QED BY <1>2, <2>1, <2>2 DEF queue
<1>8. ServerOK'
  <2>1. Len(outcome') \in Nat  BY <1>6, LenProperties
  <2> QED BY <1>1, <1>2, <1>3, <1>6, <1>7, <2>1 DEF ServerOK
<1>9. LoggedIn'
  <2>1. Len(outcome') \in Nat  BY <1>6, LenProperties
  <2> QED BY <1>2, <1>6, <1>7, <2>1 DEF Basics, LoggedIn
<1> QED BY <1>2, <1>4, <1>8, <1>9, ServerBasics

LEMMA RunFacts ==
  ASSUME Basics, NEW o \in Outcomes, NEW a \in Answers(o), Run(o, a)
  PROVE  /\ Len(outcome) + 1 \in 1..Len(asked) /\ login = "done" /\ login' = "done"
         /\ Effect(Len(outcome) + 1, o) /\ Write(a, Len(outcome) + 1)
         /\ outcome' \in Seq(Outcomes) /\ Len(outcome') = Len(outcome) + 1
         /\ outcome'[Len(outcome) + 1] = o
         /\ \A k \in 1..Len(outcome) : outcome'[k] = outcome[k]
         /\ UNCHANGED <<tcp, link, queue, auth, login, callers>>
<1>1. Len(outcome) \in Nat /\ Len(asked) \in Nat /\ outcome \in Seq(Outcomes)
  BY LengthFacts DEF Basics, TypeOK, ServerOK
<1>2. outcome' = Append(outcome, o)  BY DEF Run
<1>3. /\ outcome' \in Seq(Outcomes) /\ Len(outcome') = Len(outcome) + 1
      /\ outcome'[Len(outcome) + 1] = o /\ \A k \in 1..Len(outcome) : outcome'[k] = outcome[k]
  BY <1>1, <1>2, AppendProperties
<1> QED BY <1>1, <1>3 DEF Run

LEMMA RunBasics ==
  ASSUME Basics, NEW o \in Outcomes, NEW a \in Answers(o), Run(o, a)
  PROVE  Basics'
<1> DEFINE k == Len(outcome) + 1
<1>1. /\ k \in 1..Len(asked) /\ login = "done" /\ login' = "done"
      /\ Effect(k, o) /\ Write(a, k) /\ outcome' \in Seq(Outcomes) /\ Len(outcome') = k
      /\ \A i \in 1..Len(outcome) : outcome'[i] = outcome[i]
      /\ UNCHANGED <<tcp, link, queue, auth, login, callers>>
  BY RunFacts
<1>2. Len(outcome) \in Nat /\ Len(asked) \in Nat  BY LengthFacts DEF Basics
<1>3. a \in Seq(Tag) /\ k \in Nat  BY AnswerTags, <1>2
<1>4. WireOK'  BY <1>1, <1>3, WriteFacts DEF Basics, TypeOK
<1>5. /\ tx' \in {"I", "T", "E"} /\ pend' \subseteq pend \cup {k}
      /\ durable' \subseteq durable \cup pend \cup {k}
  BY <1>1, EffectFacts DEF Basics
<1>6. ServerOK'
  <2>1. pend \subseteq 1..Len(outcome) /\ durable \subseteq 1..Len(outcome)
    BY DEF Basics, TypeOK, ServerOK
  <2>2. pend' \subseteq 1..k /\ durable' \subseteq 1..k  BY <1>2, <1>5, <2>1
  <2>3. Len(outcome') <= Len(asked')  BY <1>1, <1>2 DEF queue
  <2> QED BY <1>1, <1>5, <2>2, <2>3 DEF ServerOK
<1>7. LoggedIn'
  <2>1. Len(outcome) >= 1 /\ outcome[1] = "ok"  BY <1>1 DEF Basics, LoggedIn
  <2>2. outcome'[1] = "ok"  BY <1>1, <1>2, <2>1
  <2> QED BY <1>1, <1>2, <2>2 DEF Basics, LoggedIn, queue
<1> QED BY <1>1, <1>4, <1>6, <1>7, ServerBasics

LEMMA ServerCloseFacts ==
  ASSUME Basics, ServerCloses
  PROVE  /\ tcp = "up" /\ sock = "up" /\ sock' = "down" /\ login' = "gone" /\ pend' = {} /\ WireOK'
         /\ \/ login = "done" /\ stream' = stream \o Msgs(<<"E">>, Len(outcome) + 1)
            \/ UNCHANGED stream
         /\ UNCHANGED <<tcp, link, queue, auth, outcome, durable, callers>>
<1>1. <<"E">> \in Seq(Tag) /\ Len(outcome) + 1 \in Nat /\ WireOK
  BY LengthFacts DEF Basics, TypeOK, Tag
<1>2. stream \in Seq(Message) /\ Len(stream) \in Nat /\ got \in 0..Len(stream)
  BY <1>1, LenProperties DEF WireOK
<1>3. \/ login = "done" /\ stream' = stream \o Msgs(<<"E">>, Len(outcome) + 1)
      \/ UNCHANGED stream
  BY DEF ServerCloses
<1>4. stream' \in Seq(Message) /\ Len(stream') >= Len(stream) /\ Len(stream') \in Nat
  <2>1. CASE stream' = stream \o Msgs(<<"E">>, Len(outcome) + 1)
    <3>1. /\ stream' \in Seq(Message) /\ Len(stream') = Len(stream) + Len(<<"E">>)
          /\ Len(<<"E">>) = 1
      BY <1>1, <1>2, <2>1, Written
    <3> QED BY <1>2, <3>1
  <2>2. CASE UNCHANGED stream  BY <1>2, <2>2
  <2> QED BY <1>3, <2>1, <2>2
<1>5. got' \in 0..Len(stream')  BY <1>2, <1>4 DEF ServerCloses
<1>6. WireOK'  BY <1>1, <1>4, <1>5 DEF WireOK, ServerCloses, auth
<1> QED BY <1>3, <1>6 DEF ServerCloses

LEMMA ConnLostFacts ==
  ASSUME Basics, ConnLost
  PROVE  /\ tcp = "up" /\ sock' = "down" /\ WireOK' /\ Len(stream') <= Len(stream)
         /\ \A i \in 1..Len(stream') : stream'[i] = stream[i]
         /\ UNCHANGED <<tcp, link, queue, auth, server, callers>>
<1>1. stream \in Seq(Message) /\ Len(stream) \in Nat /\ got \in 0..Len(stream) /\ WireOK
  BY LenProperties DEF Basics, TypeOK, WireOK
<1>2. PICK n \in got..Len(stream) : stream' = SubSeq(stream, 1, n)  BY DEF ConnLost
<1>3. /\ stream' \in Seq(Message) /\ Len(stream') = n
      /\ \A i \in 1..n : stream'[i] = stream[i]
  BY <1>1, <1>2, SubSeqProperties
<1>4. got' \in 0..Len(stream')  BY <1>1, <1>3 DEF ConnLost
<1>5. WireOK'  BY <1>1, <1>3, <1>4 DEF WireOK, ConnLost, auth
<1> QED BY <1>1, <1>3, <1>5 DEF ConnLost

\* What a step does, with the places of the callers, the sockets and the timers that lead to
\* it left out.
LEMMA StepKinds ==
  ASSUME Basics, Next
  PROVE  \/ Connected \/ ConnectFails \/ Chunk \/ Dispatch \/ EndClient
         \/ Fatal /\ tcp = "up" /\ UNCHANGED <<tcp, auth, wire, server, callers>>
         \/ MayCall /\ \E c \in Caller, kind \in Kind \ {"startup"}, where \in Places : Say(c, kind, where)
         \/ \E c \in Txs, how \in {"done", "failed"} : Stop(c, how)
         \/ \E step \in LoginSteps : Login(step)
         \/ \E o \in Outcomes : \E a \in Answers(o) : Run(o, a)
         \/ ServerCloses \/ ConnLost \/ SessionEnds
<1>1. ASSUME NEW k \in 1..Len(asked), Timeout(k)
      PROVE  Fatal /\ tcp = "up" /\ UNCHANGED <<tcp, auth, wire, server, callers>>
  <2>1. Len(asked) # 0  BY <1>1, LengthFacts DEF Basics
  <2>2. tcp = "up"  BY <2>1, LengthFacts DEF Basics, Queued
  <2> QED BY <1>1, <2>2 DEF Timeout
<1>2. ASSUME SocketClosed
      PROVE  Fatal /\ tcp = "up" /\ UNCHANGED <<tcp, auth, wire, server, callers>>
  BY <1>2 DEF SocketClosed
<1>3. ASSUME NEW c \in Plain, Exec(c)
      PROVE  MayCall /\ \E d \in Caller, kind \in Kind \ {"startup"}, where \in Places : Say(d, kind, where)
  BY <1>3 DEF Exec, Caller, Kind, Places
<1>4. ASSUME NEW c \in Txs, Begin(c) \/ Body(c) \/ Commit(c) \/ Rollback(c)
      PROVE  MayCall /\ \E d \in Caller, kind \in Kind \ {"startup"}, where \in Places : Say(d, kind, where)
  BY <1>4 DEF Begin, Body, Commit, Rollback, After, Caller, Kind, Places
<1>5. ASSUME NEW c \in Txs, BeginFailed(c) \/ Committed(c) \/ RolledBack(c)
      PROVE  \E d \in Txs, how \in {"done", "failed"} : Stop(d, how)
  BY <1>5 DEF BeginFailed, Committed, RolledBack
<1> QED BY <1>1, <1>2, <1>3, <1>4, <1>5 DEF Next, Outcomes

LEMMA BasicsInit == Init => Basics
<1> SUFFICES ASSUME Init PROVE Basics
  OBVIOUS
<1>1. QueueOK
  <2>1. /\ <<>> \in Seq(Call) /\ <<>> \in Seq(Results) /\ <<>> \in Seq(SUBSET Nat) /\ Len(<<>>) = 0
    BY EmptySeq
  <2>2. 0 \in 0..0 /\ FALSE \in BOOLEAN  OBVIOUS
  <2> QED BY <2>1, <2>2 DEF Init, QueueOK
<1>2. WireOK  BY DEF Init, WireOK
<1>3. ServerOK  BY DEF Init, ServerOK
<1>4. Queued /\ LoggedIn  BY DEF Init, Queued, LoggedIn
<1> QED BY <1>1, <1>2, <1>3, <1>4 DEF Init, Basics, TypeOK

LEMMA BasicsNext ==
  ASSUME Basics, [Next]_vars
  PROVE  Basics'
<1>1. CASE Connected
  <2>1. tcp = "connecting" /\ asked = <<>> /\ link = "open"
    BY <1>1 DEF Connected, Basics, Queued
  <2>2. QueueOK' /\ WireOK' /\ ServerOK' /\ Queued' /\ LoggedIn'
    BY <1>1, <2>1, AskBasics DEF Connected, Kind
  <2> QED BY <1>1, <2>2 DEF Connected, Basics, TypeOK, callers
<1>2. CASE ConnectFails
  <2>1. QueueOK' /\ ServerOK'  BY <1>2 DEF ConnectFails, Basics, TypeOK, QueueOK, ServerOK, queue, server
  <2>2. WireOK'  BY <1>2 DEF ConnectFails, Basics, TypeOK, WireOK, auth
  <2>3. Queued' /\ LoggedIn'  BY <1>2 DEF ConnectFails, Basics, Queued, LoggedIn, queue, server
  <2> QED BY <1>2, <2>1, <2>2, <2>3 DEF ConnectFails, Basics, TypeOK, callers
<1>3. CASE Chunk
  <2>1. WireOK'
    <3>1. WireOK /\ got' \in 0..Len(stream)  BY <1>3, LengthFacts DEF Chunk, Basics, TypeOK
    <3> QED BY <1>3, <3>1 DEF Chunk, WireOK, auth
  <2>2. ServerOK' /\ LoggedIn'
    BY <1>3 DEF Chunk, Basics, TypeOK, ServerOK, LoggedIn, queue, server
  <2> QED BY <1>3, <2>1, <2>2, ServerBasics DEF Chunk
<1>4. CASE Dispatch
  BY <1>4, DispatchBasics
<1>5. CASE EndClient
  <2>1. tcp = "up"  BY <1>5, ReadyFacts DEF EndClient
  <2>2. QueueOK' /\ ServerOK'  BY <1>5 DEF EndClient, Basics, TypeOK, QueueOK, ServerOK, queue, server
  <2>3. WireOK'  BY <1>5 DEF EndClient, Basics, TypeOK, WireOK, auth, wire
  <2>4. Queued' /\ LoggedIn'  BY <1>5, <2>1 DEF EndClient, Basics, Queued, LoggedIn, queue, server
  <2> QED BY <1>5, <2>2, <2>3, <2>4 DEF EndClient, Basics, TypeOK, callers
<1>6. CASE Fatal /\ tcp = "up" /\ UNCHANGED <<tcp, auth, wire, server, callers>>
  BY <1>6, FatalBasics
<1>7. CASE MayCall /\ \E c \in Caller, kind \in Kind \ {"startup"}, where \in Places : Say(c, kind, where)
  BY <1>7, SayBasics
<1>8. CASE \E c \in Txs, how \in {"done", "failed"} : Stop(c, how)
  <2>1. PICK c \in Txs, how \in {"done", "failed"} : Stop(c, how)  BY <1>8
  <2>2. QueueOK' /\ ServerOK'  BY <2>1 DEF Stop, Basics, TypeOK, QueueOK, ServerOK, queue, server
  <2>3. WireOK'  BY <2>1 DEF Stop, Basics, TypeOK, WireOK, auth, wire
  <2>4. Queued' /\ LoggedIn'  BY <2>1 DEF Stop, Basics, Queued, LoggedIn, queue, server
  <2> QED BY <2>1, <2>2, <2>3, <2>4 DEF Stop, Basics, TypeOK
<1>9. CASE \E step \in LoginSteps : Login(step)
  BY <1>9, LoginBasics
<1>10. CASE \E o \in Outcomes : \E a \in Answers(o) : Run(o, a)
  BY <1>10, RunBasics
<1>11. CASE ServerCloses
  <2>1. /\ tcp = "up" /\ sock = "up" /\ sock' = "down" /\ login' = "gone" /\ pend' = {} /\ WireOK'
        /\ UNCHANGED <<tcp, link, queue, auth, outcome, durable, callers>>
    BY <1>11, ServerCloseFacts
  <2>2. tx' = "I"  BY <1>11 DEF ServerCloses
  <2>3. ServerOK' /\ LoggedIn'  BY <2>1, <2>2 DEF Basics, TypeOK, ServerOK, LoggedIn, queue
  <2> QED BY <2>1, <2>3, ServerBasics
<1>12. CASE ConnLost
  <2>1. /\ WireOK' /\ UNCHANGED <<tcp, link, queue, auth, server, callers>>
    BY <1>12, ConnLostFacts
  <2>2. ServerOK' /\ LoggedIn'  BY <2>1 DEF Basics, TypeOK, ServerOK, LoggedIn, queue, server
  <2> QED BY <2>1, <2>2, ServerBasics
<1>13. CASE SessionEnds
  <2>1. WireOK'  BY <1>13 DEF SessionEnds, Basics, TypeOK, WireOK, auth, wire
  <2>2. ServerOK' /\ LoggedIn'
    BY <1>13 DEF SessionEnds, Basics, TypeOK, ServerOK, LoggedIn, queue
  <2> QED BY <1>13, <2>1, <2>2, ServerBasics DEF SessionEnds
<1>14. CASE UNCHANGED vars
  <2>1. UNCHANGED <<tcp, link, queue, auth, callers, wire, server>>  BY <1>14 DEF vars
  <2>2. WireOK' /\ ServerOK' /\ LoggedIn'
    BY <2>1 DEF Basics, TypeOK, WireOK, ServerOK, LoggedIn, queue, auth, wire, server
  <2> QED BY <2>1, <2>2, ServerBasics
<1> QED BY <1>1, <1>2, <1>3, <1>4, <1>5, <1>6, <1>7, <1>8, <1>9, <1>10, <1>11, <1>12, <1>13, <1>14,
           StepKinds

THEOREM TypeCorrect == Spec => []TypeOK
<1>1. Spec => []Basics  BY BasicsInit, BasicsNext, PTL DEF Spec
<1>2. Basics => TypeOK  BY DEF Basics
<1> QED BY <1>1, <1>2, PTL

-------------------------------------------------------------------------------
(***************************************************************************)
(* The stream stays aligned with the queue.                                *)
(***************************************************************************)
\* What the server writes about its next call ends with at most one Z, and an E, which
\* tells the outcome, is followed by it.
Answering(tags, k) ==
  /\ tags \in Seq(Tag) /\ Len(tags) > 0 /\ k = Len(outcome) + 1
  /\ stream' = stream \o Msgs(tags, k) /\ settled' = settled /\ err' = err
  /\ Len(outcome') \in Nat /\ Len(outcome') >= Len(outcome)
  /\ \A i \in 1..Len(outcome) : outcome'[i] = outcome[i]
  /\ \A i \in 1..Len(tags) : tags[i] = "Z" =>
       /\ i = Len(tags) /\ Len(outcome') = k
       /\ outcome'[k] = "error" <=> (i > 1 /\ tags[i - 1] = "E")
  /\ \A i \in 1..Len(tags) : tags[i] = "E" =>
       /\ i < Len(tags) => tags[i + 1] = "Z"
       /\ k = 1 => i = Len(tags) /\ Len(outcome') >= 1 /\ outcome'[1] = "error"

LEMMA Extended ==
  ASSUME Basics, InOrder, TellsOutcome, UpToDate, sock = "up", NEW tags, NEW k,
         login \in {"start", "asked", "challenged", "done"}, Answering(tags, k)
  PROVE  InOrder' /\ TellsOutcome'
<1> DEFINE n == Len(stream)
           t == Len(tags)
<1>1. /\ n \in Nat /\ Len(outcome) \in Nat /\ settled \in Nat /\ t \in Nat /\ t > 0 /\ k >= 1
      /\ k \in Nat /\ k = Len(outcome) + 1 /\ (stream = <<>> <=> n = 0)
  BY LengthFacts, LenProperties DEF Basics, Answering
<1>2. stream \in Seq(Message)  BY DEF Basics, TypeOK, WireOK
<1>3. /\ Len(stream') = n + t /\ \A i \in 1..n : stream'[i] = stream[i]
      /\ \A i \in 1..t : stream'[n + i].tag = tags[i] /\ stream'[n + i].of = k
  BY <1>1, <1>2, Written DEF Answering
<1>4. ASSUME NEW j \in 1..Len(stream')
      PROVE  \/ j \in 1..n /\ stream'[j] = stream[j]
             \/ \E i \in 1..t : j = n + i /\ stream'[j].tag = tags[i] /\ stream'[j].of = k
  <2>1. CASE j <= n  BY <1>1, <1>3, <2>1
  <2>2. CASE j > n
    <3>1. j - n \in 1..t /\ j = n + (j - n)  BY <1>1, <1>3, <2>2
    <3> QED BY <1>3, <3>1
  <2> QED BY <1>1, <1>3, <2>1, <2>2
<1>5. \A i \in 1..n : stream[i].of \in Nat
  <2>1. \A i \in 1..n : stream[i] \in Message  BY <1>2, ElementOfSeq
  <2> QED BY <2>1 DEF Message
<1>6. n > 0 => /\ stream[n].of + (IF Ends(stream[n]) THEN 1 ELSE 0) = k
               /\ stream[n].tag # "E"
  <2>1. CASE login = "done"
    <3>1. outcome[1] = "ok"  BY <2>1 DEF Basics, LoggedIn
    <3>2. n > 0 => stream[n].of = Len(outcome) /\ Ends(stream[n])
      BY <1>1, <2>1 DEF UpToDate
    <3>3. n > 0 /\ stream[n].tag = "E" => stream[n].of # 1
      BY <1>1, <3>1 DEF TellsOutcome
    <3> QED BY <1>1, <3>2, <3>3 DEF Ends
  <2>2. CASE login # "done"
    <3>1. outcome = <<>> /\ Len(outcome) = 0  BY <2>2, LengthFacts DEF Basics, LoggedIn
    <3>2. n > 0 => stream[n].of = 1 /\ stream[n].tag \notin {"Z", "E"}
      BY <1>1, <2>2 DEF UpToDate
    <3> QED BY <1>1, <3>1, <3>2 DEF Ends
  <2> QED BY <2>1, <2>2
<1>7. n = 0 => settled + 1 = k /\ ~err
  <2>1. CASE login = "done"  BY <1>1, <2>1 DEF UpToDate
  <2>2. CASE login # "done"
    <3>1. outcome = <<>> /\ Len(outcome) = 0  BY <2>2, LengthFacts DEF Basics, LoggedIn
    <3> QED BY <1>1, <3>1 DEF InOrder
  <2> QED BY <2>1, <2>2
<1>8. \A i \in 1..t : i < t => tags[i] # "Z" /\ (tags[i] = "E" => k # 1)
  BY <1>1 DEF Answering
<1>0. /\ settled' = settled /\ err' = err
      /\ Len(outcome') \in Nat /\ Len(outcome') >= Len(outcome)
      /\ \A i \in 1..Len(outcome) : outcome'[i] = outcome[i]
      /\ \A i \in 1..t : tags[i] = "Z" =>
           /\ i = t /\ Len(outcome') = k
           /\ outcome'[k] = "error" <=> (i > 1 /\ tags[i - 1] = "E")
      /\ \A i \in 1..t : tags[i] = "E" =>
           /\ i < t => tags[i + 1] = "Z"
           /\ k = 1 => i = t /\ Len(outcome') >= 1 /\ outcome'[1] = "error"
  BY DEF Answering
<1> HIDE DEF n, t
<1>9. InOrder'
  <2>1. settled' <= Len(outcome') /\ (settled' = 0 => ~err')  BY <1>0, <1>1 DEF InOrder
  <2>2. stream'[1].of = settled' + 1
    <3>1. CASE n = 0
      <4>1. 1 \in 1..t /\ n + 1 = 1  BY <1>1, <3>1
      <4> QED BY <1>0, <1>3, <1>7, <3>1, <4>1
    <3>2. CASE n > 0
      <4>1. 1 \in 1..n /\ stream # <<>>  BY <1>1, <3>2
      <4> QED BY <1>0, <1>3, <4>1 DEF InOrder
    <3> QED BY <1>1, <3>1, <3>2
  <2>3. ASSUME NEW i \in 1..(Len(stream') - 1)
        PROVE  stream'[i + 1].of = stream'[i].of + (IF Ends(stream'[i]) THEN 1 ELSE 0)
    <3>1. CASE i < n
      <4>1. i \in 1..n /\ i + 1 \in 1..n /\ i \in 1..(n - 1)  BY <1>1, <3>1
      <4>2. stream'[i] = stream[i] /\ stream'[i + 1] = stream[i + 1]  BY <1>3, <4>1
      <4>3. stream[i + 1].of = stream[i].of + (IF Ends(stream[i]) THEN 1 ELSE 0)
        BY <4>1 DEF InOrder, n
      <4> QED BY <4>2, <4>3 DEF Ends
    <3>2. CASE i = n
      <4>1. 1 \in 1..t /\ i \in 1..n /\ n > 0  BY <1>1, <3>2
      <4>2. stream'[i] = stream[n] /\ stream'[i + 1].of = k  BY <1>3, <3>2, <4>1
      <4> QED BY <1>6, <4>1, <4>2 DEF Ends
    <3>3. CASE i > n
      <4>1. i - n \in 1..t /\ i - n < t /\ i - n + 1 \in 1..t /\ n + (i - n) = i /\ n + (i - n + 1) = i + 1
        BY <1>1, <1>3, <3>3
      <4>2. stream'[i].of = k /\ stream'[i + 1].of = k /\ stream'[i].tag = tags[i - n]
        BY <1>3, <4>1
      <4>3. ~Ends(stream'[i])  BY <1>8, <4>1, <4>2 DEF Ends
      <4> QED BY <1>1, <4>2, <4>3
    <3> QED BY <1>1, <1>3, <3>1, <3>2, <3>3
  <2> QED BY <2>1, <2>2, <2>3 DEF InOrder, Ends
<1>10. TellsOutcome'
  <2>1. ASSUME NEW j \in 1..Len(stream'), stream'[j].tag = "Z"
        PROVE  /\ stream'[j].of \in 1..Len(outcome')
               /\ outcome'[stream'[j].of] = "error" <=> IF j = 1 THEN err' ELSE stream'[j - 1].tag = "E"
    <3>1. CASE j \in 1..n /\ stream'[j] = stream[j]
      <4>1. /\ stream[j].of \in 1..Len(outcome)
            /\ outcome[stream[j].of] = "error" <=> IF j = 1 THEN err ELSE stream[j - 1].tag = "E"
        BY <2>1, <3>1 DEF TellsOutcome, n
      <4>2. j # 1 => stream'[j - 1] = stream[j - 1]
        <5>1. j # 1 => j - 1 \in 1..n  BY <1>1, <3>1
        <5> QED BY <1>3, <5>1
      <4> QED BY <1>0, <1>1, <3>1, <4>1, <4>2
    <3>2. ASSUME NEW i \in 1..t, j = n + i, stream'[j].tag = tags[i], stream'[j].of = k
          PROVE  /\ stream'[j].of \in 1..Len(outcome')
                 /\ outcome'[stream'[j].of] = "error" <=> IF j = 1 THEN err' ELSE stream'[j - 1].tag = "E"
      <4>1. tags[i] = "Z"  BY <2>1, <3>2
      <4>2. Len(outcome') = k /\ (outcome'[k] = "error" <=> (i > 1 /\ tags[i - 1] = "E"))
        BY <1>0, <4>1
      <4>3. CASE i > 1
        <5>1. i - 1 \in 1..t /\ j - 1 = n + (i - 1) /\ j # 1  BY <1>1, <3>2, <4>3
        <5>2. stream'[j - 1].tag = tags[i - 1]  BY <1>3, <5>1
        <5> QED BY <1>1, <3>2, <4>2, <4>3, <5>1, <5>2
      <4>4. CASE i = 1
        <5>1. CASE n = 0  BY <1>0, <1>1, <1>7, <3>2, <4>2, <4>4, <5>1
        <5>2. CASE n > 0
          <6>1. j # 1 /\ j - 1 = n /\ n \in 1..n  BY <1>1, <3>2, <4>4, <5>2
          <6>2. stream'[j - 1].tag # "E"  BY <1>3, <1>6, <5>2, <6>1
          <6> QED BY <1>1, <3>2, <4>2, <4>4, <6>1, <6>2
        <5> QED BY <1>1, <5>1, <5>2
      <4> QED BY <1>1, <4>3, <4>4
    <3> QED BY <1>4, <3>1, <3>2
  <2>2. ASSUME NEW j \in 1..Len(stream'), stream'[j].tag = "E"
        PROVE  /\ j < Len(stream') => stream'[j + 1].tag = "Z"
               /\ stream'[j].of = 1 => Len(outcome') >= 1 /\ outcome'[1] = "error"
    <3>1. CASE j \in 1..n /\ stream'[j] = stream[j]
      <4>1. /\ j < n => stream[j + 1].tag = "Z"
            /\ stream[j].of = 1 => Len(outcome) >= 1 /\ outcome[1] = "error"
        BY <2>2, <3>1 DEF TellsOutcome, n
      <4>2. j # n  BY <1>6, <2>2, <3>1
      <4>3. j < n /\ j + 1 \in 1..n  BY <1>1, <3>1, <4>2
      <4>4. stream'[j + 1] = stream[j + 1]  BY <1>3, <4>3
      <4> QED BY <1>0, <1>1, <3>1, <4>1, <4>3, <4>4
    <3>2. ASSUME NEW i \in 1..t, j = n + i, stream'[j].tag = tags[i], stream'[j].of = k
          PROVE  /\ j < Len(stream') => stream'[j + 1].tag = "Z"
                 /\ stream'[j].of = 1 => Len(outcome') >= 1 /\ outcome'[1] = "error"
      <4>1. tags[i] = "E"  BY <2>2, <3>2
      <4>2. ASSUME j < Len(stream') PROVE stream'[j + 1].tag = "Z"
        <5>1. i < t /\ i + 1 \in 1..t /\ j + 1 = n + (i + 1)  BY <1>1, <1>3, <3>2, <4>2
        <5>2. tags[i + 1] = "Z"  BY <1>0, <4>1, <5>1
        <5> QED BY <1>3, <5>1, <5>2
      <4>3. k = 1 => Len(outcome') >= 1 /\ outcome'[1] = "error"  BY <1>0, <4>1
      <4> QED BY <3>2, <4>2, <4>3
    <3> QED BY <1>4, <3>1, <3>2
  <2>3. err' => stream' = <<>> \/ stream'[1].tag = "Z"
    <3>1. CASE n = 0  BY <1>0, <1>7, <3>1
    <3>2. CASE n > 0
      <4>1. 1 \in 1..n /\ stream # <<>>  BY <1>1, <3>2
      <4> QED BY <1>0, <1>3, <4>1 DEF TellsOutcome
    <3> QED BY <1>1, <3>1, <3>2
  <2> QED BY <2>1, <2>2, <2>3 DEF TellsOutcome
<1> QED BY <1>9, <1>10

\* The client takes the message at the head.
LEMMA Taken ==
  ASSUME Basics, Dispatch, ~derailed', InOrder, TellsOutcome, NEW m, m = stream[1]
  PROVE  /\ settled' + 1 = m.of + (IF Ends(m) THEN 1 ELSE 0) /\ settled' <= Len(outcome)
         /\ (Ends(m) \/ settled' = 0) => ~err'
         /\ Len(stream) > 1 /\ stream[2].tag = "Z" => (err' <=> m.tag = "E")
         /\ err' => Len(stream) = 1 \/ stream[2].tag = "Z"
<1>1. /\ Len(asked) \in Nat /\ Len(outcome) \in Nat /\ Len(stream) \in Nat
      /\ settled \in Nat /\ settled <= Len(asked) /\ Len(outcome) <= Len(asked)
      /\ (stream = <<>> <=> Len(stream) = 0)
  BY LengthFacts DEF Basics
<1>2. Len(stream) > 0 /\ m \in Message /\ m.of = settled + 1
  BY DispatchFacts DEF Basics, InOrder
<1>3. /\ m.tag = "Z" => m.of \in 1..Len(outcome)
      /\ m.tag = "E" => /\ Len(stream) > 1 => stream[2].tag = "Z"
                        /\ m.of = 1 => Len(outcome) >= 1 /\ outcome[1] = "error"
      /\ err => m.tag = "Z"
      /\ Len(stream) > 1 /\ stream[2].tag = "Z" => stream[2].of \in 1..Len(outcome)
  BY <1>1, <1>2 DEF TellsOutcome
<1>4. settled <= Len(outcome) /\ (settled = 0 => ~err)
      /\ (Len(stream) > 1 => stream[2].of = m.of + (IF Ends(m) THEN 1 ELSE 0))
  BY <1>1 DEF InOrder
<1>5. err \in BOOLEAN  BY DEF Basics, TypeOK, QueueOK
<1>6. CASE UNCHANGED queue /\ (settled = Len(asked) \/ m.tag \notin {"Z", "E"})
  <2>1. settled' = settled /\ err' = err  BY <1>6 DEF queue
  <2>3. m.tag # "Z"  BY <1>1, <1>2, <1>3, <1>6
  <2>5. ASSUME m.tag = "E" PROVE ~Ends(m)
    <3>1. m.of = Len(asked) + 1 /\ Len(asked) >= Len(outcome)  BY <1>1, <1>2, <1>6, <2>5
    <3>2. SUFFICES ASSUME m.of = 1 PROVE FALSE  BY <2>3 DEF Ends
    <3>3. Len(outcome) >= 1  BY <1>3, <2>5, <3>2
    <3> QED BY <1>1, <3>1, <3>2, <3>3
  <2>2. ~Ends(m)  BY <2>3, <2>5 DEF Ends
  <2>4. m.tag = "E" => ~(Len(stream) > 1 /\ stream[2].tag = "Z")
    BY <1>1, <1>2, <1>3, <1>4, <1>6, <2>2
  <2> QED BY <1>1, <1>2, <1>3, <1>4, <2>1, <2>2, <2>3, <2>4
<1>7. CASE /\ 0 < settled /\ m.tag \in {"D", "E"} /\ err' = (IF m.tag = "E" THEN TRUE ELSE err)
           /\ settled' = settled
  <2>1. ~Ends(m)  BY <1>1, <1>2, <1>7 DEF Ends
  <2>2. ~err  BY <1>3, <1>7
  <2>3. CASE m.tag = "E"
    <3>1. err' = TRUE /\ settled' # 0 /\ settled' = settled  BY <1>1, <1>7, <2>3
    <3>2. settled' + 1 = m.of + (IF Ends(m) THEN 1 ELSE 0) /\ settled' <= Len(outcome)
      BY <1>1, <1>2, <1>4, <2>1, <3>1
    <3>3. Len(stream) > 1 => stream[2].tag = "Z"  BY <1>3, <2>3
    <3>5. Len(stream) = 1 \/ Len(stream) > 1
      <4>1. \A n \in Nat : n > 0 => n = 1 \/ n > 1  OBVIOUS
      <4>2. Len(stream) \in Nat  BY <1>1
      <4>3. Len(stream) > 0  BY <1>2
      <4> QED BY <4>1, <4>2, <4>3
    <3>4. Len(stream) = 1 \/ stream[2].tag = "Z"  BY <3>3, <3>5
    <3> QED BY <2>1, <2>3, <3>1, <3>2, <3>4
  <2>4. CASE m.tag = "D"  BY <1>1, <1>2, <1>3, <1>4, <1>7, <2>1, <2>2, <2>4
  <2> QED BY <1>7, <2>3, <2>4
<1>8. CASE m.tag = "Z" /\ settled' = settled + 1 /\ ~err'
  <2>1. Ends(m)  BY <1>8 DEF Ends
  <2> QED BY <1>1, <1>2, <1>3, <1>8, <2>1
<1>9. CASE settled = 0 /\ m.tag = "E" /\ settled' = settled + 1 /\ ~err'
  <2>1. Ends(m) /\ m.of = 1  BY <1>2, <1>9 DEF Ends
  <2>2. ~(Len(stream) > 1 /\ stream[2].tag = "Z")
    <3>1. SUFFICES ASSUME Len(stream) > 1, stream[2].tag = "Z" PROVE FALSE
      OBVIOUS
    <3>2. Len(outcome) > 1  BY <1>1, <1>3, <1>4, <2>1, <3>1
    <3>3. outcome[1] = "ok"  BY <3>2 DEF Basics, LoggedIn
    <3> QED BY <1>3, <1>9, <2>1, <3>3
  <2>3. settled' = 1 /\ 1 <= Len(outcome)  BY <1>3, <1>9, <2>1
  <2> QED BY <1>1, <1>2, <1>9, <2>1, <2>2, <2>3
<1>10. \/ UNCHANGED queue /\ (settled = Len(asked) \/ m.tag \notin {"Z", "E"})
       \/ /\ 0 < settled /\ m.tag \in {"D", "E"} /\ err' = (IF m.tag = "E" THEN TRUE ELSE err)
          /\ settled' = settled
       \/ m.tag = "Z" /\ settled' = settled + 1 /\ ~err'
       \/ settled = 0 /\ m.tag = "E" /\ settled' = settled + 1 /\ ~err'
  BY DispatchFacts DEF Basics, Shift
<1> QED BY <1>6, <1>7, <1>8, <1>9, <1>10

LEMMA DispatchAligned ==
  ASSUME Basics, Dispatch, ~derailed', InOrder, TellsOutcome, UpToDate
  PROVE  InOrder' /\ TellsOutcome' /\ UpToDate'
<1> DEFINE m == stream[1]
<1>1. /\ Len(stream) > 0 /\ Len(stream') = Len(stream) - 1 /\ Len(stream) \in Nat
      /\ \A i \in 1..Len(stream') : stream'[i] = stream[i + 1]
      /\ stream' \in Seq(Message) /\ UNCHANGED <<outcome, login, sock>>
  BY DispatchFacts, LengthFacts DEF Basics, WireOK, server
<1>2. /\ settled' + 1 = m.of + (IF Ends(m) THEN 1 ELSE 0) /\ settled' <= Len(outcome)
      /\ (Ends(m) \/ settled' = 0) => ~err'
      /\ Len(stream) > 1 /\ stream[2].tag = "Z" => (err' <=> m.tag = "E")
      /\ err' => Len(stream) = 1 \/ stream[2].tag = "Z"
  BY Taken
<1>3. (stream' = <<>> <=> Len(stream') = 0) /\ (stream = <<>> <=> Len(stream) = 0)
  BY <1>1, LengthFacts, EmptySeq DEF Basics
<1>4. InOrder'
  <2>1. stream' # <<>> => stream'[1].of = settled' + 1
    <3>1. stream' # <<>> => 1 \in 1..(Len(stream) - 1) /\ stream'[1] = stream[2]  BY <1>1, <1>3
    <3>2. stream' # <<>> => stream[2].of = m.of + (IF Ends(m) THEN 1 ELSE 0)
      BY <3>1 DEF InOrder
    <3> QED BY <1>2, <3>1, <3>2
  <2>2. ASSUME NEW i \in 1..(Len(stream') - 1)
        PROVE  stream'[i + 1].of = stream'[i].of + (IF Ends(stream'[i]) THEN 1 ELSE 0)
    <3>1. i + 1 \in 1..(Len(stream) - 1) /\ i \in 1..Len(stream') /\ i + 1 \in 1..Len(stream')  BY <1>1
    <3>2. stream'[i] = stream[i + 1] /\ stream'[i + 1] = stream[(i + 1) + 1]  BY <1>1, <3>1
    <3>3. stream[(i + 1) + 1].of = stream[i + 1].of + (IF Ends(stream[i + 1]) THEN 1 ELSE 0)
      BY <3>1 DEF InOrder
    <3> QED BY <3>2, <3>3 DEF Ends
  <2> QED BY <1>1, <1>2, <2>1, <2>2 DEF InOrder, Ends
<1>5. TellsOutcome'
  <2>1. ASSUME NEW i \in 1..Len(stream'), stream'[i].tag = "Z"
        PROVE  /\ stream'[i].of \in 1..Len(outcome)
               /\ outcome[stream'[i].of] = "error" <=> IF i = 1 THEN err' ELSE stream'[i - 1].tag = "E"
    <3>1. i + 1 \in 1..Len(stream) /\ i + 1 # 1 /\ (i + 1) - 1 = i /\ stream'[i] = stream[i + 1]  BY <1>1
    <3>2. /\ stream[i + 1].of \in 1..Len(outcome)
          /\ outcome[stream[i + 1].of] = "error" <=> stream[i].tag = "E"
      BY <2>1, <3>1 DEF TellsOutcome
    <3>3. CASE i = 1  BY <1>1, <1>2, <2>1, <3>1, <3>2, <3>3
    <3>4. CASE i # 1
      <4>1. i - 1 \in 1..Len(stream') /\ stream'[i - 1] = stream[i]  BY <1>1, <3>4
      <4> QED BY <3>1, <3>2, <3>4, <4>1
    <3> QED BY <3>3, <3>4
  <2>2. ASSUME NEW i \in 1..Len(stream'), stream'[i].tag = "E"
        PROVE  /\ i < Len(stream') => stream'[i + 1].tag = "Z"
               /\ stream'[i].of = 1 => Len(outcome) >= 1 /\ outcome[1] = "error"
    <3>1. i + 1 \in 1..Len(stream) /\ stream'[i] = stream[i + 1]  BY <1>1
    <3>2. i < Len(stream') => i + 1 < Len(stream) /\ stream'[i + 1] = stream[(i + 1) + 1]  BY <1>1
    <3> QED BY <2>2, <3>1, <3>2 DEF TellsOutcome
  <2>3. err' => stream' = <<>> \/ stream'[1].tag = "Z"  BY <1>1, <1>2, <1>3
  <2> QED BY <1>1, <2>1, <2>2, <2>3 DEF TellsOutcome
<1>6. UpToDate'
  <2>1. stream' # <<>> => stream'[Len(stream')] = stream[Len(stream)]  BY <1>1, <1>3
  <2>2. stream' = <<>> => Len(stream) = 1  BY <1>1, <1>3
  <2>3. stream # <<>>  BY <1>1, <1>3
  <2>4. m.of \in Nat /\ settled' \in Nat
    <3>1. m \in Message  BY DispatchFacts DEF Basics
    <3>2. TypeOK'  BY DispatchBasics DEF Basics
    <3>3. settled' \in 0..Len(asked')  BY <3>2 DEF TypeOK, QueueOK
    <3> QED BY <3>1, <3>3 DEF Message
  <2>5. ASSUME sock' = "up", login' = "done", stream' = <<>> PROVE settled' = Len(outcome') /\ ~err'
    <3>1. m.of = Len(outcome) /\ Ends(m)  BY <1>1, <2>2, <2>3, <2>5 DEF UpToDate
    <3> QED BY <1>1, <1>2, <2>4, <3>1
  <2> QED BY <1>1, <2>1, <2>3, <2>5 DEF UpToDate, Ends
<1> QED BY <1>4, <1>5, <1>6

LEMMA AlignedInit == Init => Aligned
BY DEF Init, Aligned, InOrder, TellsOutcome, UpToDate

LEMMA LoginAligned ==
  ASSUME Basics, NEW step \in LoginSteps, Login(step), InOrder, TellsOutcome, UpToDate
  PROVE  InOrder' /\ TellsOutcome' /\ UpToDate'
<1> DEFINE tags == step[4]
           t == Len(tags)
<1>1. /\ step[1] \in {"start", "asked", "challenged"} /\ tags \in Seq(Tag)
      /\ \/ step[3] \in {"asked", "challenged"} /\ t = 1 /\ tags[1] \notin {"Z", "E"}
         \/ /\ step[3] = "done" /\ (t = 2 \/ (t = 3 /\ tags[1] \notin {"Z", "E"}))
            /\ tags[t - 1] = "auth_ok" /\ tags[t] = "Z"
         \/ step[3] = "gone" /\ t = 1 /\ tags[1] = "E"
  BY LoginTags
<1>2. /\ login = step[1] /\ login' = step[3] /\ Write(tags, 1) /\ sock = "up"
      /\ outcome' = CASE step[3] = "done" -> <<"ok">> [] step[3] = "gone" -> <<"error">> [] OTHER -> outcome
      /\ UNCHANGED <<queue, auth>>
  BY DEF Login
<1>3. outcome = <<>> /\ Len(outcome) = 0  BY <1>1, <1>2, LengthFacts DEF Basics, LoggedIn
<1>4. stream' = stream \o Msgs(tags, 1) /\ sock' = sock
  BY <1>1, <1>2, WriteFacts DEF Basics, TypeOK
<1>5. \/ step[3] = "done" /\ outcome' = <<"ok">>
      \/ step[3] = "gone" /\ outcome' = <<"error">>
      \/ step[3] \in {"asked", "challenged"} /\ outcome' = <<>>
  BY <1>1, <1>2, <1>3
<1>6. /\ Len(outcome') \in Nat /\ t > 0
      /\ step[3] = "done" => Len(outcome') = 1 /\ outcome'[1] = "ok"
      /\ step[3] = "gone" => Len(outcome') = 1 /\ outcome'[1] = "error"
  <2>1. \A o \in Outcomes : Len(<<o>>) = 1 /\ <<o>>[1] = o  OBVIOUS
  <2>2. Len(<<>>) = 0 /\ "ok" \in Outcomes /\ "error" \in Outcomes  BY EmptySeq DEF Outcomes
  <2>6. t = 1 \/ t = 2 \/ t = 3  BY <1>1
  <2>7. t > 0  BY <2>6
  <2>3. CASE step[3] = "done" /\ outcome' = <<"ok">>
    <3>1. step[3] # "gone" /\ Len(outcome') = 1 /\ outcome'[1] = "ok"  BY <2>1, <2>2, <2>3
    <3> QED BY <2>3, <2>7, <3>1
  <2>4. CASE step[3] = "gone" /\ outcome' = <<"error">>  BY <1>1, <2>1, <2>2, <2>4
  <2>5. CASE step[3] \in {"asked", "challenged"} /\ outcome' = <<>>
    <3>1. Len(outcome') = 0 /\ step[3] # "done" /\ step[3] # "gone"  BY <2>2, <2>5
    <3> QED BY <1>1, <3>1
  <2> QED BY <1>5, <2>3, <2>4, <2>5
<1> HIDE DEF tags, t
<1>7. \A i \in 1..t : /\ tags[i] = "Z" => step[3] = "done" /\ i = t /\ ~(i > 1 /\ tags[i - 1] = "E")
                      /\ tags[i] = "E" => step[3] = "gone" /\ i = t
  BY <1>1
<1>8. Answering(tags, 1)
  <2>1. settled' = settled /\ err' = err  BY <1>2 DEF queue
  <2>2. tags \in Seq(Tag) /\ t > 0 /\ 1 = Len(outcome) + 1  BY <1>1, <1>3, <1>6
  <2>3. \A i \in 1..Len(outcome) : outcome'[i] = outcome[i]  BY <1>3
  <2>4. \A i \in 1..t : tags[i] = "Z" =>
          /\ i = t /\ Len(outcome') = 1
          /\ outcome'[1] = "error" <=> (i > 1 /\ tags[i - 1] = "E")
    BY <1>6, <1>7
  <2>5. \A i \in 1..t : tags[i] = "E" =>
          /\ i < t => tags[i + 1] = "Z"
          /\ 1 = 1 => i = t /\ Len(outcome') >= 1 /\ outcome'[1] = "error"
    BY <1>6, <1>7
  <2>6. Len(outcome') >= Len(outcome)  BY <1>3, <1>6
  <2> QED BY <1>4, <1>6, <2>1, <2>2, <2>3, <2>4, <2>5, <2>6 DEF Answering, t
<1>9. InOrder' /\ TellsOutcome'
  BY <1>1, <1>2, <1>3, <1>8, Extended
<1>10. UpToDate'
  <2>1. stream \in Seq(Message) /\ Len(stream) \in Nat  BY LengthFacts DEF Basics, TypeOK, WireOK
  <2>2. /\ Len(stream') = Len(stream) + t
        /\ stream'[Len(stream) + t].tag = tags[t] /\ stream'[Len(stream) + t].of = 1
    <3>1. t \in 1..t  BY <1>1
    <3> QED BY <1>1, <1>4, <2>1, <3>1, Written DEF t
  <2>3. stream' # <<>>
    <3>1. Len(stream') # 0  BY <1>1, <2>1, <2>2
    <3>2. Len(<<>>) = 0  BY EmptySeq
    <3> QED BY <3>1, <3>2
  <2> QED BY <1>1, <1>2, <1>6, <2>2, <2>3 DEF UpToDate, Ends
<1> QED BY <1>9, <1>10

LEMMA RunAligned ==
  ASSUME Basics, NEW o \in Outcomes, NEW a \in Answers(o), Run(o, a), InOrder, TellsOutcome, UpToDate
  PROVE  InOrder' /\ TellsOutcome' /\ UpToDate'
<1> DEFINE k == Len(outcome) + 1
           t == Len(a)
<1>1. /\ login = "done" /\ login' = "done" /\ Write(a, k)
      /\ Len(outcome') = k /\ outcome'[k] = o /\ \A i \in 1..Len(outcome) : outcome'[i] = outcome[i]
      /\ UNCHANGED <<queue, auth>>
  BY RunFacts
<1>2. Len(outcome) \in Nat /\ Len(outcome) >= 1 /\ outcome[1] = "ok"
  BY <1>1, LengthFacts DEF Basics, LoggedIn
<1>3. /\ a \in Seq(Tag)
      /\ \/ o = "error" /\ t = 2 /\ a[1] = "E" /\ a[2] = "Z"
         \/ o = "ok" /\ t = 3 /\ a[1] \notin {"Z", "E"} /\ a[2] = "C" /\ a[3] = "Z"
  BY AnswerTags
<1>4. sock' = sock /\ (sock = "up" => stream' = stream \o Msgs(a, k)) /\ (sock = "down" => stream' = stream)
  BY <1>1, <1>2, <1>3, WriteFacts DEF Basics, TypeOK
<1>5. sock \in {"up", "down"} /\ stream \in Seq(Message) /\ Len(stream) \in Nat
  BY LengthFacts DEF Basics, TypeOK, WireOK
<1>6. settled' = settled /\ err' = err  BY <1>1 DEF queue
<1>7. CASE sock = "up"
  <2>1. \A i \in 1..t : /\ a[i] = "Z" => i = t /\ (o = "error" <=> (i > 1 /\ a[i - 1] = "E"))
                        /\ a[i] = "E" => i < t /\ a[i + 1] = "Z"
    <3>1. CASE o = "error" /\ t = 2 /\ a[1] = "E" /\ a[2] = "Z"
      <4>1. \A i \in 1..2 : i = 1 \/ i = 2  OBVIOUS
      <4>2. \A i \in 1..t : i = 1 \/ i = 2  BY <3>1, <4>1
      <4> QED BY <3>1, <4>2
    <3>2. CASE o = "ok" /\ t = 3 /\ a[1] \notin {"Z", "E"} /\ a[2] = "C" /\ a[3] = "Z"
      <4>1. \A i \in 1..3 : i = 1 \/ i = 2 \/ i = 3  OBVIOUS
      <4>2. \A i \in 1..t : i = 1 \/ i = 2 \/ i = 3  BY <3>2, <4>1
      <4> QED BY <3>2, <4>2
    <3> QED BY <1>3, <3>1, <3>2
  <2>2. Answering(a, k)
    <3>1. t > 0 /\ k # 1 /\ Len(outcome') >= Len(outcome) /\ Len(outcome') \in Nat  BY <1>1, <1>2, <1>3
    <3>2. \A i \in 1..t : a[i] = "Z" =>
            i = t /\ Len(outcome') = k /\ (outcome'[k] = "error" <=> (i > 1 /\ a[i - 1] = "E"))
      BY <1>1, <2>1
    <3>3. \A i \in 1..t : a[i] = "E" => (i < t => a[i + 1] = "Z")
      BY <2>1
    <3> QED BY <1>1, <1>3, <1>4, <1>6, <1>7, <3>1, <3>2, <3>3 DEF Answering
  <2>3. InOrder' /\ TellsOutcome'
    BY <1>1, <1>7, <2>2, Extended
  <2>4. /\ Len(stream') = Len(stream) + t
        /\ stream'[Len(stream) + t].tag = a[t] /\ stream'[Len(stream) + t].of = k
    <3>1. t \in 1..Len(a) /\ k \in Nat  BY <1>2, <1>3
    <3>2. stream' = stream \o Msgs(a, k)  BY <1>4, <1>7
    <3>3. a \in Seq(Tag) /\ stream \in Seq(Message)  BY <1>3, <1>5
    <3> HIDE DEF t, k
    <3> QED BY <3>1, <3>2, <3>3, Written DEF t
  <2>5. stream' # <<>>
    <3>1. Len(stream') # 0  BY <1>3, <1>5, <2>4
    <3>2. Len(<<>>) = 0  BY EmptySeq
    <3> QED BY <3>1, <3>2
  <2>6. UpToDate'  BY <1>1, <1>3, <2>4, <2>5 DEF UpToDate, Ends
  <2> QED BY <2>3, <2>6
<1>8. CASE sock = "down"
  <2>1. stream' = stream  BY <1>4, <1>8
  <2>2. InOrder'  BY <1>1, <1>2, <1>6, <2>1, LengthFacts DEF InOrder, Ends, Basics
  <2>3. TellsOutcome'
    <3>1. ASSUME NEW i \in 1..Len(stream), stream[i].tag = "Z"
          PROVE  /\ stream[i].of \in 1..Len(outcome')
                 /\ outcome'[stream[i].of] = "error" <=> IF i = 1 THEN err ELSE stream[i - 1].tag = "E"
      <4>1. /\ stream[i].of \in 1..Len(outcome)
            /\ outcome[stream[i].of] = "error" <=> IF i = 1 THEN err ELSE stream[i - 1].tag = "E"
        BY <3>1 DEF TellsOutcome
      <4> QED BY <1>1, <1>2, <4>1
    <3>2. ASSUME NEW i \in 1..Len(stream), stream[i].tag = "E"
          PROVE  /\ i < Len(stream) => stream[i + 1].tag = "Z"
                 /\ stream[i].of = 1 => Len(outcome') >= 1 /\ outcome'[1] = "error"
      BY <1>1, <1>2, <3>2 DEF TellsOutcome
    <3>3. err => stream = <<>> \/ stream[1].tag = "Z"  BY DEF TellsOutcome
    <3> QED BY <1>6, <2>1, <3>1, <3>2, <3>3 DEF TellsOutcome
  <2>4. UpToDate'  BY <1>4, <1>8 DEF UpToDate
  <2> QED BY <2>2, <2>3, <2>4
<1> QED BY <1>5, <1>7, <1>8

LEMMA ServerClosesAligned ==
  ASSUME Basics, ServerCloses, InOrder, TellsOutcome, UpToDate
  PROVE  InOrder' /\ TellsOutcome' /\ UpToDate'
<1>1. /\ sock = "up" /\ sock' = "down" /\ UNCHANGED <<queue, outcome>>
      /\ \/ login = "done" /\ stream' = stream \o Msgs(<<"E">>, Len(outcome) + 1)
         \/ UNCHANGED stream
  BY ServerCloseFacts
<1>2. Len(outcome) \in Nat /\ settled' = settled /\ err' = err  BY <1>1, LengthFacts DEF Basics, queue
<1>3. CASE login = "done" /\ stream' = stream \o Msgs(<<"E">>, Len(outcome) + 1)
  <2>1. Len(outcome) >= 1  BY <1>3 DEF Basics, LoggedIn
  <2>2. "E" \in Tag  BY DEF Tag
  <2>3. <<"E">> \in Seq(Tag) /\ Len(<<"E">>) = 1 /\ <<"E">>[1] = "E"  BY <2>2
  <2>4. \A i \in 1..Len(<<"E">>) : i = 1  BY <2>3
  <2>5. Answering(<<"E">>, Len(outcome) + 1)
    <3>1. Len(outcome) + 1 # 1  BY <1>2, <2>1
    <3>2. \A i \in 1..Len(<<"E">>) : <<"E">>[i] # "Z" /\ ~(i < Len(<<"E">>))  BY <2>3, <2>4
    <3>3. /\ Len(outcome') \in Nat /\ Len(outcome') >= Len(outcome) /\ Len(<<"E">>) > 0
          /\ \A i \in 1..Len(outcome) : outcome'[i] = outcome[i]
      BY <1>1, <1>2, <2>3
    <3> QED BY <1>2, <1>3, <2>3, <3>1, <3>2, <3>3 DEF Answering
  <2>6. InOrder' /\ TellsOutcome'  BY <1>1, <1>3, <2>5, Extended
  <2> QED BY <1>1, <2>6 DEF UpToDate
<1>4. CASE UNCHANGED stream
  <2>1. InOrder'  BY <1>1, <1>2, <1>4 DEF InOrder, Ends
  <2>2. TellsOutcome'  BY <1>1, <1>2, <1>4 DEF TellsOutcome
  <2> QED BY <1>1, <2>1, <2>2 DEF UpToDate
<1> QED BY <1>1, <1>3, <1>4

LEMMA ConnLostAligned ==
  ASSUME Basics, ConnLost, InOrder, TellsOutcome, UpToDate
  PROVE  InOrder' /\ TellsOutcome' /\ UpToDate'
<1>1. /\ sock' = "down" /\ Len(stream') <= Len(stream) /\ Len(stream') \in Nat
      /\ \A i \in 1..Len(stream') : stream'[i] = stream[i]
      /\ (stream' = <<>> <=> Len(stream') = 0)
      /\ UNCHANGED <<outcome, settled, err>>
  BY ConnLostFacts, LenProperties, EmptySeq DEF WireOK, queue, server
<1>2. Len(stream) \in Nat /\ (stream = <<>> <=> Len(stream) = 0)  BY LengthFacts DEF Basics
<1>3. InOrder'
  <2>1. stream' # <<>> => stream'[1].of = settled + 1
    <3>1. stream' # <<>> => stream # <<>> /\ 1 \in 1..Len(stream')  BY <1>1, <1>2
    <3> QED BY <1>1, <3>1 DEF InOrder
  <2>2. ASSUME NEW i \in 1..(Len(stream') - 1)
        PROVE  stream'[i + 1].of = stream'[i].of + (IF Ends(stream'[i]) THEN 1 ELSE 0)
    <3>1. i \in 1..Len(stream') /\ i + 1 \in 1..Len(stream') /\ i \in 1..(Len(stream) - 1)  BY <1>1, <1>2
    <3>2. stream[i + 1].of = stream[i].of + (IF Ends(stream[i]) THEN 1 ELSE 0)  BY <3>1 DEF InOrder
    <3> QED BY <1>1, <3>1, <3>2 DEF Ends
  <2> QED BY <1>1, <2>1, <2>2 DEF InOrder, Ends
<1>4. TellsOutcome'
  <2>1. ASSUME NEW i \in 1..Len(stream'), stream'[i].tag = "Z"
        PROVE  /\ stream'[i].of \in 1..Len(outcome)
               /\ outcome[stream'[i].of] = "error" <=> IF i = 1 THEN err ELSE stream'[i - 1].tag = "E"
    <3>1. i \in 1..Len(stream) /\ stream'[i] = stream[i]  BY <1>1, <1>2
    <3>2. i # 1 => stream'[i - 1] = stream[i - 1]
      <4>1. i # 1 => i - 1 \in 1..Len(stream')  BY <1>1
      <4> QED BY <1>1, <4>1
    <3>3. /\ stream[i].of \in 1..Len(outcome)
          /\ outcome[stream[i].of] = "error" <=> IF i = 1 THEN err ELSE stream[i - 1].tag = "E"
      BY <2>1, <3>1 DEF TellsOutcome
    <3> QED BY <3>1, <3>2, <3>3
  <2>2. ASSUME NEW i \in 1..Len(stream'), stream'[i].tag = "E"
        PROVE  /\ i < Len(stream') => stream'[i + 1].tag = "Z"
               /\ stream'[i].of = 1 => Len(outcome) >= 1 /\ outcome[1] = "error"
    <3>1. i \in 1..Len(stream) /\ stream'[i] = stream[i]  BY <1>1, <1>2
    <3>2. i < Len(stream') => i < Len(stream) /\ stream'[i + 1] = stream[i + 1]  BY <1>1, <1>2
    <3> QED BY <2>2, <3>1, <3>2 DEF TellsOutcome
  <2>3. err => stream' = <<>> \/ stream'[1].tag = "Z"
    <3>1. stream' # <<>> => stream # <<>> /\ stream'[1] = stream[1]  BY <1>1, <1>2
    <3> QED BY <3>1 DEF TellsOutcome
  <2> QED BY <1>1, <2>1, <2>2, <2>3 DEF TellsOutcome
<1> QED BY <1>1, <1>3, <1>4 DEF UpToDate

LEMMA AlignedNext ==
  ASSUME Basics, Aligned, [Next]_vars
  PROVE  Aligned'
<1> SUFFICES ASSUME link' # "fatal", ~derailed' PROVE InOrder' /\ TellsOutcome' /\ UpToDate'
  BY DEF Aligned
<1>1. ASSUME UNCHANGED <<settled, err, stream, outcome>>, InOrder, TellsOutcome
      PROVE  InOrder' /\ TellsOutcome'
  <2>1. InOrder'  BY <1>1 DEF InOrder, Ends
  <2>2. TellsOutcome'  BY <1>1 DEF TellsOutcome
  <2> QED BY <2>1, <2>2
<1>2. ASSUME link # "fatal" /\ ~derailed, UNCHANGED <<settled, err, stream, outcome>>,
             sock' = "down" \/ UNCHANGED <<sock, login>>
      PROVE  InOrder' /\ TellsOutcome' /\ UpToDate'
  <2>1. InOrder' /\ TellsOutcome' /\ UpToDate  BY <1>1, <1>2 DEF Aligned
  <2>2. UpToDate'  BY <1>2, <2>1 DEF UpToDate, Ends
  <2> QED BY <2>1, <2>2
<1>3. CASE Connected
  <2>1. link # "fatal"  BY <1>3 DEF Connected
  <2> QED BY <1>2, <1>3, <2>1 DEF Connected, Ask, wire, server
<1>4. CASE ConnectFails
  BY <1>2, <1>4 DEF ConnectFails, queue, server
<1>5. CASE Chunk
  BY <1>2, <1>5 DEF Chunk, queue, server
<1>6. CASE Dispatch
  <2>1. link' = link /\ ~derailed
    <3>1. TypeOK  BY DEF Basics
    <3>2. link' = link  BY <1>6, <3>1, DispatchFacts
    <3>3. derailed' = derailed \/ derailed' = TRUE  BY <1>6, <3>1, DispatchFacts DEF queue
    <3> QED BY <3>2, <3>3
  <2> QED BY <1>6, <2>1, DispatchAligned DEF Aligned
<1>7. CASE EndClient
  BY <1>2, <1>7 DEF EndClient, queue, wire, server
<1>8. CASE Fatal
  BY <1>8 DEF Fatal
<1>9. CASE \E c \in Caller, kind \in Kind, where \in Places : Say(c, kind, where)
  <2>1. PICK c \in Caller, kind \in Kind, where \in Places : Say(c, kind, where)  BY <1>9
  <2>2. UNCHANGED <<settled, err, derailed>>
    <3>1. CASE link = "open"  BY <2>1, <3>1 DEF Say, Ask
    <3>2. CASE link # "open"  BY <2>1, <3>2 DEF Say, queue
    <3> QED BY <3>1, <3>2
  <2> QED BY <1>2, <2>1, <2>2 DEF Say, wire, server
<1>10. CASE \E c \in Txs, how \in {"done", "failed"} : Stop(c, how)
  BY <1>2, <1>10 DEF Stop, queue, wire, server
<1>11. CASE \E step \in LoginSteps : Login(step)
  BY <1>11, LoginAligned DEF Login, Aligned, queue
<1>12. CASE \E o \in Outcomes : \E a \in Answers(o) : Run(o, a)
  BY <1>12, RunAligned DEF Run, Aligned, queue
<1>13. CASE ServerCloses
  BY <1>13, ServerClosesAligned DEF ServerCloses, Aligned, queue
<1>14. CASE ConnLost
  BY <1>14, ConnLostAligned DEF ConnLost, Aligned, queue
<1>15. CASE SessionEnds
  BY <1>2, <1>15 DEF SessionEnds, queue, wire
<1>16. CASE UNCHANGED vars
  BY <1>2, <1>16 DEF vars, queue, wire, server
<1> QED BY <1>3, <1>4, <1>5, <1>6, <1>7, <1>8, <1>9, <1>10, <1>11, <1>12, <1>13, <1>14, <1>15, <1>16,
           StepKinds

-------------------------------------------------------------------------------
(***************************************************************************)
(* Every call is told its own outcome.                                     *)
(***************************************************************************)
\* A call is settled by a message only with the outcome it had at the server.
LEMMA ToldRightly ==
  ASSUME Basics, Aligned, Dispatch, ~derailed', NEW r \in Results, Shift(r), settled < Len(asked)
  PROVE  settled + 1 <= Len(outcome) /\ r = outcome[settled + 1] /\ Consume(stream[1])
<1>1. TypeOK /\ Queued /\ QueueOK  BY DEF Basics, TypeOK
<1>2. settled \in Nat /\ Len(asked) \in Nat /\ Len(stream) \in Nat /\ Len(outcome) \in Nat
  BY <1>1, LengthFacts
<1>3. link # "fatal" /\ ~derailed
  <2>1. link # "fatal"  BY <1>1, <1>2 DEF Queued
  <2>2. derailed' = derailed \/ derailed' = TRUE  BY <1>1, DispatchFacts DEF queue
  <2> QED BY <2>1, <2>2
<1>4. InOrder /\ TellsOutcome  BY <1>3 DEF Aligned
<1>5. stream # <<>> /\ Len(stream) > 0 /\ stream[1].of = settled + 1
  BY <1>1, <1>4, DispatchFacts DEF InOrder
<1>6. outcome \in Seq(Outcomes)  BY <1>1 DEF TypeOK, ServerOK
<1>7. settled' = settled + 1  BY DEF Shift
<1>8. settled' # settled /\ err' = FALSE  BY <1>2, <1>7 DEF Shift
<1>9. CASE /\ stream[1].tag = "Z" /\ Shift(IF settled > 0 /\ err THEN "error" ELSE "ok")
            /\ Consume(stream[1])
  <2>1. /\ settled + 1 \in 1..Len(outcome)
        /\ outcome[settled + 1] = "error" <=> err
    <3>1. 1 \in 1..Len(stream)  BY <1>2, <1>5
    <3>2. /\ stream[1].of \in 1..Len(outcome)
          /\ outcome[stream[1].of] = "error" <=> err
      BY <1>4, <1>9, <3>1 DEF TellsOutcome
    <3> QED BY <1>5, <3>2
  <2>2. outcome[settled + 1] \in Outcomes  BY <1>6, <2>1, ElementOfSeq
  <2>3. settled = 0 => ~err  BY <1>4 DEF InOrder
  <2>4. r = IF settled > 0 /\ err THEN "error" ELSE "ok"
    <3>1. DOMAIN result = 1..Len(asked) /\ settled + 1 \in DOMAIN result
      BY <1>1, <1>2, LenProperties DEF QueueOK
    <3>2. [result EXCEPT ![settled + 1] = r][settled + 1]
            = [result EXCEPT ![settled + 1] = IF settled > 0 /\ err THEN "error" ELSE "ok"][settled + 1]
      BY <1>9 DEF Shift
    <3> QED BY <3>1, <3>2
  <2> QED BY <1>2, <1>9, <2>1, <2>2, <2>3, <2>4 DEF Outcomes
<1>10. CASE settled = 0 /\ stream[1].tag = "E" /\ Shift("error") /\ Consume(stream[1])
  <2>1. Len(outcome) >= 1 /\ outcome[1] = "error"
    <3>1. 1 \in 1..Len(stream) /\ stream[1].of = 1  BY <1>2, <1>5, <1>10
    <3> QED BY <1>4, <1>10, <3>1 DEF TellsOutcome
  <2>2. r = "error"
    <3>1. DOMAIN result = 1..Len(asked) /\ settled + 1 \in DOMAIN result
      BY <1>1, <1>2, LenProperties DEF QueueOK
    <3>2. [result EXCEPT ![settled + 1] = r][settled + 1]
            = [result EXCEPT ![settled + 1] = "error"][settled + 1]
      BY <1>10 DEF Shift
    <3> QED BY <3>1, <3>2
  <2> QED BY <1>10, <2>1, <2>2
<1>11. \/ settled' = settled
       \/ /\ stream[1].tag = "Z" /\ Shift(IF settled > 0 /\ err THEN "error" ELSE "ok")
          /\ Consume(stream[1])
       \/ settled = 0 /\ stream[1].tag = "E" /\ Shift("error") /\ Consume(stream[1])
       \/ derailed' = TRUE
  BY <1>1, DispatchFacts DEF queue
<1> QED BY <1>8, <1>9, <1>10, <1>11

AnswersInv == Basics /\ Aligned /\ Owned

LEMMA OwnedNext ==
  ASSUME AnswersInv, [Next]_vars
  PROVE  Owned'
<1>1. Basics /\ TypeOK /\ Queued /\ QueueOK /\ Aligned /\ Owned  BY DEF AnswersInv, Basics, TypeOK
<1>2. /\ Len(asked) \in Nat /\ Len(outcome) \in Nat /\ settled \in Nat /\ settled <= Len(asked)
      /\ Len(outcome) <= Len(asked)
  BY <1>1, LengthFacts
<1>3. ASSUME UNCHANGED queue,
             \A k \in 1..Len(outcome) : outcome'[k] = outcome[k],
             Len(outcome') \in Nat, Len(outcome') >= Len(outcome)
      PROVE  Owned'
  <2>1. UNCHANGED <<asked, result, source, derailed>>  BY <1>3 DEF queue
  <2>2. ASSUME ~derailed, NEW k \in 1..Len(asked), result[k] \in Outcomes
        PROVE  k <= Len(outcome') /\ result[k] = outcome'[k]
    BY <1>1, <1>2, <1>3, <2>2 DEF Owned
  <2> QED BY <1>1, <2>1, <2>2 DEF Owned
<1>4. ASSUME UNCHANGED <<queue, outcome>> PROVE Owned'
  BY <1>2, <1>3, <1>4
<1>5. ASSUME NEW by \in Caller \cup {Opener}, NEW kind \in Kind, Ask(by, kind), UNCHANGED outcome
      PROVE  Owned'
  <2> HIDE DEF Kind
  <2>1. /\ Len(asked') = Len(asked) + 1
        /\ result'[Len(asked) + 1] = "wait" /\ source'[Len(asked) + 1] = {}
        /\ \A k \in 1..Len(asked) : result'[k] = result[k] /\ source'[k] = source[k]
    BY <1>1, <1>5, AskFacts
  <2>2. derailed' = derailed  BY <1>5 DEF Ask
  <2>3. ASSUME ~derailed, NEW k \in 1..Len(asked')
        PROVE  /\ source'[k] \subseteq {k}
               /\ result'[k] \in Outcomes => k <= Len(outcome) /\ result'[k] = outcome[k]
    <3>1. CASE k = Len(asked) + 1  BY <2>1, <3>1 DEF Outcomes
    <3>2. CASE k # Len(asked) + 1
      <4>1. k \in 1..Len(asked)  BY <1>2, <2>1, <3>2
      <4> QED BY <1>1, <2>1, <2>3, <4>1 DEF Owned
    <3> QED BY <3>1, <3>2
  <2> QED BY <1>5, <2>2, <2>3 DEF Owned
<1>6. CASE Connected
  BY <1>5, <1>6 DEF Connected, Kind, server
<1>7. CASE ConnectFails \/ Chunk \/ EndClient
  BY <1>4, <1>7 DEF ConnectFails, Chunk, EndClient, server
<1>8. CASE Dispatch
  <2>1. SUFFICES ASSUME ~derailed' PROVE Owned'  BY DEF Owned
  <2>2. stream[1] \in Message /\ outcome' = outcome  BY <1>1, <1>8, DispatchFacts DEF server
  <2>3. ASSUME settled < Len(asked), Consume(stream[1]), ~derailed
        PROVE  \A k \in 1..Len(asked) : source'[k] \subseteq {k}
    <3>1. link # "fatal"  BY <1>1, <1>2, <2>3 DEF Queued
    <3>2. stream[1].of = settled + 1  BY <1>1, <1>8, <2>3, <3>1, DispatchFacts DEF Aligned, InOrder
    <3>3. \A k \in 1..Len(asked) :
            source'[k] = IF k = settled + 1 THEN source[k] \cup {stream[1].of} ELSE source[k]
      BY <1>1, <2>2, <2>3, ConsumeFacts
    <3> QED BY <1>1, <2>3, <3>2, <3>3 DEF Owned
  <2>4. CASE UNCHANGED queue
    BY <1>4, <2>2, <2>4
  <2>5. CASE /\ settled < Len(asked) /\ Consume(stream[1])
             /\ UNCHANGED <<asked, result, settled, derailed>>
    BY <1>1, <2>1, <2>2, <2>3, <2>5 DEF Owned
  <2>6. ASSUME NEW r \in {"ok", "error"}, settled < Len(asked), Shift(r), Consume(stream[1]), UNCHANGED derailed
        PROVE  Owned'
    <3>1. ~derailed /\ r \in Results /\ derailed' \in BOOLEAN  BY <1>1, <2>1, <2>6 DEF Results, QueueOK
    <3>2. source' \in Seq(SUBSET Nat) /\ Len(source') = Len(source)
      BY <1>1, <2>2, <2>6, ConsumeFacts
    <3>3. /\ asked' = asked
          /\ \A k \in 1..Len(asked) : result'[k] = IF k = settled + 1 THEN r ELSE result[k]
      BY <1>1, <2>6, <3>1, <3>2, ShiftFacts
    <3>4. settled + 1 <= Len(outcome) /\ r = outcome[settled + 1]
      BY <1>1, <1>8, <2>1, <2>6, <3>1, ToldRightly
    <3>5. ASSUME NEW k \in 1..Len(asked), result'[k] \in Outcomes
          PROVE  k <= Len(outcome) /\ result'[k] = outcome[k]
      <4>1. CASE k = settled + 1  BY <3>3, <3>4, <4>1
      <4>2. CASE k # settled + 1  BY <1>1, <3>1, <3>3, <3>5, <4>2 DEF Owned
      <4> QED BY <4>1, <4>2
    <3>6. \A k \in 1..Len(asked) : source'[k] \subseteq {k}  BY <2>3, <2>6, <3>1
    <3> QED BY <2>2, <3>3, <3>5, <3>6 DEF Owned
  <2>7. \/ UNCHANGED queue
        \/ /\ settled < Len(asked) /\ Consume(stream[1])
           /\ UNCHANGED <<asked, result, settled, derailed>>
        \/ \E r \in {"ok", "error"} :
             settled < Len(asked) /\ Shift(r) /\ Consume(stream[1]) /\ UNCHANGED derailed
    BY <1>1, <1>8, <2>1, DispatchFacts
  <2> QED BY <2>4, <2>5, <2>6, <2>7
<1>9. CASE Fatal /\ tcp = "up" /\ UNCHANGED <<tcp, auth, wire, server, callers>>
  <2>1. /\ asked' = asked /\ source' = source /\ derailed' = derailed /\ outcome' = outcome
        /\ \A k \in 1..Len(asked) : result'[k] = IF result[k] = "wait" THEN "lost" ELSE result[k]
    BY <1>1, <1>9, FatalFacts DEF server
  <2>2. ASSUME NEW k \in 1..Len(asked), result'[k] \in Outcomes PROVE result'[k] = result[k]
    BY <2>1, <2>2 DEF Outcomes
  <2> QED BY <1>1, <2>1, <2>2 DEF Owned
<1>10. CASE \E c \in Caller, kind \in Kind, where \in Places : Say(c, kind, where)
  <2>1. PICK c \in Caller, kind \in Kind, where \in Places : Say(c, kind, where)  BY <1>10
  <2>2. outcome' = outcome  BY <2>1 DEF Say, server
  <2>3. CASE link = "open"  BY <1>5, <2>1, <2>2, <2>3 DEF Say
  <2>4. CASE link # "open"  BY <1>4, <2>1, <2>2, <2>4 DEF Say
  <2> QED BY <2>3, <2>4
<1>11. CASE \E c \in Txs, how \in {"done", "failed"} : Stop(c, how)
  BY <1>4, <1>11 DEF Stop, server
<1>12. CASE \E step \in LoginSteps : Login(step)
  <2>1. UNCHANGED queue  BY <1>12 DEF Login
  <2>2. outcome = <<>> /\ Len(outcome) = 0
    BY <1>1, <1>12, LoginTags, LengthFacts DEF Login, Basics, LoggedIn
  <2>3. Len(outcome') \in Nat
    <3>1. TypeOK'  BY <1>1, <1>12, LoginBasics DEF Basics
    <3> QED BY <3>1, LenProperties DEF TypeOK, ServerOK
  <2> QED BY <1>3, <2>1, <2>2, <2>3
<1>13. CASE \E o \in Outcomes : \E a \in Answers(o) : Run(o, a)
  <2>1. PICK o \in Outcomes : \E a \in Answers(o) : Run(o, a)  BY <1>13
  <2>2. /\ UNCHANGED queue /\ Len(outcome') = Len(outcome) + 1
        /\ \A k \in 1..Len(outcome) : outcome'[k] = outcome[k]
    BY <1>1, <2>1, RunFacts
  <2> QED BY <1>2, <1>3, <2>2
<1>14. CASE ServerCloses \/ ConnLost \/ SessionEnds \/ UNCHANGED vars
  BY <1>4, <1>14 DEF ServerCloses, ConnLost, SessionEnds, vars, server
<1> QED BY <1>1, <1>4, <1>6, <1>7, <1>8, <1>9, <1>10, <1>11, <1>12, <1>13, <1>14, StepKinds

LEMMA AnswersInvariant == Spec => []AnswersInv
<1>1. Init => AnswersInv
  <2>1. Init => Owned  BY EmptySeq DEF Init, Owned
  <2> QED BY <2>1, BasicsInit, AlignedInit DEF AnswersInv
<1>2. AnswersInv /\ [Next]_vars => AnswersInv'
  BY BasicsNext, AlignedNext, OwnedNext DEF AnswersInv
<1> QED BY <1>1, <1>2, PTL DEF Spec

\* The queue that matches answers to calls by position never gives a call another call's
\* message, and tells it what became of it at the server: until a message comes that the
\* client does not know, through pipelining, errors, timeouts, end() and a lost connection.
THEOREM AnswersGoHome == Spec => []AnswersAreOwn
<1>1. ASSUME AnswersInv PROVE AnswersAreOwn
  <2>1. settled \in Nat /\ Len(asked) \in Nat /\ settled <= Len(asked)
    BY <1>1, LengthFacts DEF AnswersInv, Basics
  <2> QED BY <1>1, <2>1 DEF AnswersInv, Owned, AnswersAreOwn, Outcomes
<1> QED BY <1>1, AnswersInvariant, PTL

-------------------------------------------------------------------------------
(***************************************************************************)
(* The client implements QueryService: every step is one of the service's  *)
(* or changes nothing the service has.                                     *)
(***************************************************************************)
LEMMA DispatchImplements ==
  ASSUME AnswersInv, Dispatch
  PROVE  Service!Next \/ UNCHANGED Service!service
<1>1. Basics /\ TypeOK /\ Queued /\ QueueOK /\ Aligned  BY DEF AnswersInv, Basics, TypeOK
<1>2. Len(asked) \in Nat /\ settled \in Nat /\ settled <= Len(asked)  BY <1>1, LengthFacts
<1>3. UNCHANGED <<link, outcome>>  BY <1>1, DispatchFacts DEF server
<1>4. DOMAIN result = 1..Len(asked)  BY <1>1, LenProperties DEF QueueOK
<1>5. settled < Len(asked) => settled + 1 \in DOMAIN result /\ Service!FirstWaiting(settled + 1)
  BY <1>1, <1>2, <1>4 DEF Queued, Service!FirstWaiting
<1>6. CASE UNCHANGED <<asked, result, derailed>>
  BY <1>3, <1>6 DEF Service!service
<1>7. ASSUME NEW r \in {"ok", "error"}, settled < Len(asked), Shift(r), UNCHANGED derailed
      PROVE  Service!Next
  <2>1. derailed \/ (settled + 1 <= Len(outcome) /\ r = outcome[settled + 1])
    BY <1>1, <1>7, ToldRightly DEF Results
  <2>2. Service!Tell(settled + 1, r)
    BY <1>3, <1>5, <1>7, <2>1 DEF Service!Tell, Shift
  <2> QED BY <1>5, <1>7, <2>2 DEF Service!Next, Service!Outcome
<1>8. CASE settled < Len(asked) /\ Shift("confused") /\ derailed' = TRUE
  <2>1. Service!Confuse(settled + 1)
    BY <1>3, <1>5, <1>8 DEF Service!Confuse, Shift
  <2> QED BY <1>5, <1>8, <2>1 DEF Service!Next
<1>9. \/ UNCHANGED <<asked, result, derailed>>
      \/ \E r \in {"ok", "error"} : settled < Len(asked) /\ Shift(r) /\ UNCHANGED derailed
      \/ settled < Len(asked) /\ Shift("confused") /\ derailed' = TRUE
  BY <1>1, DispatchFacts DEF queue
<1> QED BY <1>6, <1>7, <1>8, <1>9

LEMMA AskImplements ==
  ASSUME link = "open", NEW by \in Caller \cup {Opener}, NEW kind \in Kind, Ask(by, kind),
         UNCHANGED <<outcome, link>>
  PROVE  Service!Next
<1>1. Service!Ask(by, kind)  BY DEF Ask, Service!Ask
<1> QED BY <1>1 DEF Service!Next

LEMMA StepImplements ==
  ASSUME AnswersInv, [Next]_vars
  PROVE  [Service!Next]_(Service!service)
<1>1. Basics /\ TypeOK /\ Queued /\ QueueOK  BY DEF AnswersInv, Basics, TypeOK
<1>2. CASE Connected
  <2>1. link = "open"  BY <1>1, <1>2 DEF Connected, Queued
  <2> QED BY <1>2, <2>1, AskImplements DEF Connected, Kind, server
<1>3. CASE ConnectFails \/ Chunk \/ ServerCloses \/ ConnLost \/ SessionEnds \/ UNCHANGED vars
  BY <1>3 DEF ConnectFails, Chunk, ServerCloses, ConnLost, SessionEnds, vars, queue, server, Service!service
<1>4. CASE Dispatch
  BY <1>4, DispatchImplements
<1>5. CASE EndClient
  <2>1. Service!Close  BY <1>5 DEF EndClient, queue, server, Service!Close
  <2> QED BY <2>1 DEF Service!Next
<1>6. CASE Fatal /\ tcp = "up" /\ UNCHANGED <<tcp, auth, wire, server, callers>>
  <2>1. Len(asked) \in Nat /\ settled \in Nat /\ DOMAIN result = 1..Len(asked)
    BY <1>1, LengthFacts, LenProperties DEF QueueOK
  <2>2. \A k \in DOMAIN result : Waiting(k) <=> result[k] = "wait"
    BY <1>1, <2>1 DEF Queued, Waiting
  <2>3. Service!Break
    BY <1>6, <2>2 DEF Fatal, server, Service!Break
  <2> QED BY <2>3 DEF Service!Next
<1>7. CASE \E c \in Caller, kind \in Kind, where \in Places : Say(c, kind, where)
  <2>1. PICK c \in Caller, kind \in Kind, where \in Places : Say(c, kind, where)  BY <1>7
  <2>2. UNCHANGED <<outcome, link>>  BY <2>1 DEF Say, server
  <2>3. CASE link = "open"  BY <2>1, <2>2, <2>3, AskImplements DEF Say
  <2>4. CASE link # "open"  BY <2>1, <2>2, <2>4 DEF Say, queue, Service!service
  <2> QED BY <2>3, <2>4
<1>8. CASE \E c \in Txs, how \in {"done", "failed"} : Stop(c, how)
  BY <1>8 DEF Stop, queue, server, Service!service
<1>9. CASE \E step \in LoginSteps : Login(step)
  <2>1. PICK step \in LoginSteps : Login(step)  BY <1>9
  <2>2. /\ step[1] \in {"start", "asked", "challenged"} /\ step[3] \in {"asked", "challenged", "done", "gone"}
    BY LoginTags
  <2>3. /\ asked # <<>> /\ login = step[1] /\ UNCHANGED <<queue, link>>
        /\ outcome' = CASE step[3] = "done" -> <<"ok">> [] step[3] = "gone" -> <<"error">> [] OTHER -> outcome
    BY <2>1 DEF Login
  <2>4. outcome = <<>> /\ Len(outcome) < Len(asked)
    BY <1>1, <2>2, <2>3, LengthFacts DEF Basics, LoggedIn
  <2>5. outcome' = outcome \/ \E o \in Outcomes : outcome' = <<o>>  BY <2>2, <2>3 DEF Outcomes
  <2>6. ASSUME NEW o \in Outcomes, outcome' = <<o>> PROVE Service!Next
    <3>1. outcome' = Append(outcome, o)  BY <2>4, <2>6
    <3>2. Service!Run(o)  BY <2>3, <2>4, <3>1 DEF Service!Run, queue
    <3> QED BY <3>2 DEF Service!Next, Service!Outcome, Outcomes
  <2> QED BY <2>3, <2>5, <2>6 DEF queue, Service!service
<1>10. CASE \E o \in Outcomes : \E a \in Answers(o) : Run(o, a)
  <2>1. PICK o \in Outcomes : \E a \in Answers(o) : Run(o, a)  BY <1>10
  <2>2. Len(outcome) \in Nat /\ Len(asked) \in Nat  BY <1>1, LengthFacts
  <2>3. Service!Run(o)  BY <2>1, <2>2 DEF Run, Service!Run, queue
  <2> QED BY <2>3 DEF Service!Next, Service!Outcome, Outcomes
<1> QED BY <1>1, <1>2, <1>3, <1>4, <1>5, <1>6, <1>7, <1>8, <1>9, <1>10, StepKinds

\* To its callers the client is the service: calls are executed in the order they were made,
\* and each is told its own outcome, in that order, or that the connection was lost.
THEOREM ClientImplementsService == Spec => ImplementsService
<1>1. Init => Service!Init  BY DEF Init, Service!Init
<1>2. AnswersInv /\ [Next]_vars => [Service!Next]_(Service!service)
  BY StepImplements
<1> QED BY <1>1, <1>2, AnswersInvariant, PTL DEF Spec, ImplementsService, Service!Spec

-------------------------------------------------------------------------------
(***************************************************************************)
(* transaction() is atomic: what the transactions have asked.              *)
(***************************************************************************)
\* What a call was told stays so.
Told == \A k \in 1..Len(asked) : result[k] # "wait" => result'[k] = result[k]

LEMMA OwnAsked ==
  ASSUME QueueOK, NEW by \in Caller \cup {Opener}, NEW kind \in Kind, Ask(by, kind), NEW c, NEW kd
  PROVE  /\ Own(c, kd)' = IF by = c /\ kind = kd THEN Own(c, kd) \cup {Len(asked) + 1} ELSE Own(c, kd)
         /\ Own(c, kd) \subseteq 1..Len(asked)
<1> HIDE DEF Kind
<1>1. /\ Len(asked') = Len(asked) + 1 /\ asked'[Len(asked) + 1] = [by |-> by, kind |-> kind]
      /\ \A k \in 1..Len(asked) : asked'[k] = asked[k]
  BY AskFacts
<1>2. Len(asked) \in Nat  BY LenProperties DEF QueueOK
<1>3. 1..Len(asked') = 1..Len(asked) \cup {Len(asked) + 1}  BY <1>1, <1>2
<1>4. Own(c, kd)' = {k \in 1..Len(asked') : asked'[k].by = c /\ asked'[k].kind = kd}
  BY DEF Own
<1> QED BY <1>1, <1>2, <1>3, <1>4 DEF Own

LEMMA StepTold ==
  ASSUME Basics, [Next]_vars
  PROVE  Told /\ (derailed => derailed')
<1>1. TypeOK /\ QueueOK /\ Queued  BY DEF Basics, TypeOK
<1>2. Len(asked) \in Nat /\ settled \in Nat /\ settled <= Len(asked)  BY <1>1, LengthFacts
<1>3. ASSUME UNCHANGED <<result, derailed>> PROVE Told /\ (derailed => derailed')
  BY <1>3 DEF Told
<1>4. ASSUME NEW by \in Caller \cup {Opener}, NEW kind \in Kind, Ask(by, kind)
      PROVE  Told /\ (derailed => derailed')
  <2> HIDE DEF Kind
  <2>1. \A k \in 1..Len(asked) : result'[k] = result[k]  BY <1>1, <1>4, AskFacts
  <2> QED BY <1>4, <2>1 DEF Told, Ask
<1>5. CASE Dispatch
  <2>1. ASSUME NEW r, Shift(r), settled < Len(asked) PROVE Told
    <3>1. result' = [result EXCEPT ![settled + 1] = r]  BY <2>1 DEF Shift
    <3>2. \A k \in 1..Len(asked) : k # settled + 1 => result'[k] = result[k]
      BY <1>1, <3>1, LenProperties DEF QueueOK
    <3>3. result[settled + 1] = "wait"  BY <1>1, <1>2, <2>1 DEF Queued
    <3> QED BY <3>2, <3>3 DEF Told
  <2>2. \/ UNCHANGED <<result, derailed>>
        \/ /\ settled < Len(asked) /\ \E r : Shift(r)
           /\ derailed' = derailed \/ derailed' = TRUE
    BY <1>1, <1>5, DispatchFacts DEF queue
  <2> QED BY <1>3, <2>1, <2>2
<1>6. CASE Fatal /\ tcp = "up" /\ UNCHANGED <<tcp, auth, wire, server, callers>>
  <2>1. /\ derailed' = derailed
        /\ \A k \in 1..Len(asked) : result'[k] = IF result[k] = "wait" THEN "lost" ELSE result[k]
    BY <1>1, <1>6, FatalFacts
  <2> QED BY <2>1 DEF Told
<1>7. CASE \E c \in Caller, kind \in Kind, where \in Places : Say(c, kind, where)
  <2>1. PICK c \in Caller, kind \in Kind, where \in Places : Say(c, kind, where)  BY <1>7
  <2>2. CASE link = "open"  BY <1>4, <2>1, <2>2 DEF Say
  <2>3. CASE link # "open"  BY <1>3, <2>1, <2>3 DEF Say, queue
  <2> QED BY <2>2, <2>3
<1>8. CASE Connected
  BY <1>4, <1>8 DEF Connected, Kind
<1>9. CASE \/ ConnectFails \/ Chunk \/ EndClient \/ ServerCloses \/ ConnLost \/ SessionEnds
           \/ UNCHANGED vars
  BY <1>3, <1>9 DEF ConnectFails, Chunk, EndClient, ServerCloses, ConnLost, SessionEnds, vars, queue
<1>10. CASE \E c \in Txs, how \in {"done", "failed"} : Stop(c, how)
  BY <1>3, <1>10 DEF Stop, queue
<1>11. CASE \E step \in LoginSteps : Login(step)
  BY <1>3, <1>11 DEF Login, queue
<1>12. CASE \E o \in Outcomes : \E a \in Answers(o) : Run(o, a)
  BY <1>3, <1>12 DEF Run, queue
<1> QED BY <1>1, <1>5, <1>6, <1>7, <1>8, <1>9, <1>10, <1>11, <1>12, StepKinds

\* Nothing changes for a transaction that neither moves nor asks.
LEMMA OrderKept ==
  ASSUME NEW c \in Txs, Told, Order(c), \A kd \in Kind \ {"startup"} : Own(c, kd)' = Own(c, kd)
  PROVE  Order(c)'
<1>1. /\ Own(c, "begin")' = Own(c, "begin") /\ Own(c, "stmt")' = Own(c, "stmt")
      /\ Own(c, "commit")' = Own(c, "commit") /\ Own(c, "rollback")' = Own(c, "rollback")
  BY DEF Kind
<1>2. \A k \in Own(c, "begin") \cup Own(c, "stmt") : result[k] = "ok" => result'[k] = "ok"
  BY DEF Told, Own
<1> QED BY <1>1, <1>2 DEF Order

LEMMA PhaseKept ==
  ASSUME NEW c \in Txs, Told, Phase(c), \A kd \in Kind \ {"startup"} : Own(c, kd)' = Own(c, kd),
         pc'[c] = pc[c], at'[c] = at[c]
  PROVE  Phase(c)'
<1>1. /\ Own(c, "begin")' = Own(c, "begin") /\ Own(c, "stmt")' = Own(c, "stmt")
      /\ Own(c, "commit")' = Own(c, "commit") /\ Own(c, "rollback")' = Own(c, "rollback")
  BY DEF Kind
<1>2. \A k \in Own(c, "commit") : result[k] # "wait" => result'[k] = result[k]
  BY DEF Told, Own
<1> QED BY <1>1, <1>2 DEF Phase


\* A call of a transaction keeps its calls in order if it comes in its turn.
LEMMA OrderAsked ==
  ASSUME QueueOK, NEW c \in Txs, NEW kind \in Kind, Ask(c, kind), Told, Order(c),
         kind = "begin" => Own(c, "begin") = {},
         kind \in {"stmt", "commit"} => Own(c, "commit") \cup Own(c, "rollback") = {},
         kind = "stmt" => Own(c, "stmt") = {} /\ \E b \in Own(c, "begin") : result[b] = "ok",
         kind = "commit" => \A s \in Own(c, "stmt") : result[s] = "ok"
  PROVE  Order(c)'
<1> DEFINE n == Len(asked) + 1
           Mine(kd) == IF kind = kd THEN Own(c, kd) \cup {n} ELSE Own(c, kd)
<1>1. c \in Caller \cup {Opener}  BY DEF Caller
<1>2. /\ Own(c, "begin")' = Mine("begin") /\ Own(c, "stmt")' = Mine("stmt")
      /\ Own(c, "commit")' = Mine("commit") /\ Own(c, "rollback")' = Mine("rollback")
  <2> HIDE DEF Kind
  <2> QED BY <1>1, OwnAsked
<1>3. Len(asked) \in Nat  BY LenProperties DEF QueueOK
<1>4. \A kd : Own(c, kd) \subseteq 1..Len(asked)  BY DEF Own
<1>5. \A k \in 1..Len(asked) : k < n /\ k # n /\ k \in Nat  BY <1>3
<1>6. \A k \in Own(c, "begin") \cup Own(c, "stmt") : result[k] = "ok" => result'[k] = "ok"
  BY DEF Told, Own
<1> HIDE DEF n
<1>7. \A a, b \in Mine("begin") : a = b  BY DEF Order
<1>8. \A a, b \in Mine("stmt") : a = b  BY DEF Order
<1>9. \A s \in Mine("stmt") : \E b \in Mine("begin") : b < s /\ result'[b] = "ok"
  <2> SUFFICES ASSUME NEW s \in Mine("stmt") PROVE \E b \in Own(c, "begin") : b < s /\ result[b] = "ok"
    BY <1>6
  <2>1. CASE s \in Own(c, "stmt")  BY <2>1 DEF Order
  <2>2. CASE s = n /\ kind = "stmt"  BY <1>4, <1>5, <2>2
  <2> QED BY <2>1, <2>2
<1>10. \A m \in Mine("commit"), s \in Mine("stmt") : result'[s] = "ok"
  <2> SUFFICES ASSUME NEW m \in Mine("commit"), NEW s \in Mine("stmt")
               PROVE  s \in Own(c, "stmt") /\ result[s] = "ok"
    BY <1>6
  <2>1. CASE kind = "commit"  BY <2>1
  <2>2. CASE kind # "commit"  BY <2>2 DEF Order
  <2> QED BY <2>1, <2>2
<1>11. \A s \in Mine("stmt"), e \in Mine("commit") \cup Mine("rollback") : s < e
  <2> SUFFICES ASSUME NEW s \in Mine("stmt"), NEW e \in Mine("commit") \cup Mine("rollback")
               PROVE  s < e
    OBVIOUS
  <2>1. CASE kind = "stmt"  BY <2>1
  <2>2. CASE kind # "stmt"
    <3>1. s \in Own(c, "stmt") /\ s < n  BY <1>4, <1>5, <2>2
    <3> QED BY <3>1 DEF Order
  <2> QED BY <2>1, <2>2
<1>12. \A m \in Mine("commit"), e \in Mine("commit") \cup Mine("rollback") : m <= e
  <2> SUFFICES ASSUME NEW m \in Mine("commit"), NEW e \in Mine("commit") \cup Mine("rollback")
               PROVE  m <= e
    OBVIOUS
  <2>1. CASE kind = "commit"
    <3>1. m = n /\ e = n /\ n \in Nat  BY <1>3, <2>1 DEF n
    <3> QED BY <3>1
  <2>2. CASE kind # "commit"
    <3>1. m \in Own(c, "commit") /\ m <= n /\ m \in Nat  BY <1>4, <1>5, <1>3, <2>2 DEF n
    <3> QED BY <3>1 DEF Order
  <2> QED BY <2>1, <2>2
<1> HIDE DEF Mine
<1> QED BY <1>2, <1>7, <1>8, <1>9, <1>10, <1>11, <1>12 DEF Order

\* What a caller of transaction() may do next.
LEMMA SayFacts ==
  ASSUME Basics, NEW c \in Txs, NEW kind \in Kind, NEW where \in Places, Say(c, kind, where)
  PROVE  /\ Len(asked) \in Nat
         /\ \/ /\ Ask(c, kind) /\ pc'[c] = where /\ at'[c] = Len(asked) + 1
               /\ \A kd \in Kind : Own(c, kd)' = IF kind = kd THEN Own(c, kd) \cup {Len(asked) + 1}
                                                  ELSE Own(c, kd)
            \/ UNCHANGED queue /\ pc'[c] = "failed" /\ \A kd \in Kind : Own(c, kd)' = Own(c, kd)
<1> HIDE DEF Kind
<1>1. QueueOK /\ c \in Caller /\ pc \in [Caller -> Places] /\ at \in [Caller -> Nat]
  BY DEF Basics, TypeOK, Caller, Places
<1>2. Len(asked) \in Nat  BY LengthFacts DEF Basics
<1>3. CASE link = "open"
  BY <1>1, <1>2, <1>3, OwnAsked DEF Say
<1>4. CASE link # "open"
  BY <1>1, <1>2, <1>4 DEF Say, Own, queue
<1> QED BY <1>3, <1>4

LEMMA TxMoves ==
  ASSUME Basics, Told, NEW c \in Txs, Phase(c), Order(c),
         \/ Begin(c) \/ Body(c) \/ BeginFailed(c) \/ Commit(c) \/ Committed(c)
         \/ Rollback(c) \/ RolledBack(c)
  PROVE  Phase(c)' /\ Order(c)'
<1>1. /\ QueueOK /\ Queued /\ c \in Caller /\ pc \in [Caller -> Places] /\ at \in [Caller -> Nat]
  BY DEF Basics, TypeOK, Caller, Places
<1>2. Len(asked) \in Nat /\ settled \in Nat  BY LengthFacts DEF Basics
<1>3. /\ "begin" \in Kind /\ "stmt" \in Kind /\ "commit" \in Kind /\ "rollback" \in Kind
      /\ \A kd \in {"begin", "stmt", "commit", "rollback"} : Own(c, kd) \subseteq 1..Len(asked)
  BY DEF Kind, Own
<1>4. \A k \in Own(c, "commit") : ~Waiting(k) /\ result[k] # "ok" =>
        result[k] \notin {"wait", "ok"} /\ result'[k] \notin {"wait", "ok"}
  <2>1. \A k \in 1..Len(asked) : ~Waiting(k) => result[k] # "wait"
    BY <1>2, <1>1 DEF Queued, Waiting
  <2> QED BY <1>3, <2>1 DEF Told
<1>5. ASSUME UNCHANGED queue, pc'[c] = "failed", Own(c, "commit") = {} \/ pc[c] = "rollback"
                                                 \/ (pc[c] = "commit" /\ ~Waiting(at[c]) /\ ~Ok(c))
      PROVE  Phase(c)' /\ Order(c)'
  <2>1. \A kd \in Kind : Own(c, kd)' = Own(c, kd)  BY <1>5 DEF Own, queue
  <2>2. Own(c, "commit")' = Own(c, "commit")  BY <2>1, <1>3
  <2>3. \A m \in Own(c, "commit") : result[m] \notin {"wait", "ok"}
    <3>1. CASE Own(c, "commit") = {}  BY <3>1
    <3>2. CASE pc[c] = "rollback"  BY <3>2 DEF Phase
    <3>3. CASE pc[c] = "commit" /\ ~Waiting(at[c]) /\ ~Ok(c)
      <4>1. Own(c, "commit") = {at[c]}  BY <3>3 DEF Phase
      <4> QED BY <4>1, <3>3, <1>4 DEF Ok
    <3> QED BY <1>5, <3>1, <3>2, <3>3
  <2>4. result' = result  BY <1>5 DEF queue
  <2>5. Phase(c)'  BY <1>5, <2>2, <2>3, <2>4 DEF Phase
  <2> QED BY <2>1, <2>5, OrderKept
<1>6. CASE Begin(c)
  <2>1. pc[c] = "idle" /\ Say(c, "begin", "begin")  BY <1>6 DEF Begin
  <2>2. Own(c, "begin") = {} /\ Own(c, "stmt") = {} /\ Own(c, "commit") = {} /\ Own(c, "rollback") = {}
    BY <2>1 DEF Phase
  <2>3. CASE /\ Ask(c, "begin") /\ pc'[c] = "begin" /\ at'[c] = Len(asked) + 1
             /\ \A kd \in Kind : Own(c, kd)' = IF "begin" = kd THEN Own(c, kd) \cup {Len(asked) + 1}
                                                ELSE Own(c, kd)
    <3>1. Order(c)'  BY <1>1, <1>3, <2>2, <2>3, OrderAsked
    <3>2. /\ Own(c, "begin")' = {at'[c]} /\ Own(c, "stmt")' = {} /\ Own(c, "commit")' = {}
          /\ Own(c, "rollback")' = {}
      BY <1>3, <2>2, <2>3
    <3> QED BY <2>3, <3>1, <3>2 DEF Phase
  <2> QED BY <1>3, <1>5, <2>1, <2>2, <2>3, SayFacts DEF Places
<1>7. CASE Body(c)
  <2>1. pc[c] = "begin" /\ Ok(c) /\ Say(c, "stmt", "body")  BY <1>7 DEF Body, After
  <2>2. /\ at[c] \in Own(c, "begin") /\ result[at[c]] = "ok"
        /\ Own(c, "stmt") = {} /\ Own(c, "commit") = {} /\ Own(c, "rollback") = {}
    BY <2>1 DEF Phase, Ok
  <2>3. CASE /\ Ask(c, "stmt") /\ pc'[c] = "body" /\ at'[c] = Len(asked) + 1
             /\ \A kd \in Kind : Own(c, kd)' = IF "stmt" = kd THEN Own(c, kd) \cup {Len(asked) + 1}
                                                ELSE Own(c, kd)
    <3>1. Order(c)'  BY <1>1, <1>3, <2>2, <2>3, OrderAsked
    <3>2. Own(c, "stmt")' = {at'[c]} /\ Own(c, "commit")' = {} /\ Own(c, "rollback")' = {}
      BY <1>3, <2>2, <2>3
    <3> QED BY <2>3, <3>1, <3>2 DEF Phase
  <2> QED BY <1>3, <1>5, <2>1, <2>2, <2>3, SayFacts DEF Places
<1>8. CASE BeginFailed(c)
  <2>1. pc[c] = "begin" /\ Stop(c, "failed")  BY <1>8 DEF BeginFailed, After
  <2>2. Own(c, "commit") = {}  BY <2>1 DEF Phase
  <2> QED BY <1>1, <1>5, <2>1, <2>2 DEF Stop
<1>9. CASE Commit(c)
  <2>1. pc[c] = "body" /\ Ok(c) /\ Say(c, "commit", "commit")  BY <1>9 DEF Commit, After
  <2>2. /\ at[c] \in Own(c, "stmt") /\ result[at[c]] = "ok"
        /\ Own(c, "commit") = {} /\ Own(c, "rollback") = {}
    BY <2>1 DEF Phase, Ok
  <2>3. CASE /\ Ask(c, "commit") /\ pc'[c] = "commit" /\ at'[c] = Len(asked) + 1
             /\ \A kd \in Kind : Own(c, kd)' = IF "commit" = kd THEN Own(c, kd) \cup {Len(asked) + 1}
                                                ELSE Own(c, kd)
    <3>1. \A s \in Own(c, "stmt") : result[s] = "ok"  BY <2>2 DEF Order
    <3>2. Order(c)'  BY <1>1, <1>3, <2>2, <2>3, <3>1, OrderAsked
    <3>3. Own(c, "commit")' = {at'[c]}  BY <1>3, <2>2, <2>3
    <3> QED BY <2>3, <3>2, <3>3 DEF Phase
  <2> QED BY <1>3, <1>5, <2>1, <2>2, <2>3, SayFacts DEF Places
<1>10. CASE Committed(c)
  <2>1. pc[c] = "commit" /\ Ok(c) /\ Stop(c, "done")  BY <1>10 DEF Committed, After
  <2>2. UNCHANGED <<queue, at>> /\ pc'[c] = "done"  BY <1>1, <2>1 DEF Stop
  <2>3. Own(c, "commit") = {at[c]} /\ result[at[c]] = "ok"  BY <2>1 DEF Phase, Ok
  <2>4. \A kd \in Kind : Own(c, kd)' = Own(c, kd)  BY <2>2 DEF Own, queue
  <2>5. Own(c, "commit")' = {at'[c]} /\ result'[at'[c]] = "ok"  BY <1>3, <2>2, <2>3, <2>4 DEF queue
  <2>6. Phase(c)'  BY <2>2, <2>5 DEF Phase
  <2> QED BY <2>4, <2>6, OrderKept
<1>11. CASE Rollback(c)
  <2>1. /\ Say(c, "rollback", "rollback")
        /\ \/ pc[c] \in {"begin", "body"}
           \/ pc[c] = "commit" /\ ~Waiting(at[c]) /\ ~Ok(c)
    BY <1>11 DEF Rollback, After
  <2>2. Own(c, "commit") = {} \/ (pc[c] = "commit" /\ ~Waiting(at[c]) /\ ~Ok(c))
    BY <2>1 DEF Phase
  <2>3. CASE /\ Ask(c, "rollback") /\ pc'[c] = "rollback" /\ at'[c] = Len(asked) + 1
             /\ \A kd \in Kind : Own(c, kd)' = IF "rollback" = kd THEN Own(c, kd) \cup {Len(asked) + 1}
                                                ELSE Own(c, kd)
    <3>1. Order(c)'  BY <1>1, <1>3, <2>3, OrderAsked
    <3>2. Own(c, "commit")' = Own(c, "commit")  BY <1>3, <2>3
    <3>3. \A m \in Own(c, "commit") : result'[m] \notin {"wait", "ok"}
      <4>1. CASE Own(c, "commit") = {}  BY <4>1
      <4>2. CASE pc[c] = "commit" /\ ~Waiting(at[c]) /\ ~Ok(c)
        <5>1. Own(c, "commit") = {at[c]}  BY <4>2 DEF Phase
        <5> QED BY <5>1, <4>2, <1>4 DEF Ok
      <4> QED BY <2>2, <4>1, <4>2
    <3> QED BY <2>3, <3>1, <3>2, <3>3 DEF Phase
  <2> QED BY <1>3, <1>5, <2>1, <2>2, <2>3, SayFacts DEF Places
<1>12. CASE RolledBack(c)
  <2>1. pc[c] = "rollback" /\ Stop(c, "failed")  BY <1>12 DEF RolledBack, After
  <2> QED BY <1>1, <1>5, <2>1 DEF Stop
<1> QED BY <1>6, <1>7, <1>8, <1>9, <1>10, <1>11, <1>12

-------------------------------------------------------------------------------
(***************************************************************************)
(* transaction() is atomic: what the server holds for the transactions.    *)
(***************************************************************************)
\* A call adds to what is asked, behind what is executed.
LEMMA Behind ==
  ASSUME TypeOK, NEW c \in Txs,
         UNCHANGED asked \/ \E by \in Caller \cup {Opener}, kind \in Kind : Ask(by, kind)
  PROVE  /\ Alone(c)' => Alone(c)
         /\ \A kd \in Kind : /\ Own(c, kd) \subseteq Own(c, kd)'
                             /\ \A k \in Own(c, kd)' : k \in Own(c, kd) \/ k > Len(asked)
<1> HIDE DEF Kind
<1>1. QueueOK /\ Len(asked) \in Nat  BY LengthFacts DEF TypeOK
<1>2. CASE UNCHANGED asked
  <2>1. \A kd \in Kind : Own(c, kd)' = Own(c, kd)  BY <1>2 DEF Own
  <2>2. Alone(c)' <=> Alone(c)  BY <1>2 DEF Alone, Own
  <2> QED BY <2>1, <2>2
<1>3. ASSUME NEW by \in Caller \cup {Opener}, NEW kind \in Kind, Ask(by, kind)
      PROVE  /\ Alone(c)' => Alone(c)
             /\ \A kd \in Kind : /\ Own(c, kd) \subseteq Own(c, kd)'
                                 /\ \A k \in Own(c, kd)' : k \in Own(c, kd) \/ k > Len(asked)
  <2>1. Len(asked') = Len(asked) + 1 /\ \A k \in 1..Len(asked) : asked'[k] = asked[k]
    BY <1>1, <1>3, AskFacts
  <2>2. \A kd : /\ Own(c, kd) \subseteq Own(c, kd)'
                /\ \A k \in Own(c, kd)' : k \in Own(c, kd) \/ k > Len(asked)
    <3> SUFFICES ASSUME NEW kd
                 PROVE  /\ Own(c, kd) \subseteq Own(c, kd)'
                        /\ \A k \in Own(c, kd)' : k \in Own(c, kd) \/ k > Len(asked)
      OBVIOUS
    <3>1. Own(c, kd)' = IF by = c /\ kind = kd THEN Own(c, kd) \cup {Len(asked) + 1} ELSE Own(c, kd)
      BY <1>1, <1>3, OwnAsked
    <3>2. Len(asked) + 1 > Len(asked)  BY <1>1
    <3> QED BY <3>1, <3>2
  <2>3. ASSUME Alone(c)', NEW b \in Own(c, "begin"), NEW k \in 1..Len(asked), asked[k].by # c, k > b
        PROVE  \E e \in Own(c, "commit") \cup Own(c, "rollback") : e < k
    <3>1. b \in Own(c, "begin")' /\ k \in 1..Len(asked') /\ asked'[k].by # c
      BY <1>1, <2>1, <2>2, <2>3
    <3>2. \E e \in Own(c, "commit")' \cup Own(c, "rollback")' : e < k
      BY <2>3, <3>1 DEF Alone
    <3>3. PICK e \in Own(c, "commit")' \cup Own(c, "rollback")' : e < k  BY <3>2
    <3>4. ~(e > Len(asked))
      <4>1. e \in 1..Len(asked')  BY <3>3 DEF Own
      <4> QED BY <1>1, <2>1, <3>3, <4>1
    <3> QED BY <2>2, <3>3, <3>4
  <2> QED BY <2>2, <2>3 DEF Alone
<1> QED BY <1>2, <1>3

\* While the server does nothing, what it holds stays.
LEMMA HeldKept ==
  ASSUME TypeOK, NEW c \in Txs, Held(c), Order(c)', derailed => derailed', UNCHANGED server,
         UNCHANGED asked \/ \E by \in Caller \cup {Opener}, kind \in Kind : Ask(by, kind)
  PROVE  Held(c)'
<1>1. /\ Len(asked) \in Nat /\ Len(outcome) \in Nat /\ Len(outcome) <= Len(asked)
      /\ pend \subseteq 1..Len(outcome) /\ durable \subseteq 1..Len(outcome)
  BY LengthFacts DEF TypeOK, ServerOK
<1>2. /\ Alone(c)' => Alone(c)
      /\ \A kd \in {"begin", "stmt", "commit", "rollback"} :
           /\ Own(c, kd) \subseteq Own(c, kd)'
           /\ \A k \in Own(c, kd)' : k \in Own(c, kd) \/ k > Len(asked)
  BY Behind DEF Kind
<1>3. UNCHANGED <<login, outcome, tx, pend, durable>>  BY DEF server
<1>4. \A kd \in {"begin", "stmt", "commit", "rollback"} : \A k \in Own(c, kd)' : k \in Nat
  BY DEF Own
<1>5. \A kd \in {"begin", "stmt", "commit", "rollback"} : \A k \in Own(c, kd)' :
        k <= Len(outcome) => k \in Own(c, kd)
  BY <1>1, <1>2, <1>4
<1>6. Ended(c)' <=> Ended(c)
  <2>1. Ended(c) => Ended(c)'  BY <1>2, <1>3 DEF Ended
  <2>2. Ended(c)' => Ended(c)  BY <1>5, <1>3 DEF Ended
  <2> QED BY <2>1, <2>2
<1>7. \A k, o : Executed(k, o)' <=> Executed(k, o)  BY <1>3 DEF Executed
<1>8. SUFFICES ASSUME Alone(c)', ~derailed' PROVE Held(c)'
  BY DEF Held
<1>9. /\ \A b \in Own(c, "begin") : Executed(b, "ok") /\ login = "done" /\ ~Ended(c) =>
           /\ tx # "I"
           /\ \A s \in Own(c, "stmt") : Executed(s, "ok") => tx = "T" /\ s \in pend
      /\ \A s \in Own(c, "stmt") :
           /\ s \in pend => ~Ended(c)
           /\ s \in durable <=> \E m \in Own(c, "commit") : Executed(m, "ok")
  BY <1>2, <1>8 DEF Held
<1>10. ASSUME NEW b \in Own(c, "begin")', Executed(b, "ok"), login = "done", ~Ended(c)
       PROVE  /\ tx # "I"
              /\ \A s \in Own(c, "stmt")' : Executed(s, "ok") => tx = "T" /\ s \in pend
  BY <1>5, <1>9, <1>10 DEF Executed
<1>11. ASSUME NEW s \in Own(c, "stmt")'
       PROVE  /\ s \in pend => ~Ended(c)
              /\ s \in durable <=> \E m \in Own(c, "commit")' : Executed(m, "ok")
  <2>1. s \in pend \/ s \in durable => s \in Own(c, "stmt")
    <3>1. s \in pend \/ s \in durable => s \in 1..Len(outcome)  BY <1>1
    <3>2. s \in pend \/ s \in durable => s <= Len(outcome)  BY <1>1, <3>1
    <3> QED BY <1>5, <3>2
  <2>2. \A m \in Own(c, "commit")' : Executed(m, "ok") => m \in Own(c, "commit") /\ s \in Own(c, "stmt")
    <3> SUFFICES ASSUME NEW m \in Own(c, "commit")', Executed(m, "ok")
                 PROVE  m \in Own(c, "commit") /\ s \in Own(c, "stmt")
      OBVIOUS
    <3>1. m <= Len(outcome) /\ s < m  BY DEF Executed, Order
    <3>2. s <= Len(outcome)  BY <1>1, <1>4, <3>1
    <3> QED BY <1>5, <3>1, <3>2
  <2> QED BY <1>2, <1>9, <2>1, <2>2
<1> QED BY <1>3, <1>6, <1>7, <1>10, <1>11 DEF Held

\* The handshake is no part of a transaction.
LEMMA HeldLogin ==
  ASSUME Basics, NEW c \in Txs, NEW step \in LoginSteps, Login(step)
  PROVE  Held(c)'
<1>1. Basics'  BY LoginBasics
<1>2. outcome = <<>> /\ UNCHANGED <<asked, pend, durable>> /\ asked # <<>>
  BY LoginTags DEF Login, Basics, LoggedIn, queue
<1>3. pend' = {} /\ durable' = {}
  <2>1. Len(outcome) = 0 /\ pend \subseteq 1..Len(outcome) /\ durable \subseteq 1..Len(outcome)
    BY <1>2, LengthFacts DEF Basics, TypeOK, ServerOK
  <2> QED BY <1>2, <2>1
<1>4. Len(outcome') <= 1 /\ Len(outcome') \in Nat
  <2>1. \/ outcome' = <<"ok">> \/ outcome' = <<"error">> \/ outcome' = <<>>
    <3>1. step[3] \in {"asked", "challenged", "done", "gone"}  BY LoginTags
    <3> QED BY <1>2, <3>1 DEF Login
  <2>2. Len(<<"ok">>) = 1 /\ Len(<<"error">>) = 1 /\ Len(<<>>) = 0  OBVIOUS
  <2>3. CASE outcome' = <<"ok">>  BY <2>2, <2>3
  <2>4. CASE outcome' = <<"error">>  BY <2>2, <2>4
  <2>5. CASE outcome' = <<>>  BY <2>2, <2>5
  <2> QED BY <2>1, <2>3, <2>4, <2>5
<1>5. \A kd \in {"begin", "stmt", "commit", "rollback"} : \A k \in Own(c, kd)' : k \in Nat /\ k > 1
  <2>1. asked'[1].kind = "startup"  BY <1>2 DEF Basics, LoggedIn
  <2> SUFFICES ASSUME NEW kd \in {"begin", "stmt", "commit", "rollback"}, NEW k \in Own(c, kd)'
               PROVE  k \in Nat /\ k > 1
    OBVIOUS
  <2>2. k \in Nat /\ k >= 1 /\ asked'[k].kind = kd  BY DEF Own
  <2>3. k # 1  BY <2>1, <2>2
  <2> QED BY <2>2, <2>3
<1>6. \A kd \in {"begin", "stmt", "commit", "rollback"} : \A k \in Own(c, kd)' : ~Executed(k, "ok")'
  BY <1>4, <1>5 DEF Executed
<1> QED BY <1>3, <1>6 DEF Held

\* The end of the session rolls back.
LEMMA HeldEnds ==
  ASSUME NEW c \in Txs, Held(c), UNCHANGED <<asked, derailed, outcome, durable>>,
         login' = "gone", pend' = {}
  PROVE  Held(c)'
<1>1. \A kd : Own(c, kd)' = Own(c, kd)  BY DEF Own
<1>2. Alone(c)' <=> Alone(c)  BY DEF Alone, Own
<1>3. \A k, o : Executed(k, o)' <=> Executed(k, o)  BY DEF Executed
<1> QED BY <1>1, <1>2, <1>3 DEF Held

\* The call the server executes next is its own, if the transaction has begun and not ended.
LEMMA NextIsOwn ==
  ASSUME Basics, NEW c \in Txs, Alone(c), NEW b \in Own(c, "begin"), b <= Len(outcome), ~Ended(c),
         Len(outcome) + 1 \in 1..Len(asked)
  PROVE  asked[Len(outcome) + 1].by = c
<1>1. Len(outcome) \in Nat /\ b \in Nat  BY LengthFacts DEF Basics, Own
<1>2. \A e \in Own(c, "commit") \cup Own(c, "rollback") : e \in Nat /\ ~(e < Len(outcome) + 1)
  <2>1. \A e \in Own(c, "commit") \cup Own(c, "rollback") : e \in Nat /\ ~(e <= Len(outcome))
    BY DEF Own, Ended
  <2> QED BY <1>1, <2>1
<1>3. Len(outcome) + 1 > b  BY <1>1
<1> QED BY <1>2, <1>3 DEF Alone

LEMMA HeldRun ==
  ASSUME AnswersInv, NEW c \in Txs, Order(c), Held(c),
         NEW o \in Outcomes, NEW a \in Answers(o), Run(o, a)
  PROVE  Held(c)'
<1> DEFINE n == Len(outcome) + 1
<1>1. Basics /\ Owned /\ QueueOK /\ Queued  BY DEF AnswersInv, Basics, TypeOK
<1>2. /\ n \in 1..Len(asked) /\ login = "done" /\ login' = "done" /\ Effect(n, o)
      /\ Len(outcome') = n /\ outcome'[n] = o /\ \A k \in 1..Len(outcome) : outcome'[k] = outcome[k]
      /\ UNCHANGED <<asked, derailed>>
  BY <1>1, RunFacts DEF queue
<1>3. /\ Len(outcome) \in Nat /\ n \in Nat /\ Len(asked) \in Nat
      /\ pend \subseteq 1..Len(outcome) /\ durable \subseteq 1..Len(outcome)
  BY <1>1, LengthFacts DEF Basics, TypeOK, ServerOK
<1>4. SUFFICES ASSUME Alone(c)', ~derailed' PROVE Held(c)'
  BY DEF Held
<1>5. Alone(c) /\ ~derailed /\ \A kd : Own(c, kd)' = Own(c, kd)
  BY <1>2, <1>4 DEF Alone, Own
<1>6. \A kd : \A k \in Own(c, kd) : k \in 1..Len(asked) /\ asked[k].kind = kd /\ asked[k].by = c
  BY DEF Own
<1>7. \A k \in 1..Len(asked) : /\ k <= n <=> k <= Len(outcome) \/ k = n
                               /\ ~(n <= Len(outcome)) /\ k \in Nat
  BY <1>3
<1> HIDE DEF n
<1>8. \A k \in 1..Len(asked), r \in Outcomes : Executed(k, r)' <=> Executed(k, r) \/ (k = n /\ o = r)
  <2> SUFFICES ASSUME NEW k \in 1..Len(asked), NEW r \in Outcomes
               PROVE  Executed(k, r)' <=> Executed(k, r) \/ (k = n /\ o = r)
    OBVIOUS
  <2>1. CASE k = n  BY <1>2, <1>3, <1>7, <2>1 DEF Executed, n
  <2>2. CASE k # n
    <3>1. k <= n <=> k <= Len(outcome)  BY <1>7, <2>2
    <3>2. k <= Len(outcome) => outcome'[k] = outcome[k]  BY <1>2, <1>3
    <3> QED BY <1>2, <2>2, <3>1, <3>2 DEF Executed
  <2> QED BY <2>1, <2>2
<1>9. "ok" \in Outcomes /\ "error" \in Outcomes  BY DEF Outcomes
<1>10. Ended(c)' <=> Ended(c) \/ n \in Own(c, "commit") \cup Own(c, "rollback")
  BY <1>2, <1>5, <1>6, <1>7 DEF Ended
<1>11. /\ \A b \in Own(c, "begin") : Executed(b, "ok") /\ ~Ended(c) =>
            /\ tx # "I"
            /\ \A s \in Own(c, "stmt") : Executed(s, "ok") => tx = "T" /\ s \in pend
       /\ \A s \in Own(c, "stmt") :
            /\ s \in pend => ~Ended(c)
            /\ s \in durable <=> \E m \in Own(c, "commit") : Executed(m, "ok")
  BY <1>2, <1>5 DEF Held
<1>12. \A k \in 1..Len(asked) : Executed(k, "ok") => k <= Len(outcome) /\ k # n
  BY <1>7 DEF Executed
\* A statement is behind a BEGIN that was executed.
<1>13. \A s \in Own(c, "stmt") : \E b \in Own(c, "begin") : b < s /\ Executed(b, "ok")
  <2>1. \A b \in Own(c, "begin") : result[b] = "ok" => Executed(b, "ok")
    BY <1>1, <1>5, <1>6, <1>9 DEF Owned, Executed
  <2> QED BY <2>1 DEF Order
\* Once it has begun and until it ends, the server executes nothing else.
<1>14. \A b \in Own(c, "begin") : Executed(b, "ok") /\ ~Ended(c) =>
         /\ asked[n].by = c
         /\ n \in Own(c, "stmt") \cup Own(c, "commit") \cup Own(c, "rollback")
  <2> SUFFICES ASSUME NEW b \in Own(c, "begin"), Executed(b, "ok"), ~Ended(c)
               PROVE  /\ asked[n].by = c
                      /\ n \in Own(c, "stmt") \cup Own(c, "commit") \cup Own(c, "rollback")
    OBVIOUS
  <2>1. b <= Len(outcome) /\ b # n  BY <1>6, <1>12
  <2>2. asked[n].by = c  BY <1>1, <1>2, <1>5, <2>1, NextIsOwn DEF n
  <2>3. asked[n].kind \in {"stmt", "begin", "commit", "rollback"}  BY <1>2 DEF Effect
  <2>4. asked[n].kind # "begin"
    <3>1. asked[n].kind = "begin" => n \in Own(c, "begin")  BY <1>2, <2>2 DEF Own
    <3> QED BY <2>1, <3>1 DEF Order
  <2> QED BY <1>2, <2>2, <2>3, <2>4 DEF Own
<1>15. ASSUME NEW b \in Own(c, "begin"), Executed(b, "ok")', ~Ended(c)'
       PROVE  /\ tx' # "I"
              /\ \A s \in Own(c, "stmt") : Executed(s, "ok")' => tx' = "T" /\ s \in pend'
  <2>1. ~Ended(c) /\ n \notin Own(c, "commit") /\ n \notin Own(c, "rollback")  BY <1>10, <1>15
  <2>2. CASE b = n
    <3>1. o = "ok" /\ asked[n].kind = "begin"  BY <1>6, <1>8, <1>9, <1>12, <1>15, <2>2
    <3>2. tx' = "T"  BY <1>2, <3>1 DEF Effect
    <3>3. \A s \in Own(c, "stmt") : ~Executed(s, "ok")'
      <4> SUFFICES ASSUME NEW s \in Own(c, "stmt"), Executed(s, "ok")' PROVE FALSE
        OBVIOUS
      <4>1. s # n  BY <1>6, <3>1
      <4>2. s <= Len(outcome)  BY <1>6, <1>8, <1>9, <1>12, <4>1
      <4>3. PICK d \in Own(c, "begin") : d < s  BY <1>13
      <4>4. d = n  BY <2>2 DEF Order
      <4>5. s \in Nat /\ s < n  BY <1>3, <1>6, <4>2 DEF n
      <4> QED BY <1>3, <4>3, <4>4, <4>5
    <3> QED BY <3>2, <3>3
  <2>3. CASE b # n
    <3>1. Executed(b, "ok")  BY <1>6, <1>8, <1>9, <1>15, <2>3
    <3>2. asked[n].kind = "stmt" /\ n \in Own(c, "stmt")  BY <1>6, <1>14, <2>1, <3>1
    <3>3. \A s \in Own(c, "stmt") : s = n  BY <3>2 DEF Order
    <3>4. tx # "I"  BY <1>11, <2>1, <3>1
    <3>5. tx' # "I" /\ (o = "ok" => tx' = "T" /\ n \in pend')
      BY <1>2, <3>2, <3>4, <1>1 DEF Effect, Basics, TypeOK, ServerOK
    <3>6. \A s \in Own(c, "stmt") : Executed(s, "ok")' => s = n /\ o = "ok"
      BY <1>6, <1>8, <1>9, <1>12, <3>3
    <3> QED BY <3>5, <3>6
  <2> QED BY <2>2, <2>3
<1>16. ASSUME NEW s \in Own(c, "stmt"), s \in pend' PROVE ~Ended(c)'
  <2>1. asked[n].kind \notin {"commit", "rollback"}  BY <1>2, <1>16 DEF Effect
  <2>2. n \notin Own(c, "commit") \cup Own(c, "rollback")  BY <1>6, <2>1
  <2>3. CASE s \in pend  BY <1>10, <1>11, <2>2, <2>3
  <2>4. CASE s \notin pend
    <3>1. s = n  BY <1>2, <1>16, <2>4 DEF Effect
    <3>2. \A e \in Own(c, "commit") \cup Own(c, "rollback") : n < e  BY <3>1 DEF Order
    <3>3. ~Ended(c)  BY <1>3, <1>6, <3>2 DEF Ended, n
    <3> QED BY <1>10, <2>2, <3>3
  <2> QED BY <2>3, <2>4
<1>17. ASSUME NEW s \in Own(c, "stmt"), s \in durable'
       PROVE  \E m \in Own(c, "commit") : Executed(m, "ok")'
  <2>1. PICK b \in Own(c, "begin") : b < s /\ Executed(b, "ok")  BY <1>13
  <2>2. CASE s \in durable  BY <1>6, <1>8, <1>9, <1>11, <2>2
  <2>3. CASE s \in pend /\ asked[n].kind = "commit" /\ o = "ok"
    <3>1. n \in Own(c, "commit")  BY <1>2, <1>11, <1>14, <2>1, <2>3 DEF Own
    <3> QED BY <1>2, <1>8, <1>9, <2>3, <3>1
  <2>4. CASE s = n /\ tx = "I"
    <3>1. \A e \in Own(c, "commit") \cup Own(c, "rollback") : n < e  BY <2>4 DEF Order
    <3>2. ~Ended(c)  BY <1>3, <1>6, <3>1 DEF Ended, n
    <3> QED BY <1>11, <2>1, <2>4, <3>2
  <2> QED BY <1>2, <1>17, <2>2, <2>3, <2>4 DEF Effect
<1>18. ASSUME NEW s \in Own(c, "stmt"), NEW m \in Own(c, "commit"), Executed(m, "ok")'
       PROVE  s \in durable'
  <2>1. durable \subseteq durable'  BY <1>2 DEF Effect
  <2>2. CASE m # n  BY <1>6, <1>8, <1>9, <1>11, <1>18, <2>1, <2>2
  <2>3. CASE m = n
    <3>1. o = "ok" /\ asked[n].kind = "commit"  BY <1>6, <1>8, <1>9, <1>12, <1>18, <2>3
    <3>2. Executed(s, "ok")
      <4>1. result[s] = "ok"  BY DEF Order
      <4> QED BY <1>1, <1>5, <1>6, <1>9, <4>1 DEF Owned, Executed
    <3>3. ~Ended(c)
      <4>1. \A e \in Own(c, "commit") \cup Own(c, "rollback") : n <= e  BY <2>3 DEF Order
      <4> QED BY <1>3, <1>6, <4>1 DEF Ended, n
    <3>4. tx = "T" /\ s \in pend  BY <1>11, <1>13, <3>2, <3>3
    <3> QED BY <1>2, <3>1, <3>4 DEF Effect
  <2> QED BY <2>2, <2>3
<1> QED BY <1>5, <1>15, <1>16, <1>17, <1>18 DEF Held

LEMMA TxNext ==
  ASSUME AnswersInv, TxInv, [Next]_vars, NEW c \in Txs
  PROVE  Phase(c)' /\ Order(c)' /\ Held(c)'
<1>1. Basics /\ TypeOK /\ QueueOK /\ Queued /\ Phase(c) /\ Order(c) /\ Held(c)
  BY DEF AnswersInv, Basics, TypeOK, TxInv
<1>2. Told /\ (derailed => derailed')  BY <1>1, StepTold
<1>3. pc \in [Caller -> Places] /\ at \in [Caller -> Nat] /\ c \in Caller
  BY <1>1 DEF TypeOK, Places, Caller
\* A step that is not its own leaves it what it has asked and where it is.
<1>4. ASSUME pc'[c] = pc[c], at'[c] = at[c],
             \/ UNCHANGED asked
             \/ \E by \in Caller \cup {Opener}, kind \in Kind : Ask(by, kind) /\ (by # c \/ kind = "startup")
      PROVE  Phase(c)' /\ Order(c)'
  <2>1. \A kd \in Kind \ {"startup"} : Own(c, kd)' = Own(c, kd)
    <3>1. CASE UNCHANGED asked  BY <3>1 DEF Own
    <3>2. ASSUME NEW by \in Caller \cup {Opener}, NEW kind \in Kind, Ask(by, kind), by # c \/ kind = "startup"
          PROVE  \A kd \in Kind \ {"startup"} : Own(c, kd)' = Own(c, kd)
      <4> HIDE DEF Kind
      <4> SUFFICES ASSUME NEW kd \in Kind \ {"startup"} PROVE Own(c, kd)' = Own(c, kd)
        OBVIOUS
      <4>1. ~(by = c /\ kind = kd)  BY <3>2
      <4>2. QueueOK /\ Ask(by, kind)  BY <1>1, <3>2
      <4>3. Own(c, kd)' = IF by = c /\ kind = kd THEN Own(c, kd) \cup {Len(asked) + 1} ELSE Own(c, kd)
        BY <4>2, OwnAsked
      <4> QED BY <4>1, <4>3
    <3> QED BY <1>4, <3>1, <3>2
  <2> QED BY <1>1, <1>2, <1>4, <2>1, OrderKept, PhaseKept
<1>5. ASSUME UNCHANGED <<asked, callers>> PROVE Phase(c)' /\ Order(c)'
  BY <1>4, <1>5 DEF callers
<1>6. ASSUME UNCHANGED server, Order(c)',
             UNCHANGED asked \/ \E by \in Caller \cup {Opener}, kind \in Kind : Ask(by, kind)
      PROVE  Held(c)'
  BY <1>1, <1>2, <1>6, HeldKept
<1>7. CASE Connected
  <2>1. Ask(Opener, "startup") /\ UNCHANGED <<server, callers>> /\ "startup" \in Kind
    BY <1>7 DEF Connected, Kind
  <2>2. Phase(c)' /\ Order(c)'  BY <1>4, <2>1 DEF callers
  <2> QED BY <1>6, <2>1, <2>2
<1>8. CASE ConnectFails \/ Chunk \/ ConnLost \/ EndClient \/ UNCHANGED vars
  <2>1. UNCHANGED <<asked, server, callers>>
    BY <1>8 DEF ConnectFails, Chunk, ConnLost, EndClient, vars, queue
  <2> QED BY <1>5, <1>6, <2>1
<1>9. CASE Dispatch
  <2>1. UNCHANGED <<server, callers>> /\ asked' = asked
    BY <1>1, <1>9, DispatchFacts DEF queue, Shift
  <2> QED BY <1>5, <1>6, <2>1
<1>10. CASE SocketClosed \/ \E k \in 1..Len(asked) : Timeout(k)
  <2>1. UNCHANGED <<asked, server, callers>>  BY <1>10 DEF SocketClosed, Timeout, Fatal
  <2> QED BY <1>5, <1>6, <2>1
<1>11. ASSUME NEW d \in Caller, NEW kind \in Kind, NEW where \in Places, Say(d, kind, where), d # c
       PROVE  Phase(c)' /\ Order(c)' /\ Held(c)'
  <2> HIDE DEF Kind
  <2>1. pc'[c] = pc[c] /\ at'[c] = at[c] /\ UNCHANGED server
    BY <1>3, <1>11 DEF Say
  <2>2. UNCHANGED asked \/ Ask(d, kind)  BY <1>11 DEF Say, queue
  <2>3. Phase(c)' /\ Order(c)'  BY <1>4, <1>11, <2>1, <2>2
  <2> QED BY <1>6, <2>1, <2>2, <2>3
<1>12. CASE \E d \in Plain : Exec(d)
  <2>1. PICK d \in Plain : Say(d, "stmt", "sent")  BY <1>12 DEF Exec
  <2>2. d # c /\ d \in Caller /\ "stmt" \in Kind /\ "sent" \in Places
    BY CallersAssumption DEF Caller, Kind, Places
  <2> QED BY <1>11, <2>1, <2>2
<1>13. ASSUME NEW d \in Txs,
              \/ Begin(d) \/ Body(d) \/ BeginFailed(d) \/ Commit(d) \/ Committed(d)
              \/ Rollback(d) \/ RolledBack(d)
       PROVE  Phase(c)' /\ Order(c)' /\ Held(c)'
  <2>1. \/ \E kind \in Kind, where \in Places : Say(d, kind, where)
        \/ \E how : Stop(d, how)
    BY <1>13 DEF Begin, Body, BeginFailed, Commit, Committed, Rollback, RolledBack, Kind, Places
  <2>2. d \in Caller  BY DEF Caller
  <2> HIDE DEF Kind
  <2>3. CASE d # c
    <3>1. ASSUME NEW how, Stop(d, how) PROVE Phase(c)' /\ Order(c)' /\ Held(c)'
      <4>1. pc'[c] = pc[c] /\ UNCHANGED <<asked, at, server>>  BY <1>3, <2>3, <3>1 DEF Stop, queue
      <4> QED BY <1>4, <1>6, <4>1
    <3> QED BY <1>11, <2>1, <2>2, <2>3, <3>1
  <2>4. CASE d = c
    <3>1. Phase(c)' /\ Order(c)'  BY <1>1, <1>2, <1>13, <2>4, TxMoves
    <3>2. UNCHANGED server /\ (UNCHANGED asked \/ \E kind \in Kind : Ask(c, kind))
      BY <2>1, <2>4 DEF Say, Stop, queue
    <3> QED BY <1>3, <1>6, <3>1, <3>2
  <2> QED BY <2>3, <2>4
<1>14. CASE \E step \in LoginSteps : Login(step)
  <2>1. UNCHANGED <<asked, callers>>  BY <1>14 DEF Login, queue
  <2> QED BY <1>1, <1>5, <1>14, <2>1, HeldLogin
<1>15. CASE \E o \in Outcomes : \E a \in Answers(o) : Run(o, a)
  <2>1. UNCHANGED <<asked, callers>>  BY <1>15 DEF Run, queue
  <2> QED BY <1>1, <1>5, <1>15, <2>1, HeldRun
<1>16. CASE ServerCloses \/ SessionEnds
  <2>1. UNCHANGED <<asked, derailed, outcome, durable, callers>> /\ login' = "gone" /\ pend' = {}
    BY <1>16 DEF ServerCloses, SessionEnds, queue
  <2> QED BY <1>1, <1>5, <2>1, HeldEnds
<1> QED BY <1>7, <1>8, <1>9, <1>10, <1>12, <1>13, <1>14, <1>15, <1>16 DEF Next, Outcomes

LEMMA TxInit == Init => TxInv
<1> SUFFICES ASSUME Init, NEW c \in Txs PROVE Phase(c) /\ Order(c) /\ Held(c)
  BY DEF TxInv
<1>1. Len(asked) = 0 /\ 1..Len(asked) = {} /\ durable = {} /\ pend = {}  BY DEF Init
<1>2. \A kd : Own(c, kd) = {}  BY <1>1 DEF Own
<1>3. pc[c] = "idle"  BY DEF Init, Caller
<1> QED BY <1>1, <1>2, <1>3 DEF Phase, Order, Held

\* A transaction() on a connection that no other caller uses meanwhile is all or nothing, as
\* its caller was told: for any number of callers and calls, whatever is lost, refused or
\* closed on the way. The exception is the COMMIT whose answer was lost.
THEOREM TransactionsAreAtomic == Spec => []TxAtomic
<1>1. ASSUME AnswersInv, TxInv PROVE TxAtomic
  <2> SUFFICES ASSUME NEW c \in Txs, Alone(c), ~derailed
               PROVE  /\ pc[c] = "done" => Own(c, "stmt") \subseteq durable
                      /\ pc[c] = "failed" /\ (\A k \in Own(c, "commit") : result[k] # "lost")
                           => Own(c, "stmt") \cap durable = {}
    BY DEF TxAtomic
  <2>1. Owned /\ Queued /\ QueueOK /\ Phase(c) /\ Held(c)
    BY <1>1 DEF AnswersInv, Basics, TypeOK, TxInv
  <2>2. \A k \in Own(c, "commit") : result[k] \in Outcomes => Executed(k, result[k])
    BY <2>1 DEF Owned, Own, Executed
  <2>3. \A s \in Own(c, "stmt") : s \in durable <=> \E m \in Own(c, "commit") : Executed(m, "ok")
    BY <2>1 DEF Held
  <2>4. CASE pc[c] = "done"
    <3>1. at[c] \in Own(c, "commit") /\ result[at[c]] = "ok"  BY <2>1, <2>4 DEF Phase
    <3> QED BY <2>2, <2>3, <2>4, <3>1 DEF Outcomes
  <2>5. CASE pc[c] = "failed" /\ \A k \in Own(c, "commit") : result[k] # "lost"
    <3>1. ASSUME NEW m \in Own(c, "commit") PROVE ~Executed(m, "ok")
      <4>1. m \in 1..Len(result) /\ result[m] # "confused"  BY <2>1 DEF Own, Queued, QueueOK
      <4>2. result[m] \in Results  BY <2>1, <4>1, ElementOfSeq DEF QueueOK
      <4>3. result[m] = "error"  BY <2>1, <2>5, <4>1, <4>2 DEF Phase, Results
      <4> QED BY <2>2, <4>3 DEF Executed, Outcomes
    <3> QED BY <2>3, <2>5, <3>1
  <2> QED BY <2>4, <2>5
<1>2. Init => TxInv  BY TxInit
<1>3. AnswersInv /\ TxInv /\ [Next]_vars => TxInv'
  BY TxNext DEF TxInv
<1> QED BY <1>1, <1>2, <1>3, AnswersInvariant, PTL DEF Spec
===============================================================================
