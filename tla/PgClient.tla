------------------------------- MODULE PgClient -------------------------------
(***************************************************************************)
(* The Postgres client (postgres.mjs): connect, the handshake, pipelined   *)
(* queries, transaction(), timeouts and end(), over one socket to a server *)
(* modelled from the protocol.                                             *)
(*                                                                         *)
(* The client answers queries by position: a message goes to the handler   *)
(* at the head of the queue, whatever it was sent for. A data event        *)
(* dispatches all the messages it completes (got of them are left) before  *)
(* any other code runs. Rows, parameters and the text of errors are left   *)
(* out; a message carries the call it was sent for, which the client       *)
(* cannot see.                                                             *)
(***************************************************************************)
EXTENDS Naturals, Sequences

CONSTANTS Plain,    \* callers that run one statement
          Txs,      \* callers of transaction() with one statement in it
          MaxAsked  \* bounds the model: calls on the connection

ASSUME CallersAssumption == Plain \cap Txs = {} /\ MaxAsked \in Nat

Caller == Plain \cup Txs
Opener == "connect"  \* the handshake is the first call on the connection
Kind   == {"startup", "stmt", "begin", "commit", "rollback"}

VARIABLES
  tcp,      \* connect() up to the handshake: "connecting", "up", "failed"
  link,     \* "open", "ended" (closed by end()), "fatal" (fatalError set)
  asked,    \* the calls sent, in order: who made them and what they are
  result,   \* result[k]: "wait" while in the queue, else how call k settled
  settled,  \* calls shifted out of the queue
  err,      \* pendingError of the handler at the head
  scram,    \* scramState: "none", "first" (nonce sent), "proof"
  replies,  \* password messages sent
  source,   \* source[k]: history, the calls whose messages call k consumed
  derailed, \* history: a message with an unknown tag was dispatched
  stream,   \* messages from the server
  got,      \* how many of them the client holds complete in its buffer
  sock,     \* "up" or "down"
  login,    \* what the server asked for last in the handshake
  outcome,  \* outcomes of the calls the server executed
  tx,       \* its transaction: "I" none, "T" open, "E" failed
  pend,     \* calls whose effect the open transaction holds
  durable,  \* calls whose effect is committed
  pc, at    \* per caller: where it is, and its last call

queue   == <<asked, result, settled, err, source, derailed>>
wire    == <<stream, got, sock>>
server  == <<login, outcome, tx, pend, durable>>
auth    == <<scram, replies>>
callers == <<pc, at>>
vars    == <<tcp, link, queue, auth, wire, server, callers>>

Init ==
  /\ tcp = "connecting" /\ link = "open"
  /\ asked = <<>> /\ result = <<>> /\ source = <<>>
  /\ settled = 0 /\ err = FALSE /\ derailed = FALSE
  /\ scram = "none" /\ replies = 0
  /\ stream = <<>> /\ got = 0 /\ sock = "up"
  /\ login = "start" /\ outcome = <<>> /\ tx = "I" /\ pend = {} /\ durable = {}
  /\ pc = [c \in Caller |-> "idle"] /\ at = [c \in Caller |-> 0]

-------------------------------------------------------------------------------
(***************************************************************************)
(* The queue.                                                              *)
(***************************************************************************)
\* _enqueue, with the messages the call writes before it.
Ask(by, kind) ==
  /\ asked'  = Append(asked, [by |-> by, kind |-> kind])
  /\ result' = Append(result, "wait")
  /\ source' = Append(source, {})
  /\ UNCHANGED <<settled, err, derailed>>

Waiting(k) == k \in (settled + 1)..Len(asked)
Ready == result # <<>> /\ result[1] = "ok"  \* connect() has returned the client

\* The handler at the head is shifted out and its promise settled.
Shift(r) ==
  /\ result'  = [result EXCEPT ![settled + 1] = r]
  /\ settled' = settled + 1
  /\ err' = FALSE
  /\ UNCHANGED asked

Consume(m) == source' = [source EXCEPT ![settled + 1] = @ \cup {m.of}]

\* Mutant: the calls in the queue are forgotten.
FatalKeepsQueue == link' = "fatal" /\ UNCHANGED queue

\* _fatal: every call in the queue is rejected. The socket is left alone.
Fatal ==
  /\ link' = "fatal"
  /\ result'  = [k \in DOMAIN result |-> IF Waiting(k) THEN "lost" ELSE result[k]]
  /\ settled' = Len(asked)
  /\ err' = FALSE
  /\ UNCHANGED <<asked, source, derailed>>

-------------------------------------------------------------------------------
(***************************************************************************)
(* connect(): the TCP connection, then the handshake.                      *)
(***************************************************************************)
ConnectFails ==  \* an error event, or the connect timeout, which destroys the socket
  /\ tcp = "connecting"
  /\ tcp' = "failed" /\ sock' = "down"
  /\ UNCHANGED <<link, queue, auth, stream, got, server, callers>>

Connected ==
  /\ tcp = "connecting"
  /\ tcp' = "up"
  /\ Ask(Opener, "startup")
  /\ UNCHANGED <<link, auth, wire, server, callers>>

\* The handler of the handshake. A throw rejects connect() and leaves the socket.
Handshake(m) ==
  \/ /\ m.tag \in {"clear", "sasl"}
     /\ replies' = replies + 1
     /\ scram' = IF m.tag = "sasl" THEN "first" ELSE scram
     /\ UNCHANGED queue
  \/ /\ m.tag = "continue" /\ scram # "none"
     /\ replies' = replies + 1 /\ scram' = "proof"
     /\ UNCHANGED queue
  \/ /\ m.tag \in {"auth_ok", "S", "K", "N"} \/ (m.tag = "final" /\ scram = "proof")
     /\ UNCHANGED <<queue, auth>>
  \/ /\ m.tag = "Z"
     /\ Shift("ok") /\ Consume(m)
     /\ UNCHANGED <<derailed, auth>>
  \/ /\ m.tag = "E"
     /\ Shift("error") /\ Consume(m)
     /\ UNCHANGED <<derailed, auth>>
  \/ /\ m.tag \in {"other_mechanism", "bad_nonce", "bad_proof", "V"}
     /\ Shift("confused")
     /\ derailed' = TRUE
     /\ UNCHANGED <<source, auth>>

-------------------------------------------------------------------------------
(***************************************************************************)
(* The data event: _onData, _dispatch and the handler of _collectResults.  *)
(***************************************************************************)
Known == {"D", "C", "E", "Z", "N", "S"}  \* C also stands for T, 1, 2, n, I and s

\* Mutant: an ErrorResponse rejects the call at once.
CollectErrorAtOnce(m) ==
  /\ \/ m.tag \in {"C", "N", "S"} /\ UNCHANGED queue
     \/ m.tag = "D" /\ Consume(m) /\ UNCHANGED <<asked, result, settled, err, derailed>>
     \/ m.tag \in {"E", "Z"} /\ Consume(m) /\ UNCHANGED derailed
        /\ Shift(IF m.tag = "E" THEN "error" ELSE "ok")
     \/ m.tag \notin Known /\ Shift("confused") /\ derailed' = TRUE /\ UNCHANGED source
  /\ UNCHANGED auth

Collect(m) ==
  /\ \/ m.tag \in {"C", "N", "S"} /\ UNCHANGED queue
     \/ /\ m.tag = "D" /\ Consume(m)
        /\ UNCHANGED <<asked, result, settled, err, derailed>>
     \/ /\ m.tag = "E" /\ Consume(m)
        /\ err' = TRUE
        /\ UNCHANGED <<asked, result, settled, derailed>>
     \/ /\ m.tag = "Z" /\ Consume(m)
        /\ Shift(IF err THEN "error" ELSE "ok")
        /\ UNCHANGED derailed
     \/ /\ m.tag \notin Known  \* throws: the rest of the answer meets the next call
        /\ Shift("confused")
        /\ derailed' = TRUE
        /\ UNCHANGED source
  /\ UNCHANGED auth

Chunk ==
  /\ got = 0 /\ stream # <<>>
  /\ got' \in 1..Len(stream)
  /\ UNCHANGED <<tcp, link, queue, auth, stream, sock, server, callers>>

Dispatch ==
  /\ got > 0
  /\ stream' = Tail(stream) /\ got' = got - 1
  /\ IF settled = Len(asked) THEN UNCHANGED <<queue, auth>>
     ELSE IF settled = 0 THEN Handshake(Head(stream)) ELSE Collect(Head(stream))
  /\ UNCHANGED <<tcp, link, sock, server, callers>>

\* Mutant: the timer fails its own call and keeps the connection.
TimeoutOne(k) ==
  /\ got = 0 /\ k = settled + 1
  /\ Shift("lost")
  /\ UNCHANGED <<tcp, link, source, derailed, auth, wire, server, callers>>

\* The timer of a call in the queue: it fails them all.
Timeout(k) ==
  /\ got = 0 /\ Waiting(k)
  /\ Fatal
  /\ UNCHANGED <<tcp, auth, wire, server, callers>>

\* The close or error event of the socket, once what it received is read.
SocketClosed ==
  /\ tcp = "up" /\ sock = "down" /\ stream = <<>> /\ link # "fatal"
  /\ Fatal
  /\ UNCHANGED <<tcp, auth, wire, server, callers>>

-------------------------------------------------------------------------------
(***************************************************************************)
(* Callers. A call on a closed client throws PG_CLOSED, which ends the     *)
(* caller: the ROLLBACK of a transaction throws too and is swallowed.      *)
(***************************************************************************)
Say(c, kind, where) ==
  /\ IF link = "open"
     THEN Ask(c, kind) /\ pc' = [pc EXCEPT ![c] = where] /\ at' = [at EXCEPT ![c] = Len(asked) + 1]
     ELSE UNCHANGED <<queue, at>> /\ pc' = [pc EXCEPT ![c] = "failed"]
  /\ UNCHANGED <<tcp, link, auth, wire, server>>

MayCall == got = 0 /\ Ready /\ (link = "open" => Len(asked) < MaxAsked)
Stop(c, how) == pc' = [pc EXCEPT ![c] = how] /\ UNCHANGED <<tcp, link, queue, auth, wire, server, at>>

Exec(c)    == MayCall /\ pc[c] = "idle" /\ Say(c, "stmt", "sent")
Begin(c)   == MayCall /\ pc[c] = "idle" /\ Say(c, "begin", "begin")
After(c,s) == MayCall /\ pc[c] = s /\ ~Waiting(at[c])
Ok(c)      == result[at[c]] = "ok"

Body(c)        == After(c, "begin")    /\ Ok(c)  /\ Say(c, "stmt", "body")
BeginFailed(c) == After(c, "begin")    /\ ~Ok(c) /\ Stop(c, "failed")
\* Mutant: COMMIT whatever the statement's answer.
CommitAnyway(c) == After(c, "body") /\ Say(c, "commit", "commit")
Commit(c)      == After(c, "body")     /\ Ok(c)  /\ Say(c, "commit", "commit")
Committed(c)   == After(c, "commit")   /\ Ok(c)  /\ Stop(c, "done")
RolledBack(c)  == After(c, "rollback")           /\ Stop(c, "failed")
\* A statement or the COMMIT was rejected, or the caller's own code throws.
Rollback(c) ==
  /\ \/ After(c, "begin")  /\ Ok(c)
     \/ After(c, "body")
     \/ After(c, "commit") /\ ~Ok(c)
  /\ Say(c, "rollback", "rollback")

EndClient ==
  /\ got = 0 /\ Ready /\ link = "open"
  /\ link' = "ended"
  /\ UNCHANGED <<tcp, queue, auth, wire, server, callers>>

-------------------------------------------------------------------------------
(***************************************************************************)
(* The server and the network.                                             *)
(***************************************************************************)
Msgs(tags, k) == [i \in 1..Len(tags) |-> [tag |-> tags[i], of |-> k]]
Write(tags, k) ==
  /\ stream' = IF sock = "up" THEN stream \o Msgs(tags, k) ELSE stream
  /\ UNCHANGED <<got, sock>>

Admits  == <<"auth_ok", "Z">>
Refuses == {<<"E">>}

\* Its next step in the handshake: what it had asked for, the password messages
\* it needs for that, what it asks now, and the answer.
LoginSteps ==
  {<<"start", 0, "asked", <<t>>>> : t \in {"clear", "sasl", "other_mechanism", "V"}}
  \cup {<<"asked", 1, "challenged", <<t>>>> : t \in {"continue", "bad_nonce"}}
  \cup {<<"challenged", 2, "done", <<t>> \o Admits>> : t \in {"final", "bad_proof"}}
  \cup {<<"start", 0, "done", Admits>>, <<"asked", 1, "done", Admits>>}
  \cup {<<"start", 0, "gone", r>> : r \in Refuses} \cup {<<"asked", 1, "gone", r>> : r \in Refuses}
       \cup {<<"challenged", 2, "gone", r>> : r \in Refuses}

Login(step) ==
  /\ asked # <<>> /\ sock = "up"
  /\ login = step[1] /\ replies = step[2]
  /\ step[3] = "challenged" => scram = "first"
  /\ step[1] = "asked" /\ step[3] = "done" => scram = "none"
  /\ login' = step[3]
  /\ outcome' = CASE step[3] = "done" -> <<"ok">> [] step[3] = "gone" -> <<"error">> [] OTHER -> outcome
  /\ Write(step[4], 1)
  /\ UNCHANGED <<tcp, link, queue, auth, tx, pend, durable, callers>>

\* "A": a notification, which only a client that ran LISTEN is sent.
Answers(o) == IF o = "error" THEN {<<"E", "Z">>} ELSE {<<"D", "C", "Z">>, <<"A", "C", "Z">>}

\* The effect of call k with outcome o on the transaction of the connection.
Effect(k, o) ==
  LET kind == asked[k].kind IN
  \/ /\ kind \in {"stmt", "begin"} /\ o = "error"
     /\ kind = "begin" => tx = "E"
     /\ tx' = (IF tx = "I" THEN "I" ELSE "E")
     /\ UNCHANGED <<pend, durable>>
  \/ /\ kind = "begin" /\ o = "ok" /\ tx # "E"
     /\ tx' = "T"
     /\ UNCHANGED <<pend, durable>>
  \/ /\ kind = "stmt" /\ o = "ok" /\ tx # "E"
     /\ pend'    = IF tx = "T" THEN pend \cup {k} ELSE pend
     /\ durable' = IF tx = "I" THEN durable \cup {k} ELSE durable
     /\ UNCHANGED tx
  \/ /\ kind \in {"commit", "rollback"}
     /\ o = "error" => kind = "commit" /\ tx = "T"
     /\ durable' = IF kind = "commit" /\ o = "ok" /\ tx = "T" THEN durable \cup pend ELSE durable
     /\ tx' = "I" /\ pend' = {}

\* It executes the next call, also one it had received before the client was gone.
Run(o, answer) ==
  LET k == Len(outcome) + 1 IN
  /\ login = "done" /\ k <= Len(asked)
  /\ Effect(k, o)
  /\ outcome' = Append(outcome, o)
  /\ Write(answer, k)
  /\ UNCHANGED <<tcp, link, queue, auth, login, callers>>

\* It shuts down (an ErrorResponse, then the end of the stream), or has answered
\* all that came before the Terminate message of end().
ServerCloses ==
  /\ tcp = "up" /\ sock = "up"
  /\ \/ login = "done" /\ stream' = stream \o Msgs(<<"E">>, Len(outcome) + 1)
     \/ (login = "gone" \/ (link = "ended" /\ Len(outcome) = Len(asked))) /\ UNCHANGED stream
  /\ sock' = "down" /\ login' = "gone" /\ tx' = "I" /\ pend' = {}
  /\ UNCHANGED <<tcp, link, queue, auth, got, outcome, durable, callers>>

\* The connection breaks; what the client had not received is gone.
ConnLost ==
  /\ tcp = "up" /\ sock = "up"
  /\ sock' = "down"
  /\ \E n \in got..Len(stream) : stream' = SubSeq(stream, 1, n)
  /\ UNCHANGED <<tcp, link, queue, auth, got, server, callers>>

\* The server notices, and rolls back.
SessionEnds ==
  /\ sock = "down" /\ login # "gone"
  /\ login' = "gone" /\ tx' = "I" /\ pend' = {}
  /\ UNCHANGED <<tcp, link, queue, auth, wire, outcome, durable, callers>>

-------------------------------------------------------------------------------
Next ==
  \/ Connected \/ ConnectFails \/ Chunk \/ Dispatch \/ SocketClosed \/ EndClient
  \/ \E k \in 1..Len(asked) : Timeout(k)
  \/ \E c \in Plain : Exec(c)
  \/ \E c \in Txs : \/ Begin(c) \/ Body(c) \/ BeginFailed(c) \/ Commit(c) \/ Committed(c)
                    \/ Rollback(c) \/ RolledBack(c)
  \/ \E step \in LoginSteps : Login(step)
  \/ \E o \in {"ok", "error"} : \E a \in Answers(o) : Run(o, a)
  \/ ServerCloses \/ ConnLost \/ SessionEnds

\* Fairness: the event loop runs the events it has, and timers fire. The server
\* and the network owe nothing.
Fairness == WF_vars(Dispatch) /\ WF_vars(\E k \in 1..Len(asked) : Timeout(k))
Spec     == Init /\ [][Next]_vars
FairSpec == Spec /\ Fairness

-------------------------------------------------------------------------------
\* A call that was answered got its own answer: no message of another call was
\* given to it, and it is told ok or error as the server decided; until the server
\* sends a message the client does not know.
AnswersAreOwn ==
  ~derailed => \A k \in 1..settled :
    /\ source[k] \subseteq {k}
    /\ result[k] \in {"ok", "error"} => k <= Len(outcome) /\ result[k] = outcome[k]

\* Every call is settled, on a derailed or broken connection too: the last call of
\* a derailed queue, whose answer was given to another, is failed by its timer.
Settles == \A k \in 1..MaxAsked : (k <= Len(asked)) ~> (k <= settled)

Own(c, kind) == {k \in 1..Len(asked) : asked[k].by = c /\ asked[k].kind = kind}
\* No other caller's call came between the transaction's BEGIN and its end.
Alone(c) ==
  \A b \in Own(c, "begin"), k \in 1..Len(asked) :
    asked[k].by # c /\ k > b => \E e \in Own(c, "commit") \cup Own(c, "rollback") : e < k

\* A transaction nobody else's calls fell into is committed when transaction()
\* returns, and not when it throws, unless the answer to the COMMIT was lost.
TxAtomic ==
  \A c \in Txs : Alone(c) /\ ~derailed =>
    /\ pc[c] = "done" => Own(c, "stmt") \subseteq durable
    /\ pc[c] = "failed" /\ (\A k \in Own(c, "commit") : result[k] # "lost")
         => Own(c, "stmt") \cap durable = {}

\* The client implements QueryService.
Service == INSTANCE QueryService WITH
  Caller <- Caller \cup {Opener}, ran <- outcome, told <- result, open <- (link = "open")
ImplementsService == Service!Spec
===============================================================================
