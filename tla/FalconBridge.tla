---------------------------- MODULE FalconBridge ----------------------------
(***************************************************************************)
(* The Falcon routes of server-sovereign.mjs and the child processes of    *)
(* falcon-bridge.mjs that serve them: sign behind the admin gates, verify  *)
(* open to all.                                                            *)
(*                                                                         *)
(* A call writes the key and the message into a directory of its own,      *)
(* spawns qv-cli and waits for it; the first event that settles the        *)
(* promise ends the call, and the directory is removed in the same turn.   *)
(*                                                                         *)
(* The names of the specification carry a prefix, since Gates_proofs       *)
(* extends this module and another one that has an Init and a Next.        *)
(***************************************************************************)
EXTENDS Admission, FiniteSets

CONSTANTS Sign, Verify,  \* calls of the two routes, each made once
          Envs,          \* the environments the server may be started in
          Requests       \* Requests[c]: what call c may ask

ASSUME CallsAssumption == Sign \cap Verify = {}

Call == Sign \cup Verify

\* Settings and requests are what loadAdminConfig, loadCidrList and extractClientIp may find.
ASSUME InputAssumption ==
  /\ \A e \in Envs :
       /\ e.anon \in BOOLEAN /\ e.cidrs \in Seq([addr : Address, mask : Int])
       /\ e.hash \in {NoHash, <<"malformed">>} \cup ({"sha256"} \X STRING)
  /\ \A c \in Sign : \A r \in Requests[c] : r.socket \in Address /\ r.xff \in Seq(Address)

VARIABLES
  env,     \* the environment: security and admin settings, and the qv-cli it finds
  server,  \* "booting", "up", "refused" (would not start), "dead"
  req,     \* req[c]: the request of call c
  st,      \* st[c]: "idle", "gates", "reading" (the body), "waiting" (for the child), "done"
  status,  \* status[c]: the answer, 0 before
  headers, \* headers[c]: what security.mjs put on the answer
  child,   \* child[c]: "none", "stillborn" (spawn failed), "running", "signalled", "exited"
  code,    \* code[c]: exit code; -1 is none, a signal, or any that means an error
  killed,  \* killed[c]: the promise was rejected by a timeout or by too much output
  timer,   \* timer[c]: the 30 s timer is set
  dir,     \* dir[c]: the directory with the key exists
  stuck    \* stuck[c]: history, removing the directory failed

conf       == <<env, server>>
process    == <<child, code, killed, timer>>
bridgeVars == <<conf, req, st, status, headers, process, dir, stuck>>

NoRequest == [route |-> "none"]
NoHeaders == [security |-> {}, origin |-> "", credentials |-> FALSE]

BridgeInit ==
  /\ env \in Envs
  /\ server = "booting"
  /\ req = [c \in Call |-> NoRequest]
  /\ st = [c \in Call |-> "idle"] /\ status = [c \in Call |-> 0]
  /\ headers = [c \in Call |-> NoHeaders]
  /\ child = [c \in Call |-> "none"] /\ code = [c \in Call |-> -1]
  /\ killed = [c \in Call |-> FALSE] /\ timer = [c \in Call |-> FALSE]
  /\ dir = [c \in Call |-> FALSE] /\ stuck = [c \in Call |-> FALSE]

-------------------------------------------------------------------------------
(***************************************************************************)
(* Boot and dispatch.                                                      *)
(***************************************************************************)
Boot ==
  /\ server = "booting"
  /\ server' = IF /\ ~LoadSecurityConfig(env).refused /\ LoadCorsConfig(env).mode # "refused"
                  /\ LoadAdminConfig(env).mode # "refused"
                  /\ \A e \in Range(env.cidrs) : WellFormed(e)
               THEN "up" ELSE "refused"
  /\ UNCHANGED <<env, req, st, status, process, dir, stuck>>

\* The first of QV_CLI_BIN, the release build, the debug build and the PATH that exists.
FindQvCli ==
  LET found == SelectSeq(<<"override", "release", "debug", "path">>,
                         LAMBDA place : place \in DOMAIN env.cli)
  IN IF found = <<>> THEN "none" ELSE env.cli[Head(found)]

\* It is asked once, at boot, for the help of its falcon command. A "plain" build, without
\* the command, passes too: its complaint names the word that the probe looks for.
ProbeFalconCli == FindQvCli \in {"falcon", "plain"}

Answer(c, s) == st' = [st EXCEPT ![c] = "done"] /\ status' = [status EXCEPT ![c] = s]

Arrive(c) ==
  /\ server = "up" /\ st[c] = "idle"
  /\ \E r \in Requests[c] : req' = [req EXCEPT ![c] = r]
  /\ st' = [st EXCEPT ![c] = "gates"]
  /\ UNCHANGED <<conf, status, process, dir, stuck>>

\* The dispatcher, the rate limiter (whose verdict RateLimit.tla models), the gates of
\* the route and its first lines: one turn up to the first read of the body. A preflight
\* ends in applyCors when its origin is allowed, and in the dispatcher when not.
Dispatch(c) ==
  /\ server = "up" /\ st[c] = "gates"
  /\ headers' = [headers EXCEPT ![c] = Headers(req[c], env)]
  /\ LET gates == IF c \in Sign THEN AdminGates(req[c], env.cidrs, LoadAdminConfig(env)) ELSE 0
     IN \/ /\ req[c].route = "options" /\ Answer(c, 204)
        \/ /\ req[c].route = "unknown" /\ Answer(c, 404)
        \/ /\ req[c].route = "falcon"
           /\ \/ Answer(c, 429)
              \/ gates # 0 /\ Answer(c, gates)
              \/ gates = 0 /\ ~ProbeFalconCli /\ Answer(c, 503)
              \/ /\ gates = 0 /\ ProbeFalconCli
                 /\ st' = [st EXCEPT ![c] = "reading"] /\ UNCHANGED status
  /\ UNCHANGED <<conf, req, process, dir, stuck>>

-------------------------------------------------------------------------------
(***************************************************************************)
(* From the body to the child: one turn.                                   *)
(***************************************************************************)
\* readJsonBounded throws (too large, not JSON, the client is gone): the routes do not
\* catch it, the dispatcher does.
BodyThrows(c) ==
  /\ server = "up" /\ st[c] = "reading"
  /\ Answer(c, 500)
  /\ UNCHANGED <<conf, req, process, dir, stuck>>

\* A wrong n, or a field that is missing, is the routes' own answer.
BadFields(c) ==
  /\ server = "up" /\ st[c] = "reading"
  /\ Answer(c, 400)
  /\ UNCHANGED <<conf, req, process, dir, stuck>>

\* Mutant: the directory is removed only when the child has answered.
FinishOnSuccess(c, s, there) ==
  /\ Answer(c, s)
  /\ dir' = [dir EXCEPT ![c] = @ /\ s # 200] /\ UNCHANGED stuck

\* finally: the directory is removed, which may fail and turn the answer into an error.
Finish(c, s, there) ==
  \/ /\ Answer(c, s)
     /\ dir' = [dir EXCEPT ![c] = FALSE] /\ UNCHANGED stuck
  \/ /\ there
     /\ Answer(c, 500)
     /\ dir' = [dir EXCEPT ![c] = TRUE] /\ stuck' = [stuck EXCEPT ![c] = TRUE]

\* mkdtemp fails before the try; a write that fails, or a spawn that throws, is inside it.
NoChild(c) ==
  /\ server = "up" /\ st[c] = "reading"
  /\ \E made \in BOOLEAN : Finish(c, 500, made)
  /\ UNCHANGED <<conf, req, process>>

Spawn(c) ==
  /\ server = "up" /\ st[c] = "reading"
  /\ dir' = [dir EXCEPT ![c] = TRUE]
  /\ \E born \in {"running", "stillborn"} : child' = [child EXCEPT ![c] = born]
  /\ timer' = [timer EXCEPT ![c] = TRUE]
  /\ st' = [st EXCEPT ![c] = "waiting"]
  /\ UNCHANGED <<conf, req, status, code, killed, stuck>>

-------------------------------------------------------------------------------
(***************************************************************************)
(* The events of a child.                                                  *)
(***************************************************************************)
\* A promise settles once: a later resolve or reject does nothing.
Settle(c, s) ==
  IF st[c] = "waiting" THEN Finish(c, s, TRUE) ELSE UNCHANGED <<st, status, dir, stuck>>

\* kill('SIGKILL') of a child that is gone does nothing.
Kill(c) ==
  /\ killed' = [killed EXCEPT ![c] = TRUE]
  /\ child' = [child EXCEPT ![c] = IF @ = "running" THEN "signalled" ELSE @]

Timeout(c) ==
  /\ server = "up" /\ timer[c]
  /\ timer' = [timer EXCEPT ![c] = FALSE]
  /\ Kill(c) /\ Settle(c, 500)
  /\ UNCHANGED <<conf, req, code>>

\* A data event on stdout beyond the cap. stderr is cut, not fatal.
OutputTooLarge(c) ==
  /\ server = "up" /\ child[c] \in {"running", "signalled", "exited"} /\ ~killed[c]
  /\ Kill(c) /\ Settle(c, 500)
  /\ UNCHANGED <<conf, req, code, timer>>

\* Mutant: the error event stops the timer and leaves the promise.
SpawnErrorIgnored(c) ==
  /\ server = "up" /\ child[c] = "stillborn" /\ timer[c]
  /\ timer' = [timer EXCEPT ![c] = FALSE]
  /\ UNCHANGED <<conf, req, st, status, child, code, killed, dir, stuck>>

\* The error event: the child could not be started.
SpawnError(c) ==
  /\ server = "up" /\ child[c] = "stillborn" /\ timer[c]
  /\ timer' = [timer EXCEPT ![c] = FALSE]
  /\ Settle(c, 500)
  /\ UNCHANGED <<conf, req, child, code, killed>>

\* What the routes make of an exit code. sign also wants hex on stdout.
Verdicts(c, exit) ==
  CASE exit = 0 -> IF c \in Sign THEN {200, 500} ELSE {200}
    [] exit = 2 -> IF c \in Sign THEN {500} ELSE {200}
    [] OTHER    -> {500}

Closed(c) ==
  /\ server = "up" /\ child[c] = "exited"
  /\ child' = [child EXCEPT ![c] = "none"]
  /\ timer' = [timer EXCEPT ![c] = FALSE]
  /\ IF killed[c] THEN UNCHANGED <<st, status, dir, stuck>>
                  ELSE \E s \in Verdicts(c, code[c]) : Settle(c, s)
  /\ UNCHANGED <<conf, req, code, killed>>

-------------------------------------------------------------------------------
(***************************************************************************)
(* The operating system.                                                   *)
(***************************************************************************)
\* How qv-cli ends by itself: with 0, with 2 for a signature that is not valid, or in
\* main's exit(1) or a panic. QV_CLI_BIN may name another program: any other code counts
\* as an error too. A plain build ends with 2 for a command it does not know.
SignExits   == IF FindQvCli = "plain" THEN {2} ELSE {0, -1}
VerifyExits == IF FindQvCli = "plain" THEN {2} ELSE {0, 2, -1}

\* It ends so, is killed by somebody else, or dies of the signal. It outlives a server
\* that dies.
ChildExits(c) ==
  /\ child' = [child EXCEPT ![c] = "exited"]
  /\ \/ /\ child[c] = "running"
        /\ \E k \in (IF c \in Sign THEN SignExits ELSE VerifyExits) : code' = [code EXCEPT ![c] = k]
     \/ child[c] = "signalled" /\ code' = [code EXCEPT ![c] = -1]
  /\ UNCHANGED <<conf, req, st, status, killed, timer, dir, stuck>>

Die ==
  /\ server = "up"
  /\ server' = "dead"
  /\ timer' = [c \in Call |-> FALSE]
  /\ UNCHANGED <<env, req, st, status, child, code, killed, dir, stuck>>

Later(c) ==
  \/ Arrive(c) \/ BodyThrows(c) \/ BadFields(c) \/ NoChild(c) \/ Spawn(c)
  \/ Timeout(c) \/ OutputTooLarge(c) \/ SpawnError(c) \/ Closed(c) \/ ChildExits(c)

BridgeNext ==
  \/ (Boot \/ Die \/ \E c \in Call : Later(c)) /\ UNCHANGED headers
  \/ \E c \in Call : Dispatch(c)

BridgeSpec == BridgeInit /\ [][BridgeNext]_bridgeVars

\* The clock runs, the loop runs what is due, and a child that got SIGKILL ends. A child
\* need not end by itself, and a client need not send its body.
BridgeFairness == \A c \in Call :
  /\ WF_bridgeVars(Dispatch(c)) /\ WF_bridgeVars(Timeout(c) /\ UNCHANGED headers)
  /\ WF_bridgeVars((SpawnError(c) \/ Closed(c)) /\ UNCHANGED headers)
  /\ WF_bridgeVars(child[c] = "signalled" /\ ChildExits(c) /\ UNCHANGED headers)

BridgeFairSpec == BridgeSpec /\ BridgeFairness

-------------------------------------------------------------------------------
BridgeTypeOK ==
  /\ env \in Envs /\ server \in {"booting", "up", "refused", "dead"}
  /\ \A c \in Call : req[c] \in Requests[c] \cup {NoRequest}
  /\ st \in [Call -> {"idle", "gates", "reading", "waiting", "done"}]
  /\ status \in [Call -> {0, 200, 204, 400, 401, 403, 404, 429, 500, 503}]
  /\ child \in [Call -> {"none", "stillborn", "running", "signalled", "exited"}]
  /\ code \in [Call -> {-1, 0, 2}]
  /\ killed \in [Call -> BOOLEAN] /\ timer \in [Call -> BOOLEAN]
  /\ dir \in [Call -> BOOLEAN] /\ stuck \in [Call -> BOOLEAN]

\* A sign request reaches its handler only from an address that lies in one of the
\* ranges, taken as intervals of numbers, with the one secret the operator has set, and
\* is told 403 or 401 only when it misses the one or the other (cidrGate and requireAdmin
\* of server-sovereign.mjs, matchesAny of cidr.mjs, checkAdmin of auth.mjs).
AdmittedRightly == \A c \in Sign :
  /\ st[c] \in {"reading", "waiting"} \/ status[c] \in {200, 400, 500, 503} =>
       Allowed(req[c], env.cidrs) /\ Authorised(req[c], env)
  /\ status[c] = 403 => ~Allowed(req[c], env.cidrs)
  /\ status[c] = 401 => Allowed(req[c], env.cidrs) /\ ~Authorised(req[c], env)

\* Every answer carries the fixed headers and HSTS as configured. It allows the origin
\* that asked only when that is one of those configured, every origin only when "*" is,
\* and never every origin with credentials (loadCorsConfig and applyCors of security.mjs).
CorsConfined == \A c \in Call : status[c] # 0 =>
  LET h == headers[c] IN
  /\ h.security = Always \cup {"hsts" : x \in {env.hsts} \cap {"on"}}
  /\ h.origin \in {"", "*", req[c].origin} /\ (h.origin # "" => h.origin \in Range(env.origins))
  /\ h.credentials => h.origin \notin {"", "*"}

\* A call that has been answered leaves nothing behind, whichever of the child's events
\* came first: no key on disk, unless removing it failed, and no child running on. While
\* the call waits its files are there (falconSign's finally, runChild's kill).
NothingLeftBehind == \A c \in Call :
  /\ dir[c] => st[c] = "waiting" \/ stuck[c]
  /\ st[c] = "waiting" => dir[c]
  /\ child[c] = "running" => st[c] = "waiting"

\* A call that waits for its child is answered, and its child ends, whatever the child
\* does, unless the server dies (runChild's timer).
Answered == \A c \in Call :
  (st[c] = "waiting" \/ child[c] \in {"running", "signalled"}) ~>
    (server = "dead" \/ (st[c] = "done" /\ child[c] \notin {"running", "signalled"}))
===============================================================================
