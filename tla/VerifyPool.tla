------------------------------ MODULE VerifyPool ------------------------------
(***************************************************************************)
(* The verify pool (verify-pool.mjs, verify-worker.mjs) under its one      *)
(* caller, POST /v3/token/batch-verify.                                    *)
(*                                                                         *)
(* Worker threads run beside the main thread. The main thread runs one     *)
(* turn at a time: a batch handler up to its await (todo # <<>> marks that *)
(* turn), a message event, an error event, or the end of shutdown(). With  *)
(* affinity on, a job waits for the worker its keyId hashes to; with it    *)
(* off, jobs wait in one queue for any worker. A worker that died is not   *)
(* replaced.                                                               *)
(***************************************************************************)
EXTENDS Integers, Sequences, FiniteSetsExt

CONSTANTS Size,      \* worker threads
          Jobs,      \* bounds the model: items over all batches
          MaxBatch,  \* bounds the model: items of one batch (256 in the code)
          QueueMax,  \* QV_VERIFY_QUEUE_MAX
          MaxDeaths  \* bounds the model: workers that die

ASSUME BoundsAssumption ==
  /\ Size \in Nat \ {0} /\ QueueMax \in Nat \ {0}
  /\ Jobs \in Nat /\ MaxBatch \in Nat /\ MaxDeaths \in Nat

Worker == 0..(Size - 1)
Job    == 1..Jobs
PerQueueMax == (QueueMax + Size - 1) \div Size  \* the ceiling; at least 1

VARIABLES
  affinity, \* QV_VERIFY_AFFINITY
  home,     \* home[j]: murmur3_32(keyId) % size, for the key of job j
  idle,     \* the stack of idle workers (affinity off)
  queue,    \* the shared queue (affinity off)
  queues,   \* queues[w]: the queue of worker w (affinity on)
  busy,     \* busy[w] (affinity on)
  worker,   \* "alive", "dying" (its error event is due), "dead"
  st,       \* the state of each job
  on,       \* on[j]: the worker j was posted to
  phase,    \* "open", "terminating" (shutdown awaits its workers), "down"
  next,     \* the next item to arrive
  todo      \* items the running batch handler has yet to hand to run()

env  == <<affinity, home>>
pool == <<idle, queue, queues, busy>>
vars == <<env, pool, worker, st, on, phase, next, todo>>

Pending   == {"running", "replied"}  \* in the pending map
Answers   == {"ok", "refused", "overloaded", "worker_error", "shutdown"}
JobStates == {"new", "todo", "queued"} \cup Pending \cup Answers

Init ==
  /\ affinity \in BOOLEAN
  /\ home \in [Job -> Worker]
  /\ idle = IF affinity THEN <<>> ELSE [i \in 1..Size |-> i - 1]
  /\ queue = <<>>
  /\ queues = [w \in Worker |-> <<>>]
  /\ busy   = [w \in Worker |-> FALSE]
  /\ worker = [w \in Worker |-> "alive"]
  /\ st = [j \in Job |-> "new"]
  /\ on = home  \* no meaning before the job is posted
  /\ phase = "open"
  /\ next = 1
  /\ todo = <<>>

-------------------------------------------------------------------------------
(***************************************************************************)
(* The batch handler. Its admission check, and then run() for every item,  *)
(* are one turn: no message or error event comes between.                  *)
(***************************************************************************)
QueueDepth == IF affinity THEN MapThenSumSet(LAMBDA w : Len(queues[w]), Worker)
                          ELSE Len(queue)
Fits(n)    == n <= QueueMax - QueueDepth + Size
Items(n)   == next..(next + n - 1)
Mark(S, s) == st' = [j \in Job |-> IF j \in S THEN s ELSE st[j]]

Arrives(n) ==
  /\ todo = <<>>
  /\ Items(n) \subseteq Job
  /\ next' = next + n
  /\ UNCHANGED <<env, pool, worker, on, phase>>

BatchAdmitted(n) ==
  /\ Arrives(n)
  /\ Fits(n)
  /\ Mark(Items(n), "todo")
  /\ todo' = [i \in 1..n |-> next + i - 1]

\* 503 POOL_OVERLOADED for the whole batch.
BatchRefused(n) ==
  /\ Arrives(n)
  /\ ~Fits(n)
  /\ Mark(Items(n), "refused")
  /\ UNCHANGED todo

Item == Head(todo)
NextItem ==
  /\ todo # <<>>
  /\ todo' = Tail(todo)
  /\ UNCHANGED <<env, worker, phase, next>>

\* After shutdown there are no worker slots, no idle workers and no queues.
Slots == phase # "down"

\* _dispatch: into the pending map and to the worker, be it alive or dead.
Post(j, w) ==
  /\ st' = [st EXCEPT ![j] = "running"]
  /\ on' = [on EXCEPT ![j] = w]

RunOnIdle ==
  /\ NextItem
  /\ ~affinity /\ idle # <<>>
  /\ idle' = SubSeq(idle, 1, Len(idle) - 1)
  /\ Post(Item, idle[Len(idle)])
  /\ UNCHANGED <<queue, queues, busy>>

\* Mutant: a worker is not marked busy with the job it is given.
RunOnHomeUnmarked ==
  /\ NextItem
  /\ affinity /\ Slots /\ ~busy[home[Item]]
  /\ Post(Item, home[Item])
  /\ UNCHANGED pool

RunOnHome ==
  /\ NextItem
  /\ affinity /\ Slots /\ ~busy[home[Item]]
  /\ busy' = [busy EXCEPT ![home[Item]] = TRUE]
  /\ Post(Item, home[Item])
  /\ UNCHANGED <<idle, queue, queues>>

\* Mutants: off by one at the limit.
HasRoomOneMore ==
  IF affinity THEN Slots /\ Len(queues[home[Item]]) <= PerQueueMax
              ELSE Len(queue) <= QueueMax

HasRoom == IF affinity THEN Slots /\ Len(queues[home[Item]]) < PerQueueMax
                       ELSE Len(queue) < QueueMax
MustWait == IF affinity THEN Slots => busy[home[Item]] ELSE idle = <<>>

RunQueues ==
  /\ NextItem
  /\ MustWait /\ HasRoom
  /\ IF affinity
       THEN /\ queues' = [queues EXCEPT ![home[Item]] = Append(@, Item)]
            /\ UNCHANGED queue
       ELSE /\ queue' = Append(queue, Item)
            /\ UNCHANGED queues
  /\ st' = [st EXCEPT ![Item] = "queued"]
  /\ UNCHANGED <<idle, busy, on>>

RunOverloaded ==
  /\ NextItem
  /\ MustWait /\ ~HasRoom
  /\ st' = [st EXCEPT ![Item] = "overloaded"]
  /\ UNCHANGED <<pool, on>>

Turn == RunOnIdle \/ RunOnHome \/ RunQueues \/ RunOverloaded

-------------------------------------------------------------------------------
(***************************************************************************)
(* A worker takes the one job it was posted and replies, or dies on it.    *)
(***************************************************************************)
Works(w, j) ==
  /\ worker[w] = "alive" /\ phase # "down"
  /\ st[j] = "running" /\ on[j] = w
  /\ UNCHANGED <<env, pool, on, phase, next, todo>>

WorkerReplies(w, j) ==
  /\ Works(w, j)
  /\ st' = [st EXCEPT ![j] = "replied"]
  /\ UNCHANGED worker

WorkerDies(w, j) ==
  /\ Works(w, j)
  /\ phase = "open"
  /\ Cardinality({v \in Worker : worker[v] # "alive"}) < MaxDeaths
  /\ worker' = [worker EXCEPT ![w] = "dying"]
  /\ UNCHANGED st

\* _release: the next job of w's queue, or of the shared queue, goes to w.
LineOf(w) == IF affinity THEN queues[w] ELSE queue
Release(w, answered) ==
  IF LineOf(w) # <<>>
    THEN /\ queues' = IF affinity THEN [queues EXCEPT ![w] = Tail(@)] ELSE queues
         /\ queue'  = IF affinity THEN queue ELSE Tail(queue)
         /\ st' = [answered EXCEPT ![Head(LineOf(w))] = "running"]
         /\ on' = [on EXCEPT ![Head(LineOf(w))] = w]
         /\ UNCHANGED <<idle, busy>>
    ELSE /\ busy' = IF affinity THEN [busy EXCEPT ![w] = FALSE] ELSE busy
         /\ idle' = IF affinity THEN idle ELSE Append(idle, w)
         /\ st' = answered
         /\ UNCHANGED <<queue, queues, on>>

\* Mutant: the worker of an answered job stays where it is.
MessageKeepsWorker(j) ==
  /\ todo = <<>> /\ phase # "down"
  /\ st[j] = "replied"
  /\ st' = [st EXCEPT ![j] = "ok"]
  /\ UNCHANGED <<env, pool, worker, on, phase, next, todo>>

\* The message event: resolve the job's promise and release its worker.
Message(j) ==
  /\ todo = <<>> /\ phase # "down"
  /\ st[j] = "replied"
  /\ Release(on[j], [st EXCEPT ![j] = "ok"])
  /\ UNCHANGED <<env, worker, phase, next, todo>>

PendingOn(w) == {j \in Job : st[j] \in Pending /\ on[j] = w}
QueuedAt(w)  == {j \in Job : st[j] = "queued" /\ affinity /\ home[j] = w}

\* The error event: its pending job and, with affinity, its queue fail.
WorkerError(w) ==
  /\ todo = <<>> /\ phase # "down"
  /\ worker[w] = "dying"
  /\ worker' = [worker EXCEPT ![w] = "dead"]
  /\ Mark(PendingOn(w) \cup QueuedAt(w), "worker_error")
  /\ queues' = [queues EXCEPT ![w] = <<>>]
  /\ busy'   = [busy EXCEPT ![w] = FALSE]
  /\ UNCHANGED <<env, idle, queue, on, phase, next, todo>>

-------------------------------------------------------------------------------
\* shutdown(): terminate every worker, and when that resolved answer what is left.
Terminate ==
  /\ todo = <<>> /\ phase = "open"
  /\ phase' = "terminating"
  /\ UNCHANGED <<env, pool, worker, st, on, next, todo>>

\* Mutant: only the queues are drained.
DrainQueued ==
  /\ todo = <<>> /\ phase = "terminating"
  /\ phase' = "down"
  /\ Mark({j \in Job : st[j] = "queued"}, "shutdown")
  /\ idle' = <<>> /\ queue' = <<>>
  /\ queues' = [w \in Worker |-> <<>>]
  /\ busy'   = [w \in Worker |-> FALSE]
  /\ UNCHANGED <<env, worker, on, next, todo>>

Drain ==
  /\ todo = <<>> /\ phase = "terminating"
  /\ phase' = "down"
  /\ Mark({j \in Job : st[j] \in Pending \cup {"queued"}}, "shutdown")
  /\ idle' = <<>> /\ queue' = <<>>
  /\ queues' = [w \in Worker |-> <<>>]
  /\ busy'   = [w \in Worker |-> FALSE]
  /\ UNCHANGED <<env, worker, on, next, todo>>

-------------------------------------------------------------------------------
Next ==
  \/ \E n \in 1..MaxBatch : BatchAdmitted(n) \/ BatchRefused(n)
  \/ Turn
  \/ \E w \in Worker, j \in Job : WorkerReplies(w, j) \/ WorkerDies(w, j)
  \/ \E j \in Job : Message(j)
  \/ \E w \in Worker : WorkerError(w)
  \/ Terminate \/ Drain

(***************************************************************************)
(* Fairness: the event loop runs turns and delivers events, a worker that  *)
(* does not die replies, and terminate() resolves.                         *)
(***************************************************************************)
Fairness ==
  /\ WF_vars(Turn) /\ WF_vars(Drain)
  /\ \A j \in Job : WF_vars(Message(j))
  /\ \A w \in Worker : WF_vars(WorkerError(w))
  /\ \A w \in Worker, j \in Job : WF_vars(WorkerReplies(w, j))

Spec     == Init /\ [][Next]_vars
FairSpec == Spec /\ Fairness

-------------------------------------------------------------------------------
\* Type invariant: every variable holds what its declaration says.
TypeOK ==
  /\ affinity \in BOOLEAN
  /\ home \in [Job -> Worker] /\ on \in [Job -> Worker]
  /\ idle \in Seq(Worker)
  /\ queue \in Seq(Job)
  /\ queues \in [Worker -> Seq(Job)]
  /\ busy \in [Worker -> BOOLEAN]
  /\ worker \in [Worker -> {"alive", "dying", "dead"}]
  /\ st \in [Job -> JobStates]
  /\ phase \in {"open", "terminating", "down"}
  /\ next \in Nat
  /\ todo \in Seq(Job)

\* A worker is never posted a second job before its first one was answered, over
\* replies, deaths, drained queues and shutdown.
OneJobEach == \A w \in Worker : Cardinality(PendingOn(w)) <= 1

\* No worker is forgotten: one that lives is idle or at work, and no job waits
\* behind an idle one.
NoWorkerForgotten ==
  phase # "down" =>
    \A w \in Worker : worker[w] = "alive" =>
      IF affinity
        THEN (busy[w] <=> PendingOn(w) # {}) /\ (queues[w] # <<>> => busy[w])
        ELSE /\ (\E i \in DOMAIN idle : idle[i] = w) <=> PendingOn(w) = {}
             /\ queue # <<>> => idle = <<>>

\* A job waits in one place only, and the queues keep to their limits.
Spot    == Worker \cup {-1}  \* the queue of a worker, and the shared one
Line(l) == IF l = -1 THEN queue ELSE queues[l]
Places(j) == UNION {{<<l, i>> : i \in {k \in DOMAIN Line(l) : Line(l)[k] = j}} : l \in Spot}
QueuesAreExact ==
  /\ \A j \in Job : Cardinality(Places(j)) = (IF st[j] = "queued" THEN 1 ELSE 0)
  /\ Len(queue) <= QueueMax
  /\ \A w \in Worker : Len(queues[w]) <= PerQueueMax

\* A job the pool accepted is answered, unless it depends on a worker that died
\* earlier (nothing replaces it) or was queued after shutdown emptied the pool.
Stranded(j) ==
  \/ st[j] = "running" /\ worker[on[j]] = "dead"
  \/ st[j] = "queued" /\ affinity /\ worker[home[j]] = "dead"
  \/ st[j] = "queued" /\ ~affinity /\ \A w \in Worker : worker[w] = "dead"
  \/ st[j] = "queued" /\ phase = "down"
Answered == \A j \in Job : st[j] \in {"todo", "queued", "running", "replied"} ~>
                             (st[j] \in Answers \/ Stranded(j))

-------------------------------------------------------------------------------
\* server-sovereign.mjs: a batch that would push the queue past its bound fails
\* as a whole, so an item of a batch that was admitted is not refused. Not so: the check
\* counts busy workers as free. No run checks it.
\* (With affinity on, the queue of one key's worker may be full on its own.)
AdmittedBatchFits ==
  phase = "open" /\ ~affinity => \A j \in Job : st[j] # "overloaded"
===============================================================================
