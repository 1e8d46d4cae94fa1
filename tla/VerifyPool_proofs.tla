--------------------------- MODULE VerifyPool_proofs ---------------------------
(* Theorems about VerifyPool: types, one job per worker, no worker forgotten,  *)
(* every waiting job in one place.                                             *)
EXTENDS VerifyPool, FiniteSetTheorems, SequenceTheorems, TLAPS

-------------------------------------------------------------------------------
(* The inductive invariant.                                                  *)

\* Each mode leaves the other's queues alone, and the end of shutdown idles no worker.
Modes ==
  /\ affinity => idle = <<>> /\ queue = <<>>
  /\ ~affinity => \A w \in Worker : queues[w] = <<>> /\ ~busy[w]
  /\ phase = "down" => idle = <<>>

\* The items of the running handler are new to the pool, each once; later items are new.
Handed ==
  /\ \A i \in 1..Len(todo) : st[todo[i]] = "todo"
  /\ \A i, k \in 1..Len(todo) : todo[i] = todo[k] => i = k
  /\ \A j \in Job : j >= next => st[j] = "new"

\* In the lines Q wait the jobs that s calls queued, each once.
Exact(Q, s) ==
  /\ \A l \in Spot : \A i \in 1..Len(Q[l]) : s[Q[l][i]] = "queued"
  /\ \A l, m \in Spot : \A i \in 1..Len(Q[l]), k \in 1..Len(Q[m]) :
       Q[l][i] = Q[m][k] => l = m /\ i = k
  /\ \A j \in Job : s[j] = "queued" => \E l \in Spot : \E i \in 1..Len(Q[l]) : Q[l][i] = j

Lines == [l \in Spot |-> Line(l)]

\* With affinity a job waits at the worker of its key. The lines keep to their limits.
Limits ==
  /\ \A w \in Worker : \A i \in 1..Len(queues[w]) : home[queues[w][i]] = w
  /\ Len(queue) <= QueueMax
  /\ \A w \in Worker : Len(queues[w]) <= PerQueueMax

OnePending ==
  \A i, j \in Job : st[i] \in Pending /\ st[j] \in Pending /\ on[i] = on[j] => i = j

\* A worker slot is busy while a job is posted to it.
MannedByKey ==
  affinity /\ phase # "down" =>
    \A w \in Worker : (busy[w] <=> PendingOn(w) # {}) /\ (queues[w] # <<>> => busy[w])

\* The idle stack holds workers without a job, each once, and all that live.
MannedByStack ==
  ~affinity =>
    /\ \A i, k \in 1..Len(idle) : idle[i] = idle[k] => i = k
    /\ \A i \in 1..Len(idle), j \in Job : st[j] \in Pending => on[j] # idle[i]
    /\ phase # "down" =>
         /\ \A w \in Worker : worker[w] = "alive" /\ PendingOn(w) = {} =>
              \E i \in 1..Len(idle) : idle[i] = w
         /\ queue # <<>> => idle = <<>>

IInv == /\ TypeOK /\ Modes /\ Handed /\ Exact(Lines, st) /\ Limits
        /\ OnePending /\ MannedByKey /\ MannedByStack

-------------------------------------------------------------------------------
(* Lines: what waits in them after a step.                                   *)

LEMMA LimitFacts == /\ QueueMax \in Nat \ {0} /\ Size \in Nat \ {0} /\ Jobs \in Nat
                    /\ PerQueueMax \in Int /\ PerQueueMax >= 0 /\ -1 \notin Worker
<1>1. QueueMax + Size - 1 \in Nat /\ Size \in Nat /\ Size > 0  BY BoundsAssumption
<1>2. ASSUME NEW n \in Nat, NEW d \in Nat, d > 0 PROVE n \div d \in Int /\ n \div d >= 0
  BY <1>2
<1> QED BY <1>1, <1>2, BoundsAssumption DEF PerQueueMax, Worker

LEMMA LinesType ==
  ASSUME TypeOK
  PROVE  Lines \in [Spot -> Seq(Job)] /\ \A w \in Worker : Lines[w] = queues[w] /\ Lines[-1] = queue
BY LimitFacts DEF TypeOK, Lines, Line, Spot

\* A job that waited nowhere joins the end of a line.
LEMMA ExactAppend ==
  ASSUME NEW Q \in [Spot -> Seq(Job)], NEW s \in [Job -> JobStates], Exact(Q, s),
         NEW l \in Spot, NEW j \in Job, s[j] # "queued"
  PROVE  Exact([Q EXCEPT ![l] = Append(@, j)], [s EXCEPT ![j] = "queued"])
<1> DEFINE R == [Q EXCEPT ![l] = Append(@, j)]
           t == [s EXCEPT ![j] = "queued"]
<1>1. /\ \A m \in Spot : m # l => R[m] = Q[m]
      /\ Len(R[l]) = Len(Q[l]) + 1 /\ R[l][Len(Q[l]) + 1] = j
      /\ \A i \in 1..Len(Q[l]) : R[l][i] = Q[l][i]
      /\ \A m \in Spot : Len(Q[m]) \in Nat
      /\ \A m \in Spot : \A i \in 1..Len(Q[m]) : Q[m][i] \in Job /\ Q[m][i] # j
  BY ElementOfSeq, LenProperties DEF Exact
<1>2. \A i \in Job : t[i] = IF i = j THEN "queued" ELSE s[i]
  OBVIOUS
<1>3. \A m \in Spot : \A i \in 1..Len(R[m]) : t[R[m][i]] = "queued"
  BY <1>1, <1>2 DEF Exact
<1>4. \A m, n \in Spot : \A i \in 1..Len(R[m]), k \in 1..Len(R[n]) :
        R[m][i] = R[n][k] => m = n /\ i = k
  <2> HIDE DEF R
  <2>1. SUFFICES ASSUME NEW m \in Spot, NEW n \in Spot, NEW i \in 1..Len(R[m]),
                        NEW k \in 1..Len(R[n]), R[m][i] = R[n][k]
                 PROVE  m = n /\ i = k
    OBVIOUS
  <2>2. \/ i \in 1..Len(Q[m]) /\ R[m][i] = Q[m][i]
        \/ m = l /\ i = Len(Q[l]) + 1 /\ R[m][i] = j
    BY <1>1
  <2>3. \/ k \in 1..Len(Q[n]) /\ R[n][k] = Q[n][k]
        \/ n = l /\ k = Len(Q[l]) + 1 /\ R[n][k] = j
    BY <1>1
  <2> QED BY <1>1, <2>1, <2>2, <2>3 DEF Exact
<1>5. ASSUME NEW i \in Job, t[i] = "queued"
      PROVE  \E m \in Spot : \E k \in 1..Len(R[m]) : R[m][k] = i
  <2>1. CASE i = j
    BY <2>1, <1>1
  <2>2. CASE i # j
    <3>1. PICK m \in Spot, k \in Nat : k \in 1..Len(Q[m]) /\ Q[m][k] = i
      BY <1>2, <1>5, <2>2 DEF Exact
    <3>2. k \in 1..Len(R[m]) /\ R[m][k] = i
      BY <1>1, <3>1
    <3> QED BY <3>2
  <2> QED BY <2>1, <2>2
<1> HIDE DEF R, t
<1>6. Exact(R, t)  BY <1>3, <1>4, <1>5 DEF Exact
<1> QED BY <1>6 DEF R, t

\* The first job of a line leaves it and is queued no more.
LEMMA ExactTail ==
  ASSUME NEW Q \in [Spot -> Seq(Job)], NEW s \in [Job -> JobStates], Exact(Q, s),
         NEW l \in Spot, Q[l] # <<>>,
         NEW R \in [Spot -> Seq(Job)], R[l] = Tail(Q[l]), \A m \in Spot : m # l => R[m] = Q[m],
         NEW t \in [Job -> JobStates], NEW h \in Job, h = Q[l][1],
         \A i \in Job : t[i] = "queued" <=> (s[i] = "queued" /\ i # h)
  PROVE  Exact(R, t)
<1>1. /\ \A m \in Spot : m # l => R[m] = Q[m]
      /\ Len(Q[l]) \in Nat \ {0} /\ Head(Q[l]) = Q[l][1]
      /\ Len(R[l]) = Len(Q[l]) - 1
      /\ \A i \in 1..Len(R[l]) : R[l][i] = Q[l][i + 1] /\ i + 1 \in 1..Len(Q[l])
      /\ \A m \in Spot : Len(Q[m]) \in Nat
      /\ \A m \in Spot : \A i \in 1..Len(Q[m]) : Q[m][i] \in Job
  BY ElementOfSeq, LenProperties, EmptySeq, HeadTailProperties
<1>2. /\ \A m, n \in Spot : \A i \in 1..Len(Q[m]), k \in 1..Len(Q[n]) :
           Q[m][i] = Q[n][k] => m = n /\ i = k
      /\ \A m \in Spot : \A i \in 1..Len(Q[m]) : s[Q[m][i]] = "queued"
      /\ \A m \in Spot : \A i \in 1..Len(Q[m]) : Q[m][i] # Q[l][1] => t[Q[m][i]] = "queued"
      /\ \A i \in Job : t[i] = "queued" => s[i] = "queued" /\ i # Q[l][1]
      /\ 1 \in 1..Len(Q[l])
  <2>1. 1 \in 1..Len(Q[l])  BY <1>1
  <2>2. \A i \in Job : t[i] = "queued" <=> (s[i] = "queued" /\ i # Q[l][1])  OBVIOUS
  <2>3. /\ \A m, n \in Spot : \A i \in 1..Len(Q[m]), k \in 1..Len(Q[n]) :
             Q[m][i] = Q[n][k] => m = n /\ i = k
        /\ \A m \in Spot : \A i \in 1..Len(Q[m]) : s[Q[m][i]] = "queued"
    BY DEF Exact
  <2>4. \A m \in Spot : \A i \in 1..Len(Q[m]) : Q[m][i] # Q[l][1] => t[Q[m][i]] = "queued"
    BY <1>1, <2>2, <2>3
  <2> QED BY <2>1, <2>2, <2>3, <2>4
<1>3. ASSUME NEW m \in Spot, NEW i \in 1..Len(R[m])
      PROVE  \E k \in 1..Len(Q[m]) : /\ k = IF m = l THEN i + 1 ELSE i
                                     /\ R[m][i] = Q[m][k] /\ Q[m][k] # Q[l][1]
  <2>1. CASE m = l
    <3>1. i + 1 \in 1..Len(Q[l]) /\ R[l][i] = Q[l][i + 1]  BY <1>1, <2>1
    <3>2. i + 1 # 1  OBVIOUS
    <3>3. Q[l][i + 1] # Q[l][1]  BY <1>2, <3>1, <3>2
    <3> QED BY <2>1, <3>1, <3>3
  <2>2. CASE m # l
    <3>1. i \in 1..Len(Q[m]) /\ R[m][i] = Q[m][i]
      BY <1>1, <2>2
    <3>2. Q[m][i] # Q[l][1]
      BY <1>2, <2>2, <3>1
    <3> QED BY <2>2, <3>1, <3>2
  <2> QED BY <2>1, <2>2
<1>4. /\ \A m \in Spot : \A i \in 1..Len(R[m]) : t[R[m][i]] = "queued"
      /\ \A m, n \in Spot : \A i \in 1..Len(R[m]), k \in 1..Len(R[n]) :
           R[m][i] = R[n][k] => m = n /\ i = k
  <2>1. \A m \in Spot : \A i \in 1..Len(R[m]) : t[R[m][i]] = "queued"
    BY <1>2, <1>3
  <2>2. ASSUME NEW m \in Spot, NEW n \in Spot, NEW i \in 1..Len(R[m]), NEW k \in 1..Len(R[n]),
               R[m][i] = R[n][k]
        PROVE  m = n /\ i = k
    <3>1. PICK a \in 1..Len(Q[m]) : (a = IF m = l THEN i + 1 ELSE i) /\ R[m][i] = Q[m][a]
      BY <1>3
    <3>2. PICK b \in 1..Len(Q[n]) : (b = IF n = l THEN k + 1 ELSE k) /\ R[n][k] = Q[n][b]
      BY <1>3
    <3>3. Q[m][a] = Q[n][b]  BY <2>2, <3>1, <3>2
    <3>4. m = n /\ a = b  BY <1>2, <3>3
    <3> QED BY <3>1, <3>2, <3>4
  <2> QED BY <2>1, <2>2
<1>5. ASSUME NEW i \in Job, t[i] = "queued"
      PROVE  \E m \in Spot : \E k \in 1..Len(R[m]) : R[m][k] = i
  <2>1. PICK m \in Spot, k \in Nat : k \in 1..Len(Q[m]) /\ Q[m][k] = i
    BY <1>1, <1>2, <1>5 DEF Exact
  <2>2. CASE m = l
    <3>1. k # 1
      <4>1. Q[l][k] # Q[l][1]  BY <1>2, <1>5, <2>1, <2>2
      <4> QED BY <4>1
    <3>2. k - 1 \in 1..Len(R[l]) /\ (k - 1) + 1 = k  BY <1>1, <2>1, <2>2, <3>1
    <3>3. R[l][k - 1] = Q[l][(k - 1) + 1]  BY <1>1, <3>2
    <3>4. R[m][k - 1] = i  BY <2>1, <2>2, <3>2, <3>3
    <3> QED BY <2>2, <3>2, <3>4
  <2>3. CASE m # l
    BY <1>1, <2>1, <2>3
  <2> QED BY <2>2, <2>3
<1> QED BY <1>4, <1>5 DEF Exact

\* Some lines are emptied and their jobs are queued no more.
LEMMA ExactClear ==
  ASSUME NEW Q \in [Spot -> Seq(Job)], NEW s, Exact(Q, s), NEW R \in [Spot -> Seq(Job)], NEW t,
         \A m \in Spot : R[m] = Q[m] \/ R[m] = <<>>,
         \A m \in Spot : \A i \in 1..Len(Q[m]) : t[Q[m][i]] = "queued" <=> R[m] = Q[m],
         \A j \in Job : t[j] = "queued" => s[j] = "queued"
  PROVE  Exact(R, t)
<1>1. ASSUME NEW m \in Spot, NEW i \in 1..Len(R[m])
      PROVE  R[m] = Q[m] /\ i \in 1..Len(Q[m])
  BY EmptySeq
<1>2. ASSUME NEW j \in Job, t[j] = "queued"
      PROVE  \E m \in Spot : \E k \in 1..Len(R[m]) : R[m][k] = j
  <2>1. PICK m \in Spot, k \in Nat : k \in 1..Len(Q[m]) /\ Q[m][k] = j
    BY <1>2 DEF Exact
  <2> QED BY <1>2, <2>1
<1>3. ASSUME NEW m \in Spot, NEW n \in Spot, NEW i \in 1..Len(R[m]), NEW k \in 1..Len(R[n]),
             R[m][i] = R[n][k]
      PROVE  m = n /\ i = k
  BY <1>1, <1>3 DEF Exact
<1>4. \A m \in Spot : \A i \in 1..Len(R[m]) : t[R[m][i]] = "queued"
  BY <1>1
<1> QED BY <1>2, <1>3, <1>4 DEF Exact

\* A step that moves no line and changes for no job whether it is queued.
LEMMA ExactSame ==
  ASSUME IInv, UNCHANGED <<queue, queues>>,
         \A j \in Job : st'[j] = "queued" <=> st[j] = "queued"
  PROVE  Exact(Lines, st)'
<1>1. Lines' = Lines /\ Lines \in [Spot -> Seq(Job)] /\ Exact(Lines, st)
  BY LinesType DEF IInv, Lines, Line
<1>2. \A m \in Spot : \A i \in 1..Len(Lines[m]) : Lines[m][i] \in Job /\ st[Lines[m][i]] = "queued"
  BY <1>1, ElementOfSeq DEF Exact
<1>3. Exact(Lines, st')
  BY <1>1, <1>2, ExactClear
<1> QED BY <1>1, <1>3

\* A step after which the same jobs are posted to the same workers.
LEMMA PendingSame ==
  ASSUME TypeOK, on' = on, \A j \in Job : st'[j] \in Pending <=> st[j] \in Pending
  PROVE  /\ \A w : PendingOn(w)' = PendingOn(w)
         /\ OnePending => OnePending'
<1>1. \A w : PendingOn(w)' = PendingOn(w)  BY DEF PendingOn
<1> QED BY <1>1 DEF OnePending

-------------------------------------------------------------------------------
(* The initial states.                                                       *)

LEMMA InitIInv == Init => IInv
<1> SUFFICES ASSUME Init PROVE IInv
  OBVIOUS
<1>1. idle \in Seq(Worker)
  <2>1. \A i \in 1..Size : i - 1 \in Worker  BY LimitFacts DEF Worker
  <2>2. [i \in 1..Size |-> i - 1] \in [1..Size -> Worker]  BY <2>1
  <2>3. [i \in 1..Size |-> i - 1] \in Seq(Worker)  BY <2>2, LimitFacts
  <2> QED BY <2>3 DEF Init
<1>2. TypeOK
  BY <1>1 DEF Init, TypeOK, JobStates
<1>3. Modes /\ Handed
  BY <1>2 DEF Init, Modes, Handed
<1>4. Exact(Lines, st)
  <2>1. \A l \in Spot : Lines[l] = <<>>  BY DEF Init, Lines, Line, Spot
  <2> QED BY <2>1 DEF Init, Exact
<1>5. Limits
  BY LimitFacts DEF Init, Limits
<1>6. \A w : PendingOn(w) = {}
  BY DEF Init, PendingOn, Pending
<1>7. OnePending /\ MannedByKey
  BY <1>6 DEF Init, OnePending, Pending, MannedByKey
<1>8. MannedByStack
  <2> SUFFICES ASSUME ~affinity PROVE MannedByStack
    BY DEF MannedByStack
  <2>1. idle = [i \in 1..Size |-> i - 1] /\ Len(idle) = Size
    BY <1>1, LimitFacts DEF Init
  <2>2. \A i, k \in 1..Len(idle) : idle[i] = idle[k] => i = k
    BY <2>1, LimitFacts
  <2>3. ASSUME NEW w \in Worker PROVE \E i \in 1..Len(idle) : idle[i] = w
    <3>1. w + 1 \in 1..Len(idle) /\ idle[w + 1] = w  BY <2>1, LimitFacts DEF Worker
    <3> QED BY <3>1
  <2>4. queue = <<>>  BY DEF Init
  <2>5. \A j \in Job : st[j] \notin Pending  BY DEF Init, Pending
  <2> QED BY <2>2, <2>3, <2>4, <2>5 DEF MannedByStack
<1> QED BY <1>2, <1>3, <1>4, <1>5, <1>7, <1>8 DEF IInv

-------------------------------------------------------------------------------
(* The batch handler.                                                        *)

LEMMA BatchStep ==
  ASSUME IInv, NEW n \in 1..MaxBatch, BatchAdmitted(n) \/ BatchRefused(n)
  PROVE  IInv'
<1> USE DEF IInv
<1>1. /\ todo = <<>> /\ Items(n) \subseteq Job /\ next' = next + n /\ next \in Nat /\ n \in Nat \ {0}
      /\ UNCHANGED <<env, pool, worker, on, phase>>
      /\ \A j \in Items(n) : j \in Job /\ st[j] = "new" /\ j < next + n
  BY BoundsAssumption DEF BatchAdmitted, BatchRefused, Arrives, Items, Handed, TypeOK
<1>2. PICK s \in {"todo", "refused"} : Mark(Items(n), s)
  BY DEF BatchAdmitted, BatchRefused
<1>3. \A j \in Job : st'[j] = IF j \in Items(n) THEN s ELSE st[j]
  BY <1>2 DEF Mark
<1>4. \/ todo' = [i \in 1..n |-> next + i - 1] /\ s = "todo"
      \/ todo' = <<>>
  <2>1. CASE BatchAdmitted(n)
    <3>1. todo' = [i \in 1..n |-> next + i - 1] /\ st' = [j \in Job |-> IF j \in Items(n) THEN "todo" ELSE st[j]]
      BY <2>1 DEF BatchAdmitted, Mark
    <3>2. next \in Items(n)  BY <1>1 DEF Items
    <3>3. s = "todo"  BY <1>1, <1>3, <3>1, <3>2
    <3> QED BY <3>1, <3>3
  <2>2. CASE BatchRefused(n)
    BY <1>1, <2>2 DEF BatchRefused
  <2> QED BY <2>1, <2>2
<1>5. todo' \in Seq(Job) /\ Handed'
  <2>1. \A j \in Job : j >= next' => st'[j] = "new"
    <3> SUFFICES ASSUME NEW j \in Job, j >= next' PROVE st'[j] = "new"
      OBVIOUS
    <3>1. j >= next /\ j \notin Items(n)  BY <1>1 DEF Items, Job
    <3> QED BY <1>3, <3>1 DEF Handed
  <2>2. CASE todo' = [i \in 1..n |-> next + i - 1] /\ s = "todo"
    <3>1. \A i \in 1..n : next + i - 1 \in Items(n)  BY <1>1 DEF Items
    <3>2. todo' \in [1..n -> Job]  BY <1>1, <2>2, <3>1
    <3>3. todo' \in Seq(Job) /\ Len(todo') = n  BY <1>1, <3>2
    <3>4. \A i \in 1..n : st'[todo'[i]] = "todo"
      BY <1>1, <1>3, <2>2, <3>1
    <3>5. \A i, k \in 1..n : todo'[i] = todo'[k] => i = k
      BY <1>1, <2>2
    <3> QED BY <2>1, <3>3, <3>4, <3>5 DEF Handed
  <2>3. CASE todo' = <<>>
    BY <2>1, <2>3 DEF Handed
  <2> QED BY <1>4, <2>2, <2>3
<1>6. TypeOK'
  <2>1. st' \in [Job -> JobStates]
    BY <1>2 DEF Mark, TypeOK, JobStates, Answers
  <2> QED BY <1>1, <1>5, <2>1 DEF TypeOK, env, pool
<1>7. \A j \in Job : /\ st'[j] = "queued" <=> st[j] = "queued"
                     /\ st'[j] \in Pending <=> st[j] \in Pending
  BY <1>1, <1>3 DEF Pending
<1>8. Exact(Lines, st)'
  BY <1>1, <1>7, ExactSame DEF pool
<1>9. (\A w : PendingOn(w)' = PendingOn(w)) /\ OnePending'
  BY <1>1, <1>7, PendingSame
<1>10. Modes' /\ Limits' /\ MannedByKey' /\ MannedByStack'
  BY <1>1, <1>7, <1>9 DEF Modes, Limits, MannedByKey, MannedByStack, env, pool
<1> QED BY <1>5, <1>6, <1>8, <1>9, <1>10

\* The item in hand is new to the pool; those behind it are other jobs.
LEMMA ItemFacts ==
  ASSUME IInv, NextItem, NEW s \in JobStates, st' = [st EXCEPT ![Item] = s]
  PROVE  /\ Item \in Job /\ st[Item] = "todo" /\ todo' \in Seq(Job) /\ Handed'
         /\ st' \in [Job -> JobStates]
         /\ \A j \in Job : st'[j] = IF j = Item THEN s ELSE st[j]
<1> USE DEF IInv
<1>1. /\ todo \in Seq(Job) /\ todo # <<>> /\ todo' = Tail(todo) /\ next' = next /\ next \in Nat
      /\ st \in [Job -> JobStates]
  BY DEF NextItem, TypeOK
<1>2. /\ Item \in Job /\ Item = todo[1] /\ Len(todo) \in Nat \ {0} /\ todo' \in Seq(Job)
      /\ Len(todo') = Len(todo) - 1 /\ \A i \in 1..Len(todo') : todo'[i] = todo[i + 1]
  BY <1>1, HeadTailProperties, EmptySeq DEF Item
<1>3. \A j \in Job : st'[j] = IF j = Item THEN s ELSE st[j]
  BY <1>1
<1>4. st[Item] = "todo"  BY <1>2 DEF Handed
<1>5. ASSUME NEW i \in 1..Len(todo')
      PROVE  /\ i + 1 \in 1..Len(todo) /\ todo'[i] = todo[i + 1] /\ todo[i + 1] # Item
             /\ todo'[i] \in Job /\ st'[todo'[i]] = "todo"
  <2>1. i + 1 \in 1..Len(todo) /\ 1 \in 1..Len(todo) /\ i + 1 # 1  BY <1>2
  <2>2. todo'[i] = todo[i + 1] /\ todo[i + 1] # Item /\ st[todo[i + 1]] = "todo"
    BY <1>2, <2>1 DEF Handed
  <2>3. todo[i + 1] \in Job  BY <1>1, <2>1, ElementOfSeq
  <2> QED BY <1>3, <2>1, <2>2, <2>3
<1>6. ASSUME NEW i \in 1..Len(todo'), NEW k \in 1..Len(todo'), todo'[i] = todo'[k] PROVE i = k
  <2>1. i + 1 = k + 1  BY <1>5, <1>6 DEF Handed
  <2> QED BY <1>2, <2>1
<1>7. \A j \in Job : j >= next' => st'[j] = "new"
  BY <1>1, <1>3, <1>4 DEF Handed
<1>8. Handed'  BY <1>5, <1>6, <1>7 DEF Handed
<1> QED BY <1>1, <1>2, <1>3, <1>4, <1>8

\* A job is posted to a worker without one.
LEMMA PostFacts ==
  ASSUME OnePending, NEW j \in Job, NEW w \in Worker, PendingOn(w) = {},
         \A i \in Job : st'[i] \in Pending <=> (st[i] \in Pending \/ i = j),
         \A i \in Job : i # j /\ st[i] \in Pending => on'[i] = on[i],
         on'[j] = w, st[j] \notin Pending
  PROVE  /\ OnePending' /\ PendingOn(w)' # {}
         /\ \A v : v # w => PendingOn(v)' = PendingOn(v)
<1>1. \A i \in Job : st[i] \in Pending => on[i] # w  BY DEF PendingOn
<1>2. j \in PendingOn(w)'  BY DEF PendingOn
<1>3. \A v : v # w => PendingOn(v)' = PendingOn(v)  BY DEF PendingOn
<1>4. ASSUME NEW i \in Job, NEW k \in Job, st'[i] \in Pending, st'[k] \in Pending, on'[i] = on'[k]
      PROVE  i = k
  BY <1>1, <1>4 DEF OnePending
<1> QED BY <1>2, <1>3, <1>4 DEF OnePending

LEMMA RunOnIdleStep == ASSUME IInv, RunOnIdle PROVE IInv'
<1> USE DEF IInv
<1>1. /\ NextItem /\ ~affinity /\ idle # <<>> /\ idle' = SubSeq(idle, 1, Len(idle) - 1)
      /\ st' = [st EXCEPT ![Item] = "running"] /\ on' = [on EXCEPT ![Item] = idle[Len(idle)]]
      /\ UNCHANGED <<env, queue, queues, busy, worker, phase, next>>
  BY DEF RunOnIdle, Post, NextItem
<1>2. /\ Item \in Job /\ st[Item] = "todo" /\ todo' \in Seq(Job) /\ Handed' /\ st' \in [Job -> JobStates]
      /\ \A j \in Job : st'[j] = IF j = Item THEN "running" ELSE st[j]
  BY <1>1, ItemFacts DEF JobStates, Pending
<1>3. PICK n \in Nat \ {0} : Len(idle) = n
  BY <1>1, EmptySeq DEF TypeOK
<1>4. \A i \in 1..n : idle[i] \in Worker
  BY <1>3, ElementOfSeq DEF TypeOK
<1>5. /\ idle' \in Seq(Worker) /\ Len(idle') = n - 1
      /\ \A i \in 1..(n - 1) : idle'[i] = idle[i]
  <2>1. \A i \in 1..(n - 1) : idle[i] \in Worker  BY <1>4
  <2>2. /\ SubSeq(idle, 1, n - 1) \in Seq(Worker)
        /\ Len(SubSeq(idle, 1, n - 1)) = IF 1 <= n - 1 THEN n - 1 - 1 + 1 ELSE 0
        /\ \A i \in 1..(n - 1 - 1 + 1) : SubSeq(idle, 1, n - 1)[i] = idle[1 + i - 1]
    BY <2>1, SubSeqProperties
  <2>3. (IF 1 <= n - 1 THEN n - 1 - 1 + 1 ELSE 0) = n - 1 /\ n - 1 - 1 + 1 = n - 1
        /\ \A i \in 1..(n - 1) : 1 + i - 1 = i
    OBVIOUS
  <2> QED BY <1>1, <1>3, <2>2, <2>3
<1>6. PICK w \in Worker, j \in Job : w = idle[n] /\ j = Item
  BY <1>2, <1>3, <1>4
<1>7. on' \in [Job -> Worker] /\ \A i \in Job : on'[i] = IF i = j THEN w ELSE on[i]
  BY <1>1, <1>3, <1>6 DEF TypeOK
<1>8. TypeOK'
  BY <1>1, <1>2, <1>5, <1>7 DEF TypeOK, env
<1>9. /\ PendingOn(w) = {} /\ phase # "down" /\ queue = <<>>
      /\ \A i \in 1..(n - 1) : idle[i] # w
      /\ \A i \in 1..n, k \in Job : st[k] \in Pending => on[k] # idle[i]
  <2>1. n \in 1..n /\ \A i \in 1..(n - 1) : i \in 1..n /\ i # n  BY <1>3
  <2> QED BY <1>1, <1>3, <1>6, <2>1 DEF MannedByStack, Modes, PendingOn
<1>10. \A i \in Job : st'[i] \in Pending <=> (st[i] \in Pending \/ i = j)
  BY <1>2, <1>6 DEF Pending
<1>11. /\ OnePending' /\ PendingOn(w)' # {}
       /\ \A v : v # w => PendingOn(v)' = PendingOn(v)
  <2>1. st[j] \notin Pending /\ on'[j] = w /\ \A i \in Job : i # j => on'[i] = on[i]
    BY <1>2, <1>6, <1>7 DEF Pending
  <2> QED BY <1>9, <1>10, <2>1, PostFacts
<1>12. Exact(Lines, st)'
  BY <1>1, <1>2, ExactSame
<1>13. Modes' /\ Limits' /\ MannedByKey'
  BY <1>1, <1>9 DEF Modes, Limits, MannedByKey, env
<1>14. MannedByStack'
  <2>1. ASSUME NEW i \in 1..Len(idle'), NEW k \in 1..Len(idle'), idle'[i] = idle'[k] PROVE i = k
    <3>1. i \in 1..n /\ k \in 1..n /\ idle[i] = idle[k]  BY <1>5, <2>1
    <3> QED BY <1>1, <1>3, <3>1 DEF MannedByStack
  <2>2. ASSUME NEW i \in 1..Len(idle'), NEW k \in Job, st'[k] \in Pending
        PROVE  on'[k] # idle'[i]
    <3>1. i \in 1..(n - 1) /\ i \in 1..n /\ idle'[i] = idle[i]  BY <1>5
    <3> QED BY <1>7, <1>9, <1>10, <2>2, <3>1
  <2>3. ASSUME NEW v \in Worker, worker'[v] = "alive", PendingOn(v)' = {}
        PROVE  \E i \in 1..Len(idle') : idle'[i] = v
    <3>1. v # w  BY <1>11, <2>3
    <3>2. PendingOn(v) = {} /\ worker[v] = "alive"  BY <1>1, <1>11, <2>3, <3>1
    <3>3. PICK i \in 1..n : idle[i] = v  BY <1>1, <1>3, <1>9, <3>2 DEF MannedByStack
    <3>4. i \in 1..(n - 1)  BY <1>6, <3>1, <3>3
    <3> QED BY <1>5, <3>3, <3>4
  <2> QED BY <1>1, <1>9, <2>1, <2>2, <2>3 DEF MannedByStack
<1> QED BY <1>2, <1>8, <1>11, <1>12, <1>13, <1>14

LEMMA RunOnHomeStep == ASSUME IInv, RunOnHome PROVE IInv'
<1> USE DEF IInv
<1>1. /\ NextItem /\ affinity /\ phase # "down" /\ st' = [st EXCEPT ![Item] = "running"]
      /\ ~busy[home[Item]] /\ busy' = [busy EXCEPT ![home[Item]] = TRUE]
      /\ on' = [on EXCEPT ![Item] = home[Item]]
      /\ UNCHANGED <<env, idle, queue, queues, worker, phase, next>>
  BY DEF RunOnHome, Slots, Post, NextItem
<1>2. /\ Item \in Job /\ st[Item] = "todo" /\ todo' \in Seq(Job) /\ Handed' /\ st' \in [Job -> JobStates]
      /\ \A j \in Job : st'[j] = IF j = Item THEN "running" ELSE st[j]
  BY <1>1, ItemFacts DEF JobStates, Pending
<1>3. PICK w \in Worker, j \in Job : w = home[Item] /\ j = Item
  BY <1>2 DEF TypeOK
<1>4. /\ on' \in [Job -> Worker] /\ \A i \in Job : on'[i] = IF i = j THEN w ELSE on[i]
      /\ busy' \in [Worker -> BOOLEAN] /\ \A v \in Worker : busy'[v] = IF v = w THEN TRUE ELSE busy[v]
  BY <1>1, <1>3 DEF TypeOK
<1>5. TypeOK'
  BY <1>1, <1>2, <1>4 DEF TypeOK, env
<1>6. PendingOn(w) = {} /\ queues[w] = <<>>
  BY <1>1, <1>3 DEF MannedByKey
<1>7. /\ OnePending' /\ PendingOn(w)' # {}
      /\ \A v : v # w => PendingOn(v)' = PendingOn(v)
  <2>1. st[j] \notin Pending /\ on'[j] = w /\ \A i \in Job : i # j => on'[i] = on[i]
    BY <1>2, <1>3, <1>4 DEF Pending
  <2>2. \A i \in Job : st'[i] \in Pending <=> (st[i] \in Pending \/ i = j)
    BY <1>2, <1>3 DEF Pending
  <2> QED BY <1>6, <2>1, <2>2, PostFacts
<1>8. Exact(Lines, st)'
  BY <1>1, <1>2, ExactSame
<1>9. Modes' /\ Limits' /\ MannedByStack'
  BY <1>1 DEF Modes, Limits, MannedByStack, env
<1>10. MannedByKey'
  <2> SUFFICES ASSUME NEW v \in Worker
               PROVE  (busy'[v] <=> PendingOn(v)' # {}) /\ (queues'[v] # <<>> => busy'[v])
    BY DEF MannedByKey
  <2>1. CASE v = w
    BY <1>4, <1>7, <2>1
  <2>2. CASE v # w
    <3>1. PendingOn(v)' = PendingOn(v) /\ busy'[v] = busy[v] /\ queues'[v] = queues[v]
      BY <1>1, <1>4, <1>7, <2>2
    <3>2. (busy[v] <=> PendingOn(v) # {}) /\ (queues[v] # <<>> => busy[v])
      BY <1>1 DEF MannedByKey
    <3> QED BY <3>1, <3>2
  <2> QED BY <2>1, <2>2
<1> QED BY <1>2, <1>5, <1>7, <1>8, <1>9, <1>10

LEMMA RunOverloadedStep == ASSUME IInv, RunOverloaded PROVE IInv'
<1> USE DEF IInv
<1>1. /\ NextItem /\ st' = [st EXCEPT ![Item] = "overloaded"]
      /\ UNCHANGED <<env, pool, on, worker, phase, next>>
  BY DEF RunOverloaded, NextItem
<1>2. /\ Item \in Job /\ st[Item] = "todo" /\ todo' \in Seq(Job) /\ Handed' /\ st' \in [Job -> JobStates]
      /\ \A j \in Job : st'[j] = IF j = Item THEN "overloaded" ELSE st[j]
  BY <1>1, ItemFacts DEF JobStates, Answers
<1>3. TypeOK'
  BY <1>1, <1>2 DEF TypeOK, env, pool
<1>4. (\A w : PendingOn(w)' = PendingOn(w)) /\ OnePending'
  BY <1>1, <1>2, PendingSame DEF Pending
<1>5. Exact(Lines, st)'
  BY <1>1, <1>2, ExactSame DEF pool
<1>6. Modes' /\ Limits' /\ MannedByKey' /\ MannedByStack'
  BY <1>1, <1>2, <1>4 DEF Pending, Modes, Limits, MannedByKey, MannedByStack, env, pool
<1> QED BY <1>2, <1>3, <1>4, <1>5, <1>6

LEMMA RunQueuesStep == ASSUME IInv, RunQueues PROVE IInv'
<1> USE DEF IInv
<1>1. /\ NextItem /\ MustWait /\ HasRoom /\ st' = [st EXCEPT ![Item] = "queued"]
      /\ UNCHANGED <<env, idle, busy, on, worker, phase, next>>
  BY DEF RunQueues, NextItem
<1>2. /\ Item \in Job /\ st[Item] = "todo" /\ todo' \in Seq(Job) /\ Handed' /\ st' \in [Job -> JobStates]
      /\ \A j \in Job : st'[j] = IF j = Item THEN "queued" ELSE st[j]
  BY <1>1, ItemFacts DEF JobStates
<1>3. (\A v : PendingOn(v)' = PendingOn(v)) /\ OnePending'
  BY <1>1, <1>2, PendingSame DEF Pending
<1> DEFINE w == home[Item]
           l == IF affinity THEN w ELSE -1
<1>4. w \in Worker /\ l \in Spot
  BY <1>2 DEF TypeOK, Spot
<1>5. /\ queues' \in [Worker -> Seq(Job)] /\ queue' \in Seq(Job)
      /\ Lines' = [Lines EXCEPT ![l] = Append(@, Item)]
  <2>1. CASE affinity
    <3>1. queue' = queue /\ queues' = [queues EXCEPT ![w] = Append(@, Item)] /\ l = w
      BY <2>1 DEF RunQueues
    <3>2. queues' \in [Worker -> Seq(Job)]  BY <1>2, <1>4, <3>1 DEF TypeOK
    <3>3. \A m \in Spot : Lines'[m] = [Lines EXCEPT ![l] = Append(@, Item)][m]
      BY <1>4, <3>1, LimitFacts DEF Lines, Line, Spot, TypeOK
    <3> QED BY <3>1, <3>2, <3>3 DEF Lines, TypeOK
  <2>2. CASE ~affinity
    <3>1. queues' = queues /\ queue' = Append(queue, Item) /\ l = -1
      BY <2>2 DEF RunQueues
    <3>2. \A m \in Spot : Lines'[m] = [Lines EXCEPT ![l] = Append(@, Item)][m]
      BY <1>4, <3>1, LimitFacts DEF Lines, Line, Spot, TypeOK
    <3>3. queue' \in Seq(Job) /\ queues' \in [Worker -> Seq(Job)]  BY <1>2, <3>1 DEF TypeOK
    <3> QED BY <3>2, <3>3 DEF Lines
  <2> QED BY <2>1, <2>2
<1> HIDE DEF w, l
<1>6. TypeOK'
  BY <1>1, <1>2, <1>5 DEF TypeOK, env
<1>7. Exact(Lines, st)'
  <2>1. Exact([Lines EXCEPT ![l] = Append(@, Item)], [st EXCEPT ![Item] = "queued"])
    BY <1>2, <1>4, LinesType, ExactAppend DEF TypeOK
  <2> QED BY <1>1, <1>5, <2>1
<1>8. Modes' /\ Limits' /\ MannedByKey'
  <2>1. CASE affinity
    <3>1. /\ queue' = queue /\ queues' = [queues EXCEPT ![w] = Append(@, Item)]
          /\ phase # "down" /\ busy[w] /\ Len(queues[w]) < PerQueueMax
      BY <1>1, <2>1 DEF RunQueues, MustWait, HasRoom, Slots, w
    <3>2. /\ Len(queues'[w]) = Len(queues[w]) + 1 /\ Len(queues[w]) \in Nat
          /\ queues'[w][Len(queues[w]) + 1] = Item
          /\ \A i \in 1..Len(queues[w]) : queues'[w][i] = queues[w][i]
          /\ \A v \in Worker : v # w => queues'[v] = queues[v]
      BY <1>2, <1>4, <3>1, LenProperties DEF TypeOK
    <3>3. \A v \in Worker : \A i \in 1..Len(queues'[v]) : home[queues'[v][i]] = v
      <4> SUFFICES ASSUME NEW v \in Worker, NEW i \in 1..Len(queues'[v]) PROVE home[queues'[v][i]] = v
        OBVIOUS
      <4>1. CASE v = w /\ i = Len(queues[w]) + 1
        BY <3>2, <4>1 DEF w
      <4>2. CASE v = w /\ i # Len(queues[w]) + 1
        <5>1. i \in 1..Len(queues[w])  BY <3>2, <4>2
        <5> QED BY <3>2, <4>2, <5>1 DEF Limits
      <4>3. CASE v # w
        BY <3>2, <4>3 DEF Limits
      <4> QED BY <4>1, <4>2, <4>3
    <3>4. \A v \in Worker : Len(queues'[v]) <= PerQueueMax
      BY <3>1, <3>2, LimitFacts DEF Limits
    <3>5. Limits'  BY <1>1, <3>1, <3>3, <3>4 DEF Limits, env
    <3>6. Modes'  BY <1>1, <2>1, <3>1 DEF Modes, env
    <3>7. MannedByKey'
      BY <1>1, <1>3, <3>1, <3>2 DEF MannedByKey, env
    <3> QED BY <3>5, <3>6, <3>7
  <2>2. CASE ~affinity
    <3>1. queues' = queues /\ queue' = Append(queue, Item) /\ Len(queue) < QueueMax
      BY <1>1, <2>2 DEF RunQueues, HasRoom
    <3>2. Len(queue') = Len(queue) + 1 /\ Len(queue) \in Nat
      BY <1>2, <3>1, LenProperties DEF TypeOK
    <3> QED BY <1>1, <2>2, <3>1, <3>2, LimitFacts DEF Modes, Limits, MannedByKey, env
  <2> QED BY <2>1, <2>2
<1>9. MannedByStack'
  <2> SUFFICES ASSUME ~affinity PROVE MannedByStack'
    BY <1>1 DEF MannedByStack, env
  <2>1. idle = <<>>  BY <1>1 DEF MustWait
  <2> QED BY <1>1, <1>3, <2>1 DEF MannedByStack, env
<1> QED BY <1>2, <1>3, <1>6, <1>7, <1>8, <1>9

-------------------------------------------------------------------------------
(* The workers and their events.                                             *)

LEMMA WorkerStep ==
  ASSUME IInv, NEW w \in Worker, NEW j \in Job, WorkerReplies(w, j) \/ WorkerDies(w, j)
  PROVE  IInv'
<1> USE DEF IInv
<1>1. /\ UNCHANGED <<env, pool, on, phase, next, todo>> /\ st[j] = "running" /\ on[j] = w
      /\ \A v \in Worker : worker'[v] = "alive" => worker[v] = "alive"
      /\ worker' \in [Worker -> {"alive", "dying", "dead"}]
      /\ st' \in [Job -> JobStates]
      /\ \A i \in Job : st'[i] = st[i] \/ (i = j /\ st'[i] = "replied")
  BY DEF WorkerReplies, WorkerDies, Works, TypeOK, JobStates, Pending
<1>2. TypeOK'
  BY <1>1 DEF TypeOK, env, pool
<1>3. (\A v : PendingOn(v)' = PendingOn(v)) /\ OnePending'
  BY <1>1, PendingSame DEF Pending
<1>4. Exact(Lines, st)'
  BY <1>1, ExactSame DEF pool
<1>5. Modes' /\ Handed' /\ Limits' /\ MannedByKey'
  BY <1>1, <1>3 DEF Modes, Handed, Limits, MannedByKey, env, pool, TypeOK
<1>6. MannedByStack'
  <2>1. \A i \in Job : st'[i] \in Pending <=> st[i] \in Pending  BY <1>1 DEF Pending
  <2> QED BY <1>1, <1>3, <2>1 DEF MannedByStack, env, pool
<1> QED BY <1>2, <1>3, <1>4, <1>5, <1>6

\* The message event frees worker w of job j and gives it the head h of its line.
LEMMA MessageNextStep ==
  ASSUME IInv, NEW j \in Job, Message(j), LineOf(on[j]) # <<>>
  PROVE  IInv'
<1> USE DEF IInv
<1>1. /\ phase # "down" /\ st[j] = "replied"
      /\ queues' = IF affinity THEN [queues EXCEPT ![on[j]] = Tail(@)] ELSE queues
      /\ queue'  = IF affinity THEN queue ELSE Tail(queue)
      /\ st' = [[st EXCEPT ![j] = "ok"] EXCEPT ![Head(LineOf(on[j]))] = "running"]
      /\ on' = [on EXCEPT ![Head(LineOf(on[j]))] = on[j]]
      /\ UNCHANGED <<env, idle, busy, worker, phase, next, todo>>
  BY DEF Message, Release
<1>2. PICK w \in Worker, l \in Spot : w = on[j] /\ l = IF affinity THEN w ELSE -1
  BY DEF TypeOK, Spot
<1>3. LineOf(w) = Lines[l] /\ Lines[l] \in Seq(Job) /\ Lines[l] # <<>>
  BY <1>2, LinesType DEF LineOf
<1>4. PICK h \in Job : h = Head(Lines[l]) /\ h = Lines[l][1] /\ 1 \in 1..Len(Lines[l])
  <2>1. Head(Lines[l]) \in Job /\ Len(Lines[l]) \in Nat \ {0}
    BY <1>3, HeadTailProperties, EmptySeq
  <2> QED BY <1>3, <2>1
<1>5. st[h] = "queued" /\ h # j
  BY <1>1, <1>4 DEF Exact
<1>6. /\ st' \in [Job -> JobStates] /\ on' \in [Job -> Worker]
      /\ \A i \in Job : st'[i] = (IF i = h THEN "running" ELSE IF i = j THEN "ok" ELSE st[i])
      /\ \A i \in Job : on'[i] = (IF i = h THEN w ELSE on[i])
  BY <1>1, <1>2, <1>3, <1>4, <1>5 DEF TypeOK, JobStates, Pending, Answers
<1>7. /\ queues' \in [Worker -> Seq(Job)] /\ queue' \in Seq(Job)
      /\ Lines' = [Lines EXCEPT ![l] = Tail(@)] /\ Lines' \in [Spot -> Seq(Job)]
  <2>1. CASE affinity
    <3>1. queue' = queue /\ queues' = [queues EXCEPT ![w] = Tail(@)] /\ l = w
      BY <1>1, <1>2, <2>1
    <3>2. Tail(queues[w]) \in Seq(Job)
      BY <1>3, <3>1, LinesType, HeadTailProperties
    <3>3. queues' \in [Worker -> Seq(Job)] /\ queue' \in Seq(Job)
      BY <3>1, <3>2 DEF TypeOK
    <3>4. \A m \in Spot : Lines'[m] = [Lines EXCEPT ![l] = Tail(@)][m] /\ Lines'[m] \in Seq(Job)
      BY <3>1, <3>2, <3>3, LimitFacts DEF Lines, Line, Spot, TypeOK
    <3> QED BY <3>3, <3>4 DEF Lines
  <2>2. CASE ~affinity
    <3>1. queues' = queues /\ queue' = Tail(queue) /\ l = -1
      BY <1>1, <1>2, <2>2
    <3>2. Tail(queue) \in Seq(Job)
      BY <1>3, <3>1, LinesType, HeadTailProperties
    <3>3. queues' \in [Worker -> Seq(Job)] /\ queue' \in Seq(Job)
      BY <3>1, <3>2 DEF TypeOK
    <3>4. \A m \in Spot : Lines'[m] = [Lines EXCEPT ![l] = Tail(@)][m] /\ Lines'[m] \in Seq(Job)
      BY <3>1, <3>2, <3>3, LimitFacts DEF Lines, Line, Spot, TypeOK
    <3> QED BY <3>3, <3>4 DEF Lines
  <2> QED BY <2>1, <2>2
<1>8. TypeOK'
  BY <1>1, <1>6, <1>7 DEF TypeOK, env
<1>9. Handed'
  <2>1. \A i \in 1..Len(todo) : todo[i] \in Job /\ todo[i] # h /\ todo[i] # j
    BY <1>1, <1>5, ElementOfSeq DEF Handed, TypeOK
  <2> QED BY <1>1, <1>5, <1>6, <2>1 DEF Handed
<1>10. Exact(Lines, st)'
  <2>1. \A i \in Job : st'[i] = "queued" <=> (st[i] = "queued" /\ i # h)
    BY <1>1, <1>4, <1>6
  <2>2. Lines \in [Spot -> Seq(Job)] /\ Exact(Lines, st)
    BY LinesType
  <2>3. ASSUME NEW Q \in [Spot -> Seq(Job)], Q = Lines, NEW R \in [Spot -> Seq(Job)], R = Lines',
               NEW s \in [Job -> JobStates], s = st, NEW t \in [Job -> JobStates], t = st'
        PROVE  Exact(R, t)
    <3>1. R[l] = Tail(Q[l]) /\ \A m \in Spot : m # l => R[m] = Q[m]  BY <1>7, <2>2, <2>3
    <3>2. Exact(Q, s) /\ Q[l] # <<>> /\ h = Q[l][1]  BY <1>3, <1>4, <2>2, <2>3
    <3>3. \A i \in Job : t[i] = "queued" <=> (s[i] = "queued" /\ i # h)  BY <2>1, <2>3
    <3> QED BY <3>1, <3>2, <3>3, ExactTail
  <2>4. st \in [Job -> JobStates] /\ st' \in [Job -> JobStates]  BY <1>6 DEF TypeOK
  <2> QED BY <1>7, <2>2, <2>3, <2>4
<1>11. /\ OnePending' /\ h \in PendingOn(w)'
       /\ \A v : v # w => PendingOn(v)' = PendingOn(v)
  <2>1. \A i \in Job : i # j /\ st[i] \in Pending => on[i] # w
    BY <1>1, <1>2 DEF OnePending, Pending
  <2>2. \A i \in Job : st'[i] \in Pending <=> (i = h \/ (i # j /\ st[i] \in Pending))
    BY <1>5, <1>6 DEF Pending
  <2>3. OnePending'
    BY <1>6, <2>1, <2>2 DEF OnePending
  <2>4. h \in PendingOn(w)'
    BY <1>6, <2>2 DEF PendingOn
  <2>5. ASSUME NEW v, v # w PROVE PendingOn(v)' = PendingOn(v)
    <3>1. st[h] \notin Pending  BY <1>5 DEF Pending
    <3>2. ASSUME NEW i \in Job
          PROVE  st'[i] \in Pending /\ on'[i] = v <=> st[i] \in Pending /\ on[i] = v
      <4>1. CASE i = h  BY <1>6, <2>5, <3>1, <4>1
      <4>2. CASE i = j  BY <1>2, <1>5, <1>6, <2>5, <4>2
      <4>3. CASE i # h /\ i # j  BY <1>6, <2>2, <4>3
      <4> QED BY <4>1, <4>2, <4>3
    <3> QED BY <3>2 DEF PendingOn
  <2> QED BY <2>3, <2>4, <2>5
<1>12. j \in PendingOn(w)
  BY <1>1, <1>2 DEF PendingOn, Pending
<1>13. Modes' /\ Limits' /\ MannedByKey'
  <2>1. CASE affinity
    <3>1. queue' = queue /\ queues' = [queues EXCEPT ![w] = Tail(@)] /\ queues[w] # <<>>
      BY <1>1, <1>2, <1>3, <2>1 DEF LineOf
    <3>2. /\ \A v \in Worker : v # w => queues'[v] = queues[v]
          /\ Len(queues[w]) \in Nat \ {0} /\ Len(queues'[w]) = Len(queues[w]) - 1
          /\ \A i \in 1..Len(queues'[w]) : queues'[w][i] = queues[w][i + 1]
      BY <3>1, HeadTailProperties, EmptySeq DEF TypeOK
    <3>3. \A v \in Worker : Len(queues'[v]) <= PerQueueMax
      BY <3>2, LimitFacts DEF Limits
    <3>4. ASSUME NEW v \in Worker, NEW i \in 1..Len(queues'[v]) PROVE home[queues'[v][i]] = v
      <4>1. CASE v = w
        <5>1. i + 1 \in 1..Len(queues[w])  BY <3>2, <4>1
        <5> QED BY <3>2, <4>1, <5>1 DEF Limits
      <4>2. CASE v # w
        BY <3>2, <4>2 DEF Limits
      <4> QED BY <4>1, <4>2
    <3>5. Limits'  BY <1>1, <3>1, <3>3, <3>4 DEF Limits, env
    <3>6. busy[w]  BY <1>1, <2>1, <3>1 DEF MannedByKey
    <3>7. ASSUME NEW v \in Worker
          PROVE  (busy[v] <=> PendingOn(v)' # {}) /\ (queues'[v] # <<>> => busy[v])
      <4>1. CASE v = w
        <5>1. PendingOn(v)' # {}  BY <1>11, <4>1 DEF PendingOn
        <5> QED BY <3>6, <4>1, <5>1
      <4>2. CASE v # w
        <5>1. PendingOn(v)' = PendingOn(v) /\ queues'[v] = queues[v]  BY <1>11, <3>2, <4>2
        <5>2. (busy[v] <=> PendingOn(v) # {}) /\ (queues[v] # <<>> => busy[v])
          BY <1>1, <2>1 DEF MannedByKey
        <5> QED BY <5>1, <5>2
      <4> QED BY <4>1, <4>2
    <3>8. MannedByKey'  BY <1>1, <3>7 DEF MannedByKey
    <3>9. Modes'  BY <1>1, <2>1, <3>1 DEF Modes, env
    <3> QED BY <3>5, <3>8, <3>9
  <2>2. CASE ~affinity
    <3>1. queues' = queues /\ queue' = Tail(queue) /\ queue # <<>>
      BY <1>1, <1>2, <1>3, <2>2 DEF LineOf
    <3>2. Len(queue) \in Nat \ {0} /\ Len(queue') = Len(queue) - 1
      BY <3>1, HeadTailProperties, EmptySeq DEF TypeOK
    <3> QED BY <1>1, <2>2, <3>1, <3>2, LimitFacts DEF Modes, Limits, MannedByKey, env
  <2> QED BY <2>1, <2>2
<1>14. MannedByStack'
  <2> SUFFICES ASSUME ~affinity PROVE MannedByStack'
    BY <1>1 DEF MannedByStack, env
  <2>1. idle = <<>> /\ idle' = <<>>
    BY <1>1, <1>2, <1>3 DEF MannedByStack, LineOf
  <2>2. ASSUME NEW v \in Worker, worker'[v] = "alive", PendingOn(v)' = {}
        PROVE  \E i \in 1..Len(idle) : idle[i] = v
    <3>1. v # w  BY <1>11, <2>2 DEF PendingOn
    <3>2. PendingOn(v) = {} /\ worker[v] = "alive"  BY <1>1, <1>11, <2>2, <3>1
    <3> QED BY <1>1, <3>2 DEF MannedByStack
  <2> QED BY <1>1, <2>1, <2>2 DEF MannedByStack
<1> QED BY <1>8, <1>9, <1>10, <1>11, <1>13, <1>14

\* The message event of a worker whose line is empty.
LEMMA MessageIdleStep ==
  ASSUME IInv, NEW j \in Job, Message(j), LineOf(on[j]) = <<>>
  PROVE  IInv'
<1> USE DEF IInv
<1>1. /\ phase # "down" /\ st[j] = "replied" /\ st' = [st EXCEPT ![j] = "ok"]
      /\ busy' = IF affinity THEN [busy EXCEPT ![on[j]] = FALSE] ELSE busy
      /\ idle' = IF affinity THEN idle ELSE Append(idle, on[j])
      /\ UNCHANGED <<env, queue, queues, on, worker, phase, next, todo>>
  BY DEF Message, Release
<1>2. PICK w \in Worker : w = on[j]
  BY DEF TypeOK
<1>3. st' \in [Job -> JobStates] /\ \A i \in Job : st'[i] = IF i = j THEN "ok" ELSE st[i]
  BY <1>1 DEF TypeOK, JobStates, Answers
<1>4. /\ busy' \in [Worker -> BOOLEAN] /\ idle' \in Seq(Worker)
      /\ affinity => idle' = idle /\ \A v \in Worker : busy'[v] = IF v = w THEN FALSE ELSE busy[v]
      /\ ~affinity => busy' = busy /\ idle' = Append(idle, w)
  <2>1. busy \in [Worker -> BOOLEAN] /\ idle \in Seq(Worker)  BY DEF TypeOK
  <2>2. CASE affinity
    <3>1. busy' = [busy EXCEPT ![w] = FALSE] /\ idle' = idle  BY <1>1, <1>2, <2>2
    <3> QED BY <2>1, <2>2, <3>1
  <2>3. CASE ~affinity
    <3>1. busy' = busy /\ idle' = Append(idle, w)  BY <1>1, <1>2, <2>3
    <3>2. idle' \in Seq(Worker)  BY <2>1, <3>1
    <3> QED BY <2>1, <2>3, <3>1, <3>2
  <2> QED BY <2>2, <2>3
<1>5. TypeOK'
  BY <1>1, <1>3, <1>4 DEF TypeOK, env
<1>6. Handed'
  <2>1. \A i \in 1..Len(todo) : todo[i] \in Job /\ todo[i] # j
    BY <1>1, ElementOfSeq DEF Handed, TypeOK
  <2> QED BY <1>1, <1>3, <2>1 DEF Handed
<1>7. Exact(Lines, st)'
  BY <1>1, <1>3, ExactSame
<1>8. /\ OnePending' /\ \A i \in Job : st'[i] \in Pending => on[i] # w
      /\ \A i \in Job : st'[i] \in Pending <=> (i # j /\ st[i] \in Pending)
      /\ j \in PendingOn(w)
  <2>1. \A i \in Job : st'[i] \in Pending <=> (i # j /\ st[i] \in Pending)
    BY <1>3 DEF Pending
  <2>2. st[j] \in Pending  BY <1>1 DEF Pending
  <2>3. \A i \in Job : st'[i] \in Pending => on[i] # w
    BY <1>2, <2>1, <2>2 DEF OnePending
  <2> QED BY <1>1, <1>2, <2>1, <2>2, <2>3 DEF OnePending, PendingOn
<1>9. PendingOn(w)' = {} /\ \A v : v # w => PendingOn(v)' = PendingOn(v)
  <2>1. PendingOn(w)' = {}  BY <1>1, <1>8 DEF PendingOn
  <2>2. ASSUME NEW v, v # w PROVE PendingOn(v)' = PendingOn(v)
    BY <1>1, <1>2, <1>8, <2>2 DEF PendingOn
  <2> QED BY <2>1, <2>2
<1>10. Modes' /\ Limits'
  BY <1>1, <1>4 DEF Modes, Limits, env
<1>11. MannedByKey'
  <2> SUFFICES ASSUME affinity, NEW v \in Worker
               PROVE  (busy'[v] <=> PendingOn(v)' # {}) /\ (queues[v] # <<>> => busy'[v])
    BY <1>1 DEF MannedByKey, env
  <2>1. CASE v = w
    <3>1. PendingOn(v)' = {}  BY <1>9, <2>1 DEF PendingOn
    <3>2. queues[v] = <<>>  BY <1>2, <2>1 DEF LineOf
    <3> QED BY <1>4, <2>1, <3>1, <3>2
  <2>2. CASE v # w
    <3>1. PendingOn(v)' = PendingOn(v) /\ busy'[v] = busy[v]  BY <1>4, <1>9, <2>2
    <3>2. (busy[v] <=> PendingOn(v) # {}) /\ (queues[v] # <<>> => busy[v])
      BY <1>1 DEF MannedByKey
    <3> QED BY <3>1, <3>2
  <2> QED BY <2>1, <2>2
<1>12. MannedByStack'
  <2> SUFFICES ASSUME ~affinity PROVE MannedByStack'
    BY <1>1 DEF MannedByStack, env
  <2>1. PICK n \in Nat : Len(idle) = n
    BY LenProperties DEF TypeOK
  <2>2. /\ idle' = Append(idle, w) /\ Len(idle') = n + 1 /\ idle'[n + 1] = w
        /\ \A i \in 1..n : idle'[i] = idle[i]
    <3>1. idle \in Seq(Worker) /\ idle' = Append(idle, w)  BY <1>4 DEF TypeOK
    <3> QED BY <2>1, <3>1
  <2>3. \A i \in 1..n : idle[i] # w
    BY <1>1, <1>2, <2>1 DEF MannedByStack, Pending
  <2>4. ASSUME NEW i \in 1..Len(idle'), NEW k \in 1..Len(idle'), idle'[i] = idle'[k] PROVE i = k
    <3>1. CASE i = n + 1 /\ k = n + 1  BY <3>1
    <3>2. CASE i # n + 1 /\ k # n + 1
      <4>1. i \in 1..n /\ k \in 1..n  BY <2>2, <3>2
      <4> QED BY <2>1, <2>2, <2>4, <4>1 DEF MannedByStack
    <3>3. CASE i # n + 1 /\ k = n + 1
      <4>1. i \in 1..n  BY <2>2, <3>3
      <4> QED BY <2>2, <2>3, <2>4, <3>3, <4>1
    <3>4. CASE i = n + 1 /\ k # n + 1
      <4>1. k \in 1..n  BY <2>2, <3>4
      <4> QED BY <2>2, <2>3, <2>4, <3>4, <4>1
    <3> QED BY <3>1, <3>2, <3>3, <3>4
  <2>5. ASSUME NEW i \in 1..Len(idle'), NEW k \in Job, st'[k] \in Pending PROVE on'[k] # idle'[i]
    <3>1. CASE i = n + 1
      BY <1>1, <1>8, <2>2, <2>5, <3>1
    <3>2. CASE i # n + 1
      <4>1. i \in 1..n /\ st[k] \in Pending  BY <1>8, <2>2, <2>5, <3>2
      <4> QED BY <1>1, <2>1, <2>2, <4>1 DEF MannedByStack
    <3> QED BY <3>1, <3>2
  <2>6. ASSUME NEW v \in Worker, worker'[v] = "alive", PendingOn(v)' = {}
        PROVE  \E i \in 1..Len(idle') : idle'[i] = v
    <3>1. CASE v = w
      <4>1. n + 1 \in 1..Len(idle')  BY <2>2
      <4> QED BY <2>2, <3>1, <4>1
    <3>2. CASE v # w
      <4>1. PendingOn(v) = {} /\ worker[v] = "alive"  BY <1>1, <1>9, <2>6, <3>2
      <4>2. PICK i \in 1..n : idle[i] = v  BY <1>1, <2>1, <4>1 DEF MannedByStack
      <4>3. i \in 1..Len(idle')  BY <2>2
      <4> QED BY <2>2, <4>2, <4>3
    <3> QED BY <3>1, <3>2
  <2>7. queue' = <<>>
    BY <1>1, <1>2 DEF LineOf
  <2> QED BY <2>4, <2>5, <2>6, <2>7 DEF MannedByStack
<1> QED BY <1>5, <1>6, <1>7, <1>8, <1>10, <1>11, <1>12

\* The error event answers for the job of a worker that died and for those behind it.
LEMMA WorkerErrorStep ==
  ASSUME IInv, NEW w \in Worker, WorkerError(w)
  PROVE  IInv'
<1> USE DEF IInv
<1> DEFINE Lost == PendingOn(w) \cup QueuedAt(w)
<1>1. /\ todo = <<>> /\ phase # "down" /\ worker' = [worker EXCEPT ![w] = "dead"]
      /\ st' = [j \in Job |-> IF j \in Lost THEN "worker_error" ELSE st[j]]
      /\ queues' = [queues EXCEPT ![w] = <<>>] /\ busy' = [busy EXCEPT ![w] = FALSE]
      /\ UNCHANGED <<env, idle, queue, on, phase, next, todo>>
  BY DEF WorkerError, Mark
<1>2. /\ st' \in [Job -> JobStates] /\ queues' \in [Worker -> Seq(Job)]
      /\ busy' \in [Worker -> BOOLEAN] /\ worker' \in [Worker -> {"alive", "dying", "dead"}]
      /\ \A j \in Job : st'[j] = IF j \in Lost THEN "worker_error" ELSE st[j]
      /\ \A v \in Worker : queues'[v] = IF v = w THEN <<>> ELSE queues[v]
      /\ \A v \in Worker : busy'[v] = IF v = w THEN FALSE ELSE busy[v]
      /\ \A v \in Worker : worker'[v] = IF v = w THEN "dead" ELSE worker[v]
  BY <1>1 DEF TypeOK, JobStates, Answers
<1>3. TypeOK'
  BY <1>1, <1>2 DEF TypeOK, env
<1>4. /\ \A j \in Job : st'[j] \in Pending <=> (st[j] \in Pending /\ on[j] # w)
      /\ \A j \in Job : st'[j] = "queued" <=> (st[j] = "queued" /\ ~(affinity /\ home[j] = w))
  BY <1>2 DEF PendingOn, QueuedAt, Pending
<1>5. Handed'
  <2>1. \A j \in Job : st[j] = "new" => j \notin Lost  BY DEF PendingOn, QueuedAt, Pending
  <2> HIDE DEF Lost
  <2> QED BY <1>1, <1>2, <2>1 DEF Handed
<1> HIDE DEF Lost
<1>6. OnePending'
  BY <1>1, <1>4 DEF OnePending
<1>7. PendingOn(w)' = {} /\ \A v : v # w => PendingOn(v)' = PendingOn(v)
  BY <1>1, <1>4 DEF PendingOn
<1>8. Modes' /\ Limits'
  <2>0. Len(<<>>) = 0  BY EmptySeq
  <2>1. \A v \in Worker : queues'[v] = queues[v] \/ Len(queues'[v]) = 0
    BY <1>2, <2>0
  <2>2. Limits'
    BY <1>1, <2>1, LimitFacts DEF Limits, env
  <2>3. Modes'
    BY <1>1, <1>2 DEF Modes, env
  <2> QED BY <2>2, <2>3
<1>9. Exact(Lines, st)'
  <2>1. /\ Lines \in [Spot -> Seq(Job)] /\ Lines' \in [Spot -> Seq(Job)] /\ Lines[-1] = queue
        /\ Lines'[-1] = queue
        /\ \A v \in Worker : Lines[v] = queues[v] /\ Lines'[v] = IF v = w THEN <<>> ELSE queues[v]
    <3>1. Lines \in [Spot -> Seq(Job)] /\ Lines' \in [Spot -> Seq(Job)]
      BY <1>3 DEF TypeOK, Lines, Line, Spot
    <3> QED BY <1>1, <1>2, <3>1, LimitFacts DEF Lines, Line, Spot
  <2>2. \A m \in Spot : Lines'[m] = Lines[m] \/ Lines'[m] = <<>>
    BY <2>1 DEF Spot
  <2>3. ASSUME NEW m \in Spot, NEW i \in 1..Len(Lines[m])
        PROVE  st'[Lines[m][i]] = "queued" <=> Lines'[m] = Lines[m]
    <3>1. Lines[m][i] \in Job /\ st[Lines[m][i]] = "queued" /\ Lines[m] # <<>>
      BY <2>1, ElementOfSeq, EmptySeq DEF Exact
    <3>2. CASE m = -1
      BY <1>4, <2>1, <3>1, <3>2 DEF Modes
    <3>3. CASE m \in Worker
      <4>1. affinity  BY <2>1, <3>1, <3>3 DEF Modes
      <4>2. home[Lines[m][i]] = m  BY <2>1, <3>3 DEF Limits
      <4> QED BY <1>4, <2>1, <3>1, <3>3, <4>1, <4>2
    <3> QED BY <3>2, <3>3 DEF Spot
  <2>4. \A j \in Job : st'[j] = "queued" => st[j] = "queued"  BY <1>4
  <2>5. Exact(Lines', st')
    <3>1. Lines \in [Spot -> Seq(Job)] /\ Lines' \in [Spot -> Seq(Job)] /\ Exact(Lines, st)
      BY <2>1
    <3> QED BY <2>2, <2>3, <2>4, <3>1, ExactClear
  <2> QED BY <2>5
<1>10. MannedByKey'
  <2> SUFFICES ASSUME affinity, NEW v \in Worker
               PROVE  (busy'[v] <=> PendingOn(v)' # {}) /\ (queues'[v] # <<>> => busy'[v])
    BY <1>1 DEF MannedByKey, env
  <2>1. CASE v = w
    <3>1. PendingOn(v)' = {}  BY <1>7, <2>1 DEF PendingOn
    <3> QED BY <1>2, <2>1, <3>1
  <2>2. CASE v # w
    <3>1. PendingOn(v)' = PendingOn(v) /\ busy'[v] = busy[v] /\ queues'[v] = queues[v]
      BY <1>2, <1>7, <2>2
    <3>2. (busy[v] <=> PendingOn(v) # {}) /\ (queues[v] # <<>> => busy[v])
      BY <1>1 DEF MannedByKey
    <3> QED BY <3>1, <3>2
  <2> QED BY <2>1, <2>2
<1>11. MannedByStack'
  <2> SUFFICES ASSUME ~affinity PROVE MannedByStack'
    BY <1>1 DEF MannedByStack, env
  <2>1. ASSUME NEW v \in Worker, worker'[v] = "alive", PendingOn(v)' = {}
        PROVE  \E i \in 1..Len(idle) : idle[i] = v
    <3>1. v # w  BY <1>2, <2>1
    <3>2. PendingOn(v) = {} /\ worker[v] = "alive"  BY <1>2, <1>7, <2>1, <3>1
    <3> QED BY <1>1, <3>2 DEF MannedByStack
  <2> QED BY <1>1, <1>4, <2>1 DEF MannedByStack
<1> QED BY <1>3, <1>5, <1>6, <1>8, <1>9, <1>10, <1>11

-------------------------------------------------------------------------------
(* Shutdown.                                                                 *)

LEMMA TerminateStep == ASSUME IInv, Terminate PROVE IInv'
<1> USE DEF IInv
<1>1. phase = "open" /\ phase' = "terminating" /\ UNCHANGED <<env, pool, worker, st, on, next, todo>>
  BY DEF Terminate
<1>2. TypeOK'
  BY <1>1 DEF TypeOK, env, pool
<1>3. (\A v : PendingOn(v)' = PendingOn(v)) /\ OnePending'
  BY <1>1, PendingSame
<1>4. Exact(Lines, st)'
  BY <1>1, ExactSame DEF pool
<1> QED BY <1>1, <1>2, <1>3, <1>4 DEF Modes, Handed, Limits, MannedByKey, MannedByStack, env, pool

LEMMA DrainStep == ASSUME IInv, Drain PROVE IInv'
<1> USE DEF IInv
<1>1. /\ todo = <<>> /\ phase' = "down" /\ idle' = <<>> /\ queue' = <<>>
      /\ queues' = [w \in Worker |-> <<>>] /\ busy' = [w \in Worker |-> FALSE]
      /\ st' = [j \in Job |-> IF st[j] \in Pending \cup {"queued"} THEN "shutdown" ELSE st[j]]
      /\ UNCHANGED <<env, worker, on, next, todo>>
  BY DEF Drain, Mark
<1>2. TypeOK'
  BY <1>1 DEF TypeOK, env, JobStates, Answers
<1>3. \A j \in Job : st'[j] \notin Pending /\ st'[j] # "queued" /\ (st[j] = "new" => st'[j] = "new")
  BY <1>1 DEF Pending
<1>4. Handed' /\ Modes'
  BY <1>1, <1>3 DEF Handed, Modes, env
<1>5. Limits'
  BY <1>1, LimitFacts DEF Limits
<1>6. Exact(Lines, st)'
  <2>1. \A m \in Spot : Lines'[m] = <<>>  BY <1>1 DEF Lines, Line, Spot
  <2> QED BY <1>3, <2>1 DEF Exact
<1>7. OnePending' /\ MannedByKey' /\ MannedByStack'
  BY <1>1, <1>3 DEF OnePending, MannedByKey, MannedByStack
<1> QED BY <1>2, <1>4, <1>5, <1>6, <1>7

-------------------------------------------------------------------------------
(* The invariant.                                                            *)

LEMMA NextIInv == IInv /\ [Next]_vars => IInv'
<1> SUFFICES ASSUME IInv, [Next]_vars PROVE IInv'
  OBVIOUS
<1>1. ASSUME NEW n \in 1..MaxBatch, BatchAdmitted(n) \/ BatchRefused(n) PROVE IInv'
  BY <1>1, BatchStep
<1>2. CASE Turn
  BY <1>2, RunOnIdleStep, RunOnHomeStep, RunQueuesStep, RunOverloadedStep DEF Turn
<1>3. ASSUME NEW w \in Worker, NEW j \in Job, WorkerReplies(w, j) \/ WorkerDies(w, j) PROVE IInv'
  BY <1>3, WorkerStep
<1>4. ASSUME NEW j \in Job, Message(j) PROVE IInv'
  BY <1>4, MessageNextStep, MessageIdleStep
<1>5. ASSUME NEW w \in Worker, WorkerError(w) PROVE IInv'
  BY <1>5, WorkerErrorStep
<1>6. CASE Terminate \/ Drain
  BY <1>6, TerminateStep, DrainStep
<1>7. CASE UNCHANGED vars
  <2>1. UNCHANGED <<affinity, home, idle, queue, queues, busy, worker, st, on, phase, next, todo>>
    BY <1>7 DEF vars, env, pool
  <2>2. Exact(Lines, st)'
    BY <2>1, ExactSame
  <2>3. TypeOK /\ OnePending /\ TypeOK' /\ Modes' /\ Handed' /\ Limits'
    BY <2>1 DEF IInv, TypeOK, Modes, Handed, Limits
  <2>4. (\A w : PendingOn(w)' = PendingOn(w)) /\ OnePending'
    BY <2>1, <2>3, PendingSame
  <2>5. MannedByKey' /\ MannedByStack'
    BY <2>1, <2>4 DEF IInv, MannedByKey, MannedByStack
  <2> QED BY <2>2, <2>3, <2>4, <2>5 DEF IInv
<1> QED BY <1>1, <1>2, <1>3, <1>4, <1>5, <1>6, <1>7 DEF Next

THEOREM Invariant == Spec => []IInv
BY InitIInv, NextIInv, PTL DEF Spec

\* Every variable keeps its type, whatever the workers do and in whichever order their
\* events reach the pool.
THEOREM TypeCorrect == Spec => []TypeOK
<1>1. IInv => TypeOK  BY DEF IInv
<1> QED BY <1>1, Invariant, PTL

\* A worker is never posted a second job before its first one was answered: _dispatch after
\* run(), after _release and after an error event, in both modes.
THEOREM OneJobPerWorker == Spec => []OneJobEach
<1>1. ASSUME IInv PROVE OneJobEach
  <2> SUFFICES ASSUME NEW w \in Worker PROVE Cardinality(PendingOn(w)) <= 1
    BY DEF OneJobEach
  <2>1. CASE PendingOn(w) = {}
    BY <2>1, FS_EmptySet
  <2>2. CASE PendingOn(w) # {}
    <3>1. PICK j \in PendingOn(w) : TRUE  BY <2>2
    <3>2. PendingOn(w) = {j}  BY <1>1, <3>1 DEF IInv, OnePending, PendingOn
    <3>3. Cardinality({j}) = 1  BY FS_Singleton
    <3> QED BY <3>2, <3>3
  <2> QED BY <2>1, <2>2
<1> QED BY <1>1, Invariant, PTL

\* A worker that lives is idle or at work and no job waits behind an idle one: the idle stack
\* and the busy flags agree with the pending map.
THEOREM WorkersAreManned == Spec => []NoWorkerForgotten
<1>1. ASSUME IInv PROVE NoWorkerForgotten
  <2> SUFFICES ASSUME phase # "down", NEW w \in Worker, worker[w] = "alive"
               PROVE  IF affinity
                        THEN (busy[w] <=> PendingOn(w) # {}) /\ (queues[w] # <<>> => busy[w])
                        ELSE /\ (\E i \in DOMAIN idle : idle[i] = w) <=> PendingOn(w) = {}
                             /\ queue # <<>> => idle = <<>>
    BY DEF NoWorkerForgotten
  <2>1. CASE affinity
    BY <1>1, <2>1 DEF IInv, MannedByKey
  <2>2. CASE ~affinity
    <3>1. DOMAIN idle = 1..Len(idle)  BY <1>1, LenProperties DEF IInv, TypeOK
    <3>2. queue # <<>> => idle = <<>>  BY <1>1, <2>2 DEF IInv, MannedByStack
    <3>3. PendingOn(w) = {} => \E i \in 1..Len(idle) : idle[i] = w
      BY <1>1, <2>2 DEF IInv, MannedByStack
    <3>4. ASSUME NEW i \in 1..Len(idle), idle[i] = w PROVE PendingOn(w) = {}
      BY <1>1, <2>2, <3>4 DEF IInv, MannedByStack, PendingOn
    <3> QED BY <2>2, <3>1, <3>2, <3>3, <3>4
  <2> QED BY <2>1, <2>2
<1> QED BY <1>1, Invariant, PTL

\* A job waits in one place only, the jobs that wait are the ones the pool calls queued, and no
\* queue outgrows its limit.
THEOREM QueuesAreTrue == Spec => []QueuesAreExact
<1>1. ASSUME IInv PROVE QueuesAreExact
  <2> USE <1>1 DEF IInv
  <2>1. \A l \in Spot : Lines[l] = Line(l) /\ DOMAIN Line(l) = 1..Len(Lines[l])
    <3>1. \A l \in Spot : Line(l) \in Seq(Job)  BY LimitFacts DEF TypeOK, Line, Spot
    <3> QED BY <3>1, LenProperties DEF Lines
  <2>2. ASSUME NEW j \in Job PROVE Cardinality(Places(j)) = (IF st[j] = "queued" THEN 1 ELSE 0)
    <3>1. \A p : p \in Places(j) <=>
            \E l \in Spot : \E i \in 1..Len(Lines[l]) : Lines[l][i] = j /\ p = <<l, i>>
      BY <2>1 DEF Places
    <3>2. CASE st[j] = "queued"
      <4>1. PICK l \in Spot, i \in Nat : i \in 1..Len(Lines[l]) /\ Lines[l][i] = j
        BY <3>2, LinesType, LenProperties DEF Exact
      <4>2. \A m \in Spot : \A k \in 1..Len(Lines[m]) : Lines[m][k] = j => m = l /\ k = i
        BY <4>1 DEF Exact
      <4>3. Places(j) = {<<l, i>>}
        BY <3>1, <4>1, <4>2
      <4> QED BY <3>2, <4>3, FS_Singleton
    <3>3. CASE st[j] # "queued"
      <4>1. Places(j) = {}  BY <3>1, <3>3 DEF Exact
      <4> QED BY <3>3, <4>1, FS_EmptySet
    <3> QED BY <3>2, <3>3
  <2> QED BY <2>2 DEF QueuesAreExact, Limits
<1> QED BY <1>1, Invariant, PTL
===============================================================================
