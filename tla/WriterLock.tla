------------------------------ MODULE WriterLock ------------------------------
(***************************************************************************)
(* The single-writer lease of a DATA_DIR and the chain log it protects:    *)
(* acquireWriterLock, checkFence and release of writer-lock.mjs, as        *)
(* server-sovereign.mjs uses them, by several server processes that share  *)
(* one directory and append to the file log of one key.                    *)
(*                                                                         *)
(* The lease is one file. Acquiring is a read followed by an atomic        *)
(* replace, releasing a read followed by an unlink, and an append is       *)
(* preceded by a read of the lease: between any two of these steps another *)
(* process may run. The server never renews its lease, so every lease      *)
(* expires DEFAULT_TTL_MS after it was written, whatever its holder does.  *)
(***************************************************************************)
EXTENDS Integers, Sequences, FiniteSets

CONSTANTS Proc,    \* server processes; a restart is another process
          Host,    \* machines that mount the directory
          HostOf,  \* HostOf[p]: os.hostname() of p
          NoLease, \* the content of a lease file that is not there
          MaxLog   \* bounds the model: records in the log, and RAM counters

ASSUME HostOfAssumption  == HostOf \in [Proc -> Host]
ASSUME MaxLogAssumption  == MaxLog \in Nat
ASSUME NoLeaseAssumption == NoLease \notin [fence : Nat, holder : Proc, expired : BOOLEAN]

VARIABLES
  lease,    \* the lease file: [fence, holder, expired], or NoLease
  pc,       \* "off", "deciding", "booting", "up", "releasing", "gone"
  prior,    \* prior[p]: the fence p read before deciding (0: no lease)
  fence,    \* fence[p]: the fence of the lease p wrote
  checked,  \* checked[p]: checkFence passed, the record is not written yet
  ram,      \* ram[p]: counter of p's RAM chain
  log,      \* counters in the file, in file order
  stamp,    \* history: how often the lease file was replaced or removed
  stampAt,  \* history: stamp[p]'s value when p last read the lease
  straggled,\* history: a record was written after the lease changed hands
  late      \* late[p], history: how many such records p wrote

vars == <<lease, pc, prior, fence, checked, ram, log, stamp, stampAt, straggled, late>>

Lease == [fence : Nat, holder : Proc, expired : BOOLEAN]
PcStates == {"off", "deciding", "booting", "up", "releasing", "gone"}

Init ==
  /\ lease = NoLease
  /\ pc      = [p \in Proc |-> "off"]
  /\ prior   = [p \in Proc |-> 0]
  /\ fence   = [p \in Proc |-> 0]
  /\ checked = [p \in Proc |-> FALSE]
  /\ ram     = [p \in Proc |-> 0]
  /\ log = <<>>
  /\ stamp = 0
  /\ stampAt = [p \in Proc |-> 0]
  /\ straggled = FALSE
  /\ late = [p \in Proc |-> 0]

Alive(p) == pc[p] \notin {"off", "gone"}
Loadable == \A i \in DOMAIN log : log[i] = i

-------------------------------------------------------------------------------
\* Mutant: the liveness probe is made for leases of other hosts.
LiveElsewhere(p) ==
  /\ lease # NoLease
  /\ ~lease.expired
  /\ HostOf[lease.holder] # HostOf[p]
  /\ Alive(lease.holder)

\* Somebody else's lease is in force: unexpired, of this host, its pid alive.
LiveFor(p) ==
  /\ lease # NoLease
  /\ ~lease.expired
  /\ HostOf[lease.holder] = HostOf[p]
  /\ Alive(lease.holder)

Goto(p, s) == pc' = [pc EXCEPT ![p] = s]

\* acquireWriterLock, its read: nothing or a lease that is not live.
AcquireRead(p) ==
  /\ pc[p] = "off"
  /\ ~LiveFor(p)
  /\ prior' = [prior EXCEPT ![p] = IF lease = NoLease THEN 0 ELSE lease.fence]
  /\ stampAt' = [stampAt EXCEPT ![p] = stamp]
  /\ Goto(p, "deciding")
  /\ UNCHANGED <<lease, fence, checked, ram, log, stamp, straggled, late>>

\* WRITER_LOCK_HELD: the process does not start. The probe only asks whether the
\* recorded pid exists, and the pid of a holder that is gone may be in use again.
AcquireRefused(p) ==
  /\ pc[p] = "off"
  /\ lease # NoLease
  /\ ~lease.expired
  /\ HostOf[lease.holder] = HostOf[p]
  /\ Goto(p, "gone")
  /\ UNCHANGED <<lease, prior, fence, checked, ram, log, stamp, stampAt, straggled, late>>

\* writeLease: a durable replace of the file, with the next fence.
AcquireWrite(p) ==
  /\ pc[p] = "deciding"
  /\ lease' = [fence |-> prior[p] + 1, holder |-> p, expired |-> FALSE]
  /\ fence' = [fence EXCEPT ![p] = prior[p] + 1]
  /\ stamp' = stamp + 1
  /\ Goto(p, "booting")
  /\ UNCHANGED <<prior, checked, ram, log, stampAt, straggled, late>>

\* A peer's cleanupStaleTmp removed the temporary file: rename throws, no start.
AcquireWriteFails(p) ==
  /\ pc[p] = "deciding"
  /\ \E q \in Proc \ {p} : pc[q] # "off"
  /\ Goto(p, "gone")
  /\ UNCHANGED <<lease, prior, fence, checked, ram, log, stamp, stampAt, straggled, late>>

\* loadKeystore reads the log and restores the RAM chain, or exits.
Load(p) ==
  /\ pc[p] = "booting"
  /\ IF Loadable THEN Goto(p, "up") /\ ram' = [ram EXCEPT ![p] = Len(log)]
                 ELSE Goto(p, "gone") /\ UNCHANGED ram
  /\ UNCHANGED <<lease, prior, fence, checked, log, stamp, stampAt, straggled, late>>

-------------------------------------------------------------------------------
\* Mutant: the fence alone tells whose lease it is.
FenceIsMine(p) ==
  /\ lease # NoLease
  /\ lease.fence = fence[p]

\* checkFence compares the fence and the holder in the file with its own.
LeaseIsMine(p) ==
  /\ lease # NoLease
  /\ lease.fence = fence[p]
  /\ lease.holder = p

\* The issue path up to checkFence: the ratchet moves first.
CheckFence(p) ==
  /\ pc[p] = "up"
  /\ ~checked[p]
  /\ ram[p] < MaxLog
  /\ ram' = [ram EXCEPT ![p] = @ + 1]
  /\ checked' = [checked EXCEPT ![p] = LeaseIsMine(p)]
  /\ stampAt' = [stampAt EXCEPT ![p] = stamp]
  /\ UNCHANGED <<lease, pc, prior, fence, log, stamp, straggled, late>>

Overtaken(p) == stampAt[p] # stamp

\* Mutant: a check that passed once is good for every later record.
AppendOnOldCheck(p) ==
  /\ pc[p] = "up"
  /\ checked[p]
  /\ Len(log) < 2 * MaxLog
  /\ log' = Append(log, ram[p])
  /\ straggled' = (straggled \/ Overtaken(p))
  /\ late' = [late EXCEPT ![p] = IF Overtaken(p) THEN @ + 1 ELSE @]
  /\ UNCHANGED <<lease, pc, prior, fence, checked, ram, stamp, stampAt>>

AppendRecord(p) ==
  /\ pc[p] = "up"
  /\ checked[p]
  /\ Len(log) < 2 * MaxLog
  /\ log' = Append(log, ram[p])
  /\ checked' = [checked EXCEPT ![p] = FALSE]
  /\ straggled' = (straggled \/ Overtaken(p))
  /\ late' = [late EXCEPT ![p] = IF Overtaken(p) THEN @ + 1 ELSE @]
  /\ UNCHANGED <<lease, pc, prior, fence, ram, stamp, stampAt>>

-------------------------------------------------------------------------------
\* Teardown calls release: read the file, and unlink it if the holder is this one.
ReleaseRead(p) ==
  /\ pc[p] = "up"
  /\ ~checked[p]
  /\ Goto(p, IF lease # NoLease /\ lease.holder = p THEN "releasing" ELSE "gone")
  /\ UNCHANGED <<lease, prior, fence, checked, ram, log, stamp, stampAt, straggled, late>>

ReleaseUnlink(p) ==
  /\ pc[p] = "releasing"
  /\ lease' = NoLease
  /\ stamp' = stamp + 1
  /\ Goto(p, "gone")
  /\ UNCHANGED <<prior, fence, checked, ram, log, stampAt, straggled, late>>

Crash(p) ==
  /\ Alive(p)
  /\ Goto(p, "gone")
  /\ checked' = [checked EXCEPT ![p] = FALSE]
  /\ UNCHANGED <<lease, prior, fence, ram, log, stamp, stampAt, straggled, late>>

\* Time passes: the lease was written 30 seconds ago.
Expire ==
  /\ lease # NoLease
  /\ ~lease.expired
  /\ lease' = [lease EXCEPT !.expired = TRUE]
  /\ UNCHANGED <<pc, prior, fence, checked, ram, log, stamp, stampAt, straggled, late>>

-------------------------------------------------------------------------------
Step(p) ==
  \/ AcquireRead(p) \/ AcquireRefused(p) \/ AcquireWrite(p) \/ AcquireWriteFails(p)
  \/ Load(p) \/ CheckFence(p) \/ AppendRecord(p)
  \/ ReleaseRead(p) \/ ReleaseUnlink(p) \/ Crash(p)

Next == Expire \/ \E p \in Proc : Step(p)

Spec == Init /\ [][Next]_vars

-------------------------------------------------------------------------------
\* Type invariant: every variable holds what its declaration says.
TypeOK ==
  /\ lease \in Lease \cup {NoLease}
  /\ pc \in [Proc -> PcStates]
  /\ prior \in [Proc -> Nat] /\ fence \in [Proc -> Nat]
  /\ checked \in [Proc -> BOOLEAN]
  /\ ram \in [Proc -> Nat]
  /\ log \in Seq(Nat)
  /\ stamp \in Nat /\ stampAt \in [Proc -> Nat]
  /\ straggled \in BOOLEAN
  /\ late \in [Proc -> Nat]

\* Fencing: two processes on one directory, on one host or several, with leases
\* expiring, stolen, released and reused, never spoil the log, except through a
\* record whose check passed before the lease changed hands.
LogIntactUnlessStraggled == ~straggled => Loadable

\* A process that lost its lease writes at most the one record it had checked.
OneStragglerEach == \A p \in Proc : late[p] <= 1

\* A lease whose same-host holder runs and that has not expired is replaced only
\* by a process that read the file before that lease was written.
Displaces(p, q) == p # q /\ lease.holder = q /\ lease' # NoLease /\ lease'.holder = p
FreshLeaseIsSafe ==
  [][ lease # NoLease =>
        \A p, q \in Proc :
          Displaces(p, q) /\ ~lease.expired /\ Alive(q) /\ HostOf[p] = HostOf[q]
            => stampAt[p] # stamp ]_vars

-------------------------------------------------------------------------------
\* server-sovereign.mjs 77: "Refuse to start if another live qv-server is already
\* writing to this DATA_DIR." Not so once the lease, which nobody renews, has expired.
\* No run checks it.
RefusesWhileHolderRuns ==
  [][ lease # NoLease =>
        \A p, q \in Proc :
          Displaces(p, q) /\ pc[q] = "up" /\ HostOf[p] = HostOf[q]
            => stampAt[p] # stamp ]_vars
===============================================================================
