--------------------------- MODULE WriterLock_proofs ---------------------------
(***************************************************************************)
(* Proofs about WriterLock, for any set of processes and hosts.            *)
(***************************************************************************)
EXTENDS WriterLock, TLAPS

-------------------------------------------------------------------------------
(* The inductive invariant.                                                *)
Holds(p) == lease # NoLease /\ lease.holder = p

\* The lease is what its holder wrote, and its holder is past acquiring.
LeaseOfHolder ==
  \A p \in Proc : Holds(p) => lease.fence = fence[p] /\ pc[p] \notin {"off", "deciding"}

StampsArePast == \A p \in Proc : stampAt[p] <= stamp

\* A process between check and record is up; it still holds the lease exactly when
\* the file was not replaced or removed since the check.
CheckedKnows ==
  \A p \in Proc : checked[p] => pc[p] = "up" /\ (Holds(p) <=> stampAt[p] = stamp)

\* A straggler has lost the lease for good and has no record left to write.
StragglerIsDone ==
  \A p \in Proc : late[p] # 0 =>
    late[p] = 1 /\ ~checked[p] /\ ~Holds(p) /\ pc[p] \notin {"off", "deciding", "booting"}

\* What a process read before deciding stays a reason to take over.
MayTakeOver ==
  \A p \in Proc : pc[p] = "deciding" /\ stampAt[p] = stamp =>
    \/ lease = NoLease
    \/ lease.expired
    \/ HostOf[lease.holder] # HostOf[p]
    \/ ~Alive(lease.holder)

\* Without a straggler, the log is intact and the RAM chain of a holder that is up
\* stands at the end of it, one further between the check and the record.
HolderIsCurrent ==
  ~straggled =>
    /\ Loadable
    /\ \A p \in Proc : Holds(p) /\ pc[p] = "up" =>
         ram[p] = Len(log) + (IF checked[p] THEN 1 ELSE 0)

IInv == /\ TypeOK /\ LeaseOfHolder /\ StampsArePast /\ CheckedKnows
        /\ StragglerIsDone /\ MayTakeOver /\ HolderIsCurrent

-------------------------------------------------------------------------------
LEMMA InitIInv == Init => IInv
<1> SUFFICES ASSUME Init PROVE IInv
  OBVIOUS
<1>1. TypeOK
  <2>1. lease \in Lease \cup {NoLease} /\ pc \in [Proc -> PcStates]
    BY DEF Init, PcStates
  <2>2. <<>> \in Seq(Nat) /\ 0 \in Nat /\ FALSE \in BOOLEAN
    OBVIOUS
  <2> QED BY <2>1, <2>2, Zenon DEF Init, TypeOK
<1>2. Loadable /\ LeaseOfHolder /\ HolderIsCurrent
  BY DEF Init, Loadable, LeaseOfHolder, HolderIsCurrent, Holds
<1>3. StampsArePast /\ CheckedKnows /\ StragglerIsDone /\ MayTakeOver
  BY DEF Init, StampsArePast, CheckedKnows, StragglerIsDone, MayTakeOver
<1> QED BY <1>1, <1>2, <1>3 DEF IInv

\* A record appended to an intact log keeps it intact when it is the next one.
LEMMA AppendNext ==
  ASSUME NEW s \in Seq(Nat), \A i \in DOMAIN s : s[i] = i
  PROVE  \A i \in DOMAIN Append(s, Len(s) + 1) : Append(s, Len(s) + 1)[i] = i
<1>1. Len(s) \in Nat /\ DOMAIN s = 1..Len(s)
  OBVIOUS
<1> QED BY <1>1

LEMMA TypeNext == TypeOK /\ [Next]_vars => TypeOK'
<1> SUFFICES ASSUME TypeOK, [Next]_vars PROVE TypeOK'
  OBVIOUS
<1> USE DEF TypeOK, PcStates, Lease
<1>1. CASE Expire
  <2>1. lease \in Lease /\ lease' = [lease EXCEPT !.expired = TRUE]
    BY <1>1 DEF Expire
  <2>2. lease' \in Lease
    BY <2>1
  <2> QED BY <1>1, <2>2 DEF Expire
<1>2. ASSUME NEW p \in Proc, AcquireRead(p) PROVE TypeOK'
  <2>1. (IF lease = NoLease THEN 0 ELSE lease.fence) \in Nat
    OBVIOUS
  <2> QED BY <1>2, <2>1 DEF AcquireRead, Goto
<1>3. ASSUME NEW p \in Proc, AcquireRefused(p) \/ AcquireWriteFails(p) PROVE TypeOK'
  BY <1>3 DEF AcquireRefused, AcquireWriteFails, Goto
<1>4. ASSUME NEW p \in Proc, AcquireWrite(p) PROVE TypeOK'
  <2>1. lease' \in Lease
    BY <1>4 DEF AcquireWrite
  <2> QED BY <1>4, <2>1 DEF AcquireWrite, Goto
<1>5. ASSUME NEW p \in Proc, Load(p) PROVE TypeOK'
  <2>1. Len(log) \in Nat
    OBVIOUS
  <2>2. pc' \in [Proc -> PcStates] /\ ram' \in [Proc -> Nat]
    BY <1>5, <2>1 DEF Load, Goto
  <2> QED BY <1>5, <2>2 DEF Load
<1>6. ASSUME NEW p \in Proc, CheckFence(p) PROVE TypeOK'
  BY <1>6 DEF CheckFence, LeaseIsMine
<1>7. ASSUME NEW p \in Proc, AppendRecord(p) PROVE TypeOK'
  BY <1>7 DEF AppendRecord, Overtaken
<1>8. ASSUME NEW p \in Proc, ReleaseRead(p) PROVE TypeOK'
  BY <1>8 DEF ReleaseRead, Goto
<1>9. ASSUME NEW p \in Proc, ReleaseUnlink(p) PROVE TypeOK'
  BY <1>9 DEF ReleaseUnlink, Goto
<1>10. ASSUME NEW p \in Proc, Crash(p) PROVE TypeOK'
  BY <1>10 DEF Crash, Goto
<1>11. CASE UNCHANGED vars
  BY <1>11 DEF vars
<1> QED
  BY <1>1, <1>2, <1>3, <1>4, <1>5, <1>6, <1>7, <1>8, <1>9, <1>10, <1>11 DEF Next, Step

\* A lease that is there names a process.
LEMMA LeaseTyped == TypeOK /\ lease # NoLease => lease.holder \in Proc /\ lease.fence \in Nat
BY DEF TypeOK, Lease

LEMMA NextIInv == IInv /\ [Next]_vars => IInv'
<1> SUFFICES ASSUME IInv, [Next]_vars PROVE IInv'
  OBVIOUS
<1> USE DEF Holds
<1>1. TypeOK /\ TypeOK'
  BY TypeNext DEF IInv
<1>2. CASE Expire
  <2>1. /\ \A p \in Proc : Holds(p)' <=> Holds(p)
        /\ lease' # NoLease /\ lease' = [lease EXCEPT !.expired = TRUE]
        /\ lease \in Lease
        /\ UNCHANGED <<pc, prior, fence, checked, ram, log, stamp, stampAt, straggled, late>>
    BY <1>1, <1>2, NoLeaseAssumption DEF Expire, TypeOK, Lease
  <2>2. LeaseOfHolder' /\ lease'.expired
    BY <1>1, <2>1 DEF IInv, LeaseOfHolder, Lease
  <2>3. CheckedKnows' /\ StragglerIsDone' /\ StampsArePast'
    BY <1>1, <2>1 DEF IInv, CheckedKnows, StragglerIsDone, StampsArePast
  <2>4. MayTakeOver' /\ HolderIsCurrent'
    BY <1>1, <2>1, <2>2 DEF IInv, MayTakeOver, HolderIsCurrent, Loadable
  <2> QED BY <1>1, <2>2, <2>3, <2>4 DEF IInv
<1>3. ASSUME NEW p \in Proc, AcquireRead(p) PROVE IInv'
  BY <1>1, <1>3 DEF AcquireRead, Goto, LiveFor, Alive, IInv, TypeOK, LeaseOfHolder,
     StampsArePast, CheckedKnows, StragglerIsDone, MayTakeOver, HolderIsCurrent, Loadable
<1>4. ASSUME NEW p \in Proc, AcquireRefused(p) \/ AcquireWriteFails(p) PROVE IInv'
  <2>1. /\ pc[p] \in {"off", "deciding"} /\ pc'[p] = "gone"
        /\ \A q \in Proc : q # p => pc'[q] = pc[q]
        /\ UNCHANGED <<lease, prior, fence, checked, ram, log, stamp, stampAt, straggled, late>>
    BY <1>1, <1>4 DEF AcquireRefused, AcquireWriteFails, Goto, TypeOK
  <2>2. LeaseOfHolder' /\ StampsArePast' /\ CheckedKnows' /\ StragglerIsDone'
    BY <2>1 DEF IInv, LeaseOfHolder, StampsArePast, CheckedKnows, StragglerIsDone
  <2>3. MayTakeOver' /\ HolderIsCurrent'
    BY <1>1, <2>1, LeaseTyped DEF IInv, MayTakeOver, HolderIsCurrent, Loadable, Alive
  <2> QED BY <1>1, <2>2, <2>3 DEF IInv
<1>5. ASSUME NEW p \in Proc, AcquireWrite(p) PROVE IInv'
  <2>1. /\ lease' # NoLease /\ lease'.holder = p /\ lease'.fence = fence'[p]
        /\ \A q \in Proc : Holds(q)' <=> q = p
        /\ pc'[p] = "booting" /\ \A q \in Proc : q # p => pc'[q] = pc[q]
        /\ \A q \in Proc : q # p => fence'[q] = fence[q]
        /\ stamp' = stamp + 1 /\ pc[p] = "deciding"
        /\ UNCHANGED <<prior, checked, ram, log, stampAt, straggled, late>>
    <3>1. /\ lease' = [fence |-> prior[p] + 1, holder |-> p, expired |-> FALSE]
          /\ lease' \in Lease
      BY <1>1, <1>5 DEF AcquireWrite, TypeOK, Lease
    <3>2. lease' # NoLease
      BY <3>1, NoLeaseAssumption DEF Lease
    <3> QED BY <1>1, <1>5, <3>1, <3>2 DEF AcquireWrite, Goto, TypeOK
  <2>2. \A q \in Proc : stampAt[q] < stamp' /\ stampAt[q] \in Nat
    BY <1>1, <2>1 DEF IInv, StampsArePast, TypeOK
  <2>3. LeaseOfHolder' /\ StampsArePast' /\ MayTakeOver' /\ HolderIsCurrent'
    BY <1>1, <2>1, <2>2 DEF IInv, LeaseOfHolder, StampsArePast, MayTakeOver,
       HolderIsCurrent, Loadable
  <2>4. CheckedKnows' /\ StragglerIsDone'
    BY <1>1, <2>1, <2>2 DEF IInv, CheckedKnows, StragglerIsDone
  <2> QED BY <1>1, <2>3, <2>4 DEF IInv
<1>6. ASSUME NEW p \in Proc, Load(p) PROVE IInv'
  <2>1. /\ pc[p] = "booting" /\ ~checked[p]
        /\ pc'[p] \in {"up", "gone"} /\ \A q \in Proc : q # p => pc'[q] = pc[q]
        /\ pc'[p] = "up" => Loadable /\ ram'[p] = Len(log)
        /\ \A q \in Proc : q # p => ram'[q] = ram[q]
        /\ UNCHANGED <<lease, prior, fence, checked, log, stamp, stampAt, straggled, late>>
    BY <1>1, <1>6 DEF Load, Goto, TypeOK, IInv, CheckedKnows
  <2>2. HolderIsCurrent'
    BY <1>1, <2>1 DEF IInv, HolderIsCurrent, Loadable, TypeOK
  <2>3. LeaseOfHolder' /\ StampsArePast' /\ CheckedKnows' /\ StragglerIsDone'
    BY <1>1, <2>1 DEF IInv, LeaseOfHolder, StampsArePast, CheckedKnows, StragglerIsDone
  <2>4. MayTakeOver'
    BY <1>1, <2>1, LeaseTyped DEF IInv, MayTakeOver, Alive
  <2> QED BY <1>1, <2>2, <2>3, <2>4 DEF IInv
<1>7. ASSUME NEW p \in Proc, CheckFence(p) PROVE IInv'
  <2>1. /\ pc[p] = "up" /\ ~checked[p] /\ (checked'[p] <=> Holds(p))
        /\ \A q \in Proc : q # p => checked'[q] = checked[q] /\ stampAt'[q] = stampAt[q]
                                    /\ ram'[q] = ram[q]
        /\ stampAt'[p] = stamp /\ ram'[p] = ram[p] + 1
        /\ UNCHANGED <<lease, pc, prior, fence, log, stamp, straggled, late>>
    <3>1. LeaseIsMine(p) <=> Holds(p)
      BY DEF LeaseIsMine, IInv, LeaseOfHolder
    <3>2. checked' = [checked EXCEPT ![p] = LeaseIsMine(p)]
      BY <1>7 DEF CheckFence
    <3>3. /\ checked'[p] = LeaseIsMine(p)
          /\ \A q \in Proc : q # p => checked'[q] = checked[q]
      BY <1>1, <3>2, Zenon DEF TypeOK
    <3>4. /\ \A q \in Proc : q # p => stampAt'[q] = stampAt[q] /\ ram'[q] = ram[q]
          /\ pc[p] = "up" /\ ~checked[p] /\ stampAt'[p] = stamp /\ ram'[p] = ram[p] + 1
          /\ UNCHANGED <<lease, pc, prior, fence, log, stamp, straggled, late>>
      BY <1>1, <1>7 DEF CheckFence, TypeOK
    <3> QED BY <3>1, <3>3, <3>4, Zenon
  <2>2. HolderIsCurrent'
    <3> SUFFICES ASSUME ~straggled
                 PROVE  /\ Loadable'
                        /\ \A q \in Proc : (Holds(q) /\ pc[q] = "up" =>
                             ram'[q] = Len(log) + (IF checked'[q] THEN 1 ELSE 0))
      BY <2>1 DEF HolderIsCurrent
    <3>1. Loadable'
      BY <2>1 DEF IInv, HolderIsCurrent, Loadable
    <3>2. ASSUME NEW q \in Proc, q # p, Holds(q), pc[q] = "up"
          PROVE  ram'[q] = Len(log) + (IF checked'[q] THEN 1 ELSE 0)
      BY <2>1, <3>2 DEF IInv, HolderIsCurrent
    <3>3. ASSUME Holds(p), pc[p] = "up"
          PROVE  ram'[p] = Len(log) + (IF checked'[p] THEN 1 ELSE 0)
      <4>1. ram[p] = Len(log) + 0 /\ Len(log) \in Nat
        BY <1>1, <2>1, <3>3 DEF IInv, HolderIsCurrent, TypeOK
      <4> QED BY <2>1, <3>3, <4>1
    <3>4. ASSUME NEW q \in Proc, Holds(q), pc[q] = "up"
          PROVE  ram'[q] = Len(log) + (IF checked'[q] THEN 1 ELSE 0)
      <4>1. CASE q = p
        BY <3>3, <3>4, <4>1
      <4>2. CASE q # p
        BY <3>2, <3>4, <4>2
      <4> QED BY <4>1, <4>2
    <3> QED BY <3>1, <3>4
  <2>3. CheckedKnows' /\ StampsArePast' /\ LeaseOfHolder'
    <3>1. LeaseOfHolder'
      BY <2>1 DEF IInv, LeaseOfHolder
    <3>2. StampsArePast'
      <4>1. stamp <= stamp /\ stamp' = stamp
        BY <1>1, <2>1 DEF TypeOK
      <4>2. ASSUME NEW q \in Proc PROVE stampAt'[q] <= stamp
        <5>1. CASE q = p
          BY <2>1, <4>1, <5>1
        <5>2. CASE q # p
          BY <2>1, <5>2 DEF IInv, StampsArePast
        <5> QED BY <5>1, <5>2
      <4> QED BY <4>1, <4>2 DEF StampsArePast
    <3>3. ASSUME NEW q \in Proc, checked'[q]
          PROVE  pc[q] = "up" /\ (Holds(q) <=> stampAt'[q] = stamp)
      <4>1. CASE q = p
        BY <2>1, <3>3, <4>1
      <4>2. CASE q # p
        BY <2>1, <3>3, <4>2 DEF IInv, CheckedKnows
      <4> QED BY <4>1, <4>2
    <3>4. CheckedKnows'
      BY <2>1, <3>3 DEF CheckedKnows
    <3> QED BY <3>1, <3>2, <3>4
  <2>4. StragglerIsDone'
    BY <1>1, <2>1 DEF IInv, StragglerIsDone, TypeOK
  <2>5. MayTakeOver'
    BY <1>1, <2>1 DEF IInv, MayTakeOver, Alive, TypeOK
  <2> QED BY <1>1, <2>2, <2>3, <2>4, <2>5 DEF IInv
<1>8. ASSUME NEW p \in Proc, AppendRecord(p) PROVE IInv'
  <2>1. /\ pc[p] = "up" /\ checked[p] /\ ~checked'[p]
        /\ log' = Append(log, ram[p])
        /\ \A q \in Proc : q # p => checked'[q] = checked[q] /\ late'[q] = late[q]
        /\ Holds(p) => straggled' = straggled /\ late'[p] = late[p]
        /\ ~Holds(p) => straggled' /\ late'[p] = late[p] + 1
        /\ UNCHANGED <<lease, pc, prior, fence, ram, stamp, stampAt>>
    BY <1>1, <1>8 DEF AppendRecord, Overtaken, TypeOK, IInv, CheckedKnows
  <2>2. HolderIsCurrent'
    <3>1. ASSUME ~straggled' PROVE ~straggled /\ Holds(p) /\ ram[p] = Len(log) + 1 /\ Loadable
      BY <1>1, <2>1, <3>1 DEF IInv, HolderIsCurrent
    <3>2. ASSUME ~straggled' PROVE Loadable' /\ Len(log') = Len(log) + 1
      BY <1>1, <2>1, <3>1, <3>2, AppendNext DEF Loadable, TypeOK
    <3> QED BY <1>1, <2>1, <3>1, <3>2 DEF HolderIsCurrent, TypeOK
  <2>3. StragglerIsDone'
    BY <1>1, <2>1 DEF IInv, StragglerIsDone, TypeOK
  <2>4. CheckedKnows' /\ StampsArePast' /\ LeaseOfHolder'
    BY <2>1 DEF IInv, CheckedKnows, StampsArePast, LeaseOfHolder
  <2>5. MayTakeOver'
    BY <2>1 DEF IInv, MayTakeOver, Alive
  <2> QED BY <1>1, <2>2, <2>3, <2>4, <2>5 DEF IInv
<1>9. ASSUME NEW p \in Proc, ReleaseRead(p) PROVE IInv'
  BY <1>1, <1>9 DEF ReleaseRead, Goto, Alive, IInv, TypeOK, LeaseOfHolder,
     StampsArePast, CheckedKnows, StragglerIsDone, MayTakeOver, HolderIsCurrent, Loadable
<1>10. ASSUME NEW p \in Proc, ReleaseUnlink(p) PROVE IInv'
  <2>1. \A q \in Proc : stampAt[q] < stamp'
    BY <1>1, <1>10 DEF ReleaseUnlink, IInv, StampsArePast, TypeOK
  <2> QED
    BY <1>1, <1>10, <2>1 DEF ReleaseUnlink, Goto, IInv, TypeOK, LeaseOfHolder,
       StampsArePast, CheckedKnows, StragglerIsDone, MayTakeOver, HolderIsCurrent, Loadable
<1>11. ASSUME NEW p \in Proc, Crash(p) PROVE IInv'
  BY <1>1, <1>11 DEF Crash, Goto, Alive, IInv, TypeOK, LeaseOfHolder,
     StampsArePast, CheckedKnows, StragglerIsDone, MayTakeOver, HolderIsCurrent, Loadable
<1>12. CASE UNCHANGED vars
  BY <1>1, <1>12 DEF vars, IInv, LeaseOfHolder, Alive,
     StampsArePast, CheckedKnows, StragglerIsDone, MayTakeOver, HolderIsCurrent, Loadable
<1> QED
  BY <1>2, <1>3, <1>4, <1>5, <1>6, <1>7, <1>8, <1>9, <1>10, <1>11, <1>12 DEF Next, Step

-------------------------------------------------------------------------------
\* Every variable keeps the type its declaration gives it.
THEOREM TypeCorrect == Spec => []TypeOK
<1>1. IInv => TypeOK
  BY DEF IInv
<1> QED BY <1>1, InitIInv, NextIInv, PTL DEF Spec

\* The log is intact unless a record was checked before, and written after, the
\* lease changed hands: the fence leaves no other way to spoil it.
THEOREM FencingWorks == Spec => []LogIntactUnlessStraggled
<1>1. IInv => LogIntactUnlessStraggled
  BY DEF IInv, HolderIsCurrent, LogIntactUnlessStraggled
<1> QED BY <1>1, InitIInv, NextIInv, PTL DEF Spec

\* A process that lost its lease writes at most one record.
THEOREM StragglersAreBounded == Spec => []OneStragglerEach
<1>1. IInv => OneStragglerEach
  <2> SUFFICES ASSUME IInv, NEW p \in Proc PROVE late[p] <= 1
    BY DEF OneStragglerEach
  <2>1. late[p] \in Nat
    BY DEF IInv, TypeOK
  <2>2. late[p] = 0 \/ late[p] = 1
    BY DEF IInv, StragglerIsDone
  <2> QED BY <2>1, <2>2
<1> QED BY <1>1, InitIInv, NextIInv, PTL DEF Spec

\* A fresh lease of a running same-host holder is only lost to a racing acquirer.
THEOREM FreshLeasesAreSafe == Spec => FreshLeaseIsSafe
<1> DEFINE A == lease # NoLease =>
        \A p, q \in Proc :
          Displaces(p, q) /\ ~lease.expired /\ Alive(q) /\ HostOf[p] = HostOf[q]
            => stampAt[p] # stamp
<1>1. IInv /\ [Next]_vars => [A]_vars
  <2> SUFFICES ASSUME IInv, Next, lease # NoLease, NEW p \in Proc, NEW q \in Proc,
                      Displaces(p, q), ~lease.expired, Alive(q), HostOf[p] = HostOf[q]
               PROVE  stampAt[p] # stamp
    OBVIOUS
  <2>1. PICK r \in Proc : AcquireWrite(r)
    BY DEF Next, Step, Expire, AcquireRead, AcquireRefused, AcquireWriteFails, Load,
       CheckFence, AppendRecord, ReleaseRead, ReleaseUnlink, Crash, Displaces,
       IInv, TypeOK, Lease
  <2>2. r = p /\ pc[p] = "deciding"
    BY <2>1 DEF AcquireWrite, Displaces
  <2> QED BY <2>2 DEF IInv, MayTakeOver, Displaces
<1> QED BY <1>1, InitIInv, NextIInv, PTL DEF Spec, FreshLeaseIsSafe
===============================================================================
