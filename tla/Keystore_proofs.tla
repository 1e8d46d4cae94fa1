---------------------------- MODULE Keystore_proofs ----------------------------
(***************************************************************************)
(* Proofs about Keystore, for any set of keys and masters.                 *)
(***************************************************************************)
EXTENDS Keystore, TLAPS

-------------------------------------------------------------------------------
(* Type correctness.                                                       *)

LEMMA SealTyped ==
  ASSUME TypeOK
  PROVE  /\ NoEntries \in [Key -> Seal]
         /\ \A m \in Master : Reseal(m) \in [Key -> Seal]
         /\ master \in Master => \A S \in SUBSET Key : Saved(S) \in [Key -> Seal]
         /\ Opened \subseteq Key
BY DEF TypeOK, NoEntries, Reseal, Saved, Opened, Seal

LEMMA TypeInit == Init => TypeOK
BY DEF Init, TypeOK, NoEntries, Seal

LEMMA TypeServer == TypeOK /\ ServerStep /\ UNCHANGED given => TypeOK'
<1> SUFFICES ASSUME TypeOK, ServerStep, UNCHANGED given PROVE TypeOK'
  OBVIOUS
<1>1. CASE BootMaster
  BY <1>1 DEF BootMaster, ProvidedMaster, MasterFromFile, GeneratedMaster, TypeOK, rotation
<1>9. CASE BootNoMaster
  BY <1>9 DEF BootNoMaster, TypeOK, files, rotation, history
<1>2. CASE BootLoad
  <2>1. ks' \in [Key -> Seal] /\ ram' \subseteq Key
    BY <1>2, SealTyped DEF BootLoad, TypeOK
  <2> QED BY <1>2, <2>1 DEF BootLoad, TypeOK, rotation, history
<1>3. CASE Stop \/ Crash \/ LeaseExpires
  BY <1>3 DEF Stop, Crash, LeaseExpires, TypeOK, files, rotation, history
<1>4. ASSUME NEW k \in Key, Keygen(k) PROVE TypeOK'
  <2>1. ks' \in [Key -> Seal]
    BY <1>4, SealTyped DEF Keygen, TypeOK
  <2> QED BY <1>4, <2>1 DEF Keygen, TypeOK, rotation
<1>5. ASSUME NEW k \in Key, KeygenUnsaved(k) PROVE TypeOK'
  BY <1>5 DEF KeygenUnsaved, TypeOK, rotation, files
<1>6. ASSUME NEW k \in Key, Revoke(k) PROVE TypeOK'
  BY <1>6 DEF Revoke, TypeOK, rotation
<1>7. ASSUME NEW k \in Key, RevokeUnsaved(k) PROVE TypeOK'
  BY <1>7 DEF RevokeUnsaved, TypeOK, rotation, files, history
<1>8. ASSUME NEW k \in Key, RefuseRevoked(k) PROVE TypeOK'
  BY <1>8 DEF RefuseRevoked, TypeOK, rotation, files, running
<1> QED
  BY <1>1, <1>2, <1>3, <1>4, <1>5, <1>6, <1>7, <1>8, <1>9 DEF ServerStep

LEMMA TypeTool == TypeOK /\ ToolStep /\ UNCHANGED given => TypeOK'
<1> SUFFICES ASSUME TypeOK, ToolStep, UNCHANGED given PROVE TypeOK'
  OBVIOUS
<1>1. CASE ToolRead
  <2>1. PICK m \in Master \ used :
          newMaster' = m /\ resealed' = Reseal(m) /\ used' = used \cup {m}
    BY <1>1 DEF ToolRead
  <2>2. resealed' \in [Key -> Seal]
    BY <2>1, SealTyped
  <2> QED BY <1>1, <2>1, <2>2 DEF ToolRead, TypeOK, files, running
<1>2. CASE ToolMovesKeystore
  BY <1>2, SealTyped DEF ToolMovesKeystore, TypeOK, running, history
<1>3. CASE ToolMovesMaster
  BY <1>3 DEF ToolMovesMaster, TypeOK, running, history
<1>4. CASE ToolWritesKeystore
  BY <1>4 DEF ToolWritesKeystore, TypeOK, running, history
<1>5. CASE ToolWritesMaster
  BY <1>5 DEF ToolWritesMaster, TypeOK, running, history
<1>6. CASE ToolStops
  BY <1>6 DEF ToolStops, TypeOK, files, running, history
<1> QED
  BY <1>1, <1>2, <1>3, <1>4, <1>5, <1>6 DEF ToolStep

LEMMA TypeNext == TypeOK /\ [Next]_vars => TypeOK'
<1>1. TypeOK /\ UNCHANGED vars => TypeOK'
  BY DEF TypeOK, vars, files, running, rotation, history
<1> QED BY <1>1, TypeServer, TypeTool DEF Next

\* Every variable keeps the type its declaration gives it.
THEOREM TypeCorrect == Spec => []TypeOK
BY TypeInit, TypeNext, PTL DEF Spec

-------------------------------------------------------------------------------
(* A revocation answered with 200. No assumption on the operator.          *)

LEMMA RevocationInit == Init => RevocationHolds
BY DEF Init, RevocationHolds, RevokedList, Discovery

\* revoked.json is only ever written from a set that holds all it held before.
Remembers == server = "up" => revFile \subseteq revoked

LEMMA RevocationNext ==
  TypeOK /\ Remembers /\ RevocationHolds /\ [Next]_vars => Remembers' /\ RevocationHolds'
<1> SUFFICES ASSUME Remembers, RevocationHolds, [Next]_vars
             PROVE  Remembers' /\ RevocationHolds'
  OBVIOUS
<1> USE DEF Remembers, RevocationHolds, RevokedList, Discovery, files, running, rotation, history
<1>1. CASE BootMaster \/ BootNoMaster \/ BootLoad \/ Stop \/ Crash \/ LeaseExpires
  BY <1>1 DEF BootMaster, BootNoMaster, BootLoad, Stop, Crash, LeaseExpires
<1>2. ASSUME NEW k \in Key,
             Keygen(k) \/ KeygenUnsaved(k) \/ RefuseRevoked(k)
      PROVE  Remembers' /\ RevocationHolds'
  BY <1>2 DEF Keygen, KeygenUnsaved, RefuseRevoked
<1>3. ASSUME NEW k \in Key, Revoke(k) \/ RevokeUnsaved(k)
      PROVE  Remembers' /\ RevocationHolds'
  BY <1>3 DEF Revoke, RevokeUnsaved
<1>4. CASE ToolStep
  BY <1>4 DEF ToolStep, ToolRead, ToolMovesKeystore, ToolMovesMaster,
     ToolWritesKeystore, ToolWritesMaster, ToolStops
<1>5. CASE UNCHANGED vars
  BY <1>5 DEF vars
<1> QED
  BY <1>1, <1>2, <1>3, <1>4, <1>5 DEF Next, ServerStep

\* A revocation answered with 200 is in revoked.json, and in every later server.
THEOREM RevocationsHold == Spec => []RevocationHolds
<1>1. Init => Remembers
  BY DEF Init, Remembers
<1> QED BY <1>1, TypeInit, TypeNext, RevocationInit, RevocationNext, PTL DEF Spec

-------------------------------------------------------------------------------
(* Keys, when the server is stopped for a rotation. The inductive          *)
(* invariant says where a key is safe at each stage of a boot and of a     *)
(* rotation.                                                               *)

\* What a boot takes as the master: the provider's, else what master.key holds.
Current == IF given = NoMaster THEN mk ELSE given

ToolAlone    == tool # "idle" => server = "off"
MasterLoaded == server # "off" => master = Current
\* With a provider there is no master.key, and so nothing the tool would rotate.
ProviderAlone == given # NoMaster => mk = NoMaster /\ tool = "idle"
ToolFiles ==
  /\ tool \in {"ksMoved", "moved"} => ks = NoEntries
  /\ tool \in {"moved", "ksWritten"} => mk = NoMaster
  /\ tool # "idle" => newMaster \in Master

Under(f, k, ms) == f[k] = Plain \/ (f[k] \in ms /\ f[k] # NoMaster)

\* k opens from the current files, or from a backup.
Safe(k) == Under(ks, k, {Current}) \/ \E f \in ksBaks : Under(f, k, mkBaks \cup {Current})
AckedSafe == \A k \in acked : Safe(k)

\* A server that is up has every entry that opens in its map, none in the clear.
UpServes ==
  server = "up" => \A k \in Key : ks[k] # Plain /\ (ks[k] = master => k \in ram)

\* As long as no rotation broke off, the current files, or the tool, hold every key.
Intact ==
  ~broken => \A k \in acked :
    /\ tool \in {"idle", "read"} => Under(ks, k, {Current})
    /\ tool # "idle" => resealed[k] = newMaster
    /\ tool = "ksWritten" => ks[k] = newMaster

IInv == /\ TypeOK /\ ToolAlone /\ MasterLoaded /\ ProviderAlone /\ ToolFiles
        /\ AckedSafe /\ UpServes /\ Intact

LEMMA SealsDiffer ==
  /\ Absent # Plain /\ Absent \notin Master /\ Plain \notin Master
  /\ NoMaster \notin Master /\ NoMaster # Plain /\ NoMaster # Absent
BY MasterAssumption DEF Absent, Plain

LEMMA InitIInv == Init => IInv
<1> SUFFICES ASSUME Init PROVE IInv
  OBVIOUS
<1>1. AckedSafe /\ Intact
  BY DEF Init, AckedSafe, Intact, Safe, Under
<1> QED
  BY <1>1, TypeInit DEF Init, IInv, ToolAlone, MasterLoaded, ProviderAlone, ToolFiles, UpServes

LEMMA KeysTool ==
  ASSUME IInv, TypeOK', ToolStep, UNCHANGED given, StopsFirst PROVE IInv'
<1> USE SealsDiffer DEF Under, Current
<1>0. TypeOK
  BY DEF IInv
<1>n. given = NoMaster /\ ProviderAlone'
  <2>1. tool # "idle" \/ mk # NoMaster
    BY DEF ToolStep, ToolRead, ToolMovesKeystore, ToolMovesMaster, ToolWritesKeystore,
       ToolWritesMaster, ToolStops
  <2> QED BY <2>1 DEF IInv, ProviderAlone
<1>1. CASE ToolRead
  <2>1. /\ tool = "idle" /\ tool' = "read" /\ server = "off"
        /\ \A k \in Key : ks[k] \in {mk, Plain, Absent}
        /\ newMaster' \in Master /\ resealed' = Reseal(newMaster')
        /\ UNCHANGED <<files, running, broken, acked>>
    BY <1>1 DEF ToolRead
  <2>2. ToolAlone' /\ MasterLoaded' /\ ToolFiles' /\ UpServes' /\ AckedSafe'
    BY <1>n, <2>1 DEF IInv, ToolAlone, MasterLoaded, ToolFiles, UpServes, AckedSafe, Safe,
       files, running
  <2>3. Intact'
    BY <1>0, <1>n, <2>1 DEF IInv, Intact, TypeOK, Reseal, files
  <2> QED BY <1>n, <2>2, <2>3 DEF IInv
<1>2. CASE ToolMovesKeystore
  <2>1. /\ tool = "read" /\ tool' = "ksMoved" /\ server = "off"
        /\ ksBaks' = ksBaks \cup {ks} /\ ks' = NoEntries
        /\ UNCHANGED <<mk, mkBaks, running, resealed, newMaster, broken, acked>>
    BY <1>2 DEF ToolMovesKeystore, history, IInv, ToolAlone
  <2>2. ToolAlone' /\ MasterLoaded' /\ ToolFiles' /\ UpServes'
    BY <1>n, <2>1 DEF IInv, ToolAlone, MasterLoaded, ToolFiles, UpServes, running
  <2>3. AckedSafe'
    BY <1>n, <2>1 DEF IInv, AckedSafe, Safe
  <2>4. Intact'
    BY <1>n, <2>1 DEF IInv, Intact
  <2> QED BY <1>n, <2>2, <2>3, <2>4 DEF IInv
<1>3. CASE ToolMovesMaster
  <2>1. /\ tool = "ksMoved" /\ tool' = "moved" /\ server = "off"
        /\ mkBaks' = mkBaks \cup {mk} /\ mk' = NoMaster /\ ks = NoEntries
        /\ UNCHANGED <<ks, ksBaks, running, resealed, newMaster, broken, acked>>
    BY <1>3 DEF ToolMovesMaster, history, IInv, ToolAlone, ToolFiles
  <2>2. ToolAlone' /\ MasterLoaded' /\ ToolFiles' /\ UpServes'
    BY <1>n, <2>1 DEF IInv, ToolAlone, MasterLoaded, ToolFiles, UpServes, running
  <2>3. \A k \in Key : ~Under(ks, k, {mk})
    BY <1>0, <1>n, <2>1 DEF TypeOK, NoEntries
  <2>4. AckedSafe'
    BY <1>0, <1>n, <2>1, <2>3 DEF IInv, AckedSafe, Safe, TypeOK
  <2>5. Intact'
    BY <1>n, <2>1 DEF IInv, Intact
  <2> QED BY <1>n, <2>2, <2>4, <2>5 DEF IInv
<1>4. CASE ToolWritesKeystore
  <2>1. /\ tool = "moved" /\ tool' = "ksWritten" /\ server = "off"
        /\ ks' = resealed /\ ks = NoEntries /\ mk = NoMaster
        /\ UNCHANGED <<mk, ksBaks, mkBaks, running, resealed, newMaster, broken, acked>>
    BY <1>4 DEF ToolWritesKeystore, history, IInv, ToolAlone, ToolFiles
  <2>2. ToolAlone' /\ MasterLoaded' /\ ToolFiles' /\ UpServes'
    BY <1>n, <2>1 DEF IInv, ToolAlone, MasterLoaded, ToolFiles, UpServes, running
  <2>3. \A k \in Key : ~Under(ks, k, {mk})
    BY <1>0, <1>n, <2>1 DEF TypeOK, NoEntries
  <2>4. AckedSafe'
    BY <1>0, <1>n, <2>1, <2>3 DEF IInv, AckedSafe, Safe, TypeOK
  <2>5. Intact'
    BY <1>n, <2>1 DEF IInv, Intact
  <2> QED BY <1>n, <2>2, <2>4, <2>5 DEF IInv
<1>5. CASE ToolWritesMaster
  <2>1. /\ tool = "ksWritten" /\ tool' = "idle" /\ server = "off"
        /\ mk' = newMaster /\ mk = NoMaster /\ newMaster \in Master
        /\ UNCHANGED <<ks, ksBaks, mkBaks, running, resealed, newMaster, broken, acked>>
    BY <1>5 DEF ToolWritesMaster, history, IInv, ToolAlone, ToolFiles
  <2>2. ToolAlone' /\ MasterLoaded' /\ ToolFiles' /\ UpServes'
    BY <1>n, <2>1 DEF IInv, ToolAlone, MasterLoaded, ToolFiles, UpServes, running
  <2>3. AckedSafe'
    BY <1>n, <2>1 DEF IInv, AckedSafe, Safe
  <2>4. Intact'
    BY <1>n, <2>1 DEF IInv, Intact
  <2> QED BY <1>n, <2>2, <2>3, <2>4 DEF IInv
<1>6. CASE ToolStops
  <2>1. /\ tool # "idle" /\ tool' = "idle" /\ server = "off"
        /\ broken' = (broken \/ tool # "read")
        /\ UNCHANGED <<files, running, resealed, newMaster, acked>>
    BY <1>6 DEF ToolStops, history, IInv, ToolAlone
  <2>2. ToolAlone' /\ MasterLoaded' /\ ToolFiles' /\ UpServes' /\ AckedSafe'
    BY <1>n, <2>1 DEF IInv, ToolAlone, MasterLoaded, ToolFiles, UpServes, AckedSafe, Safe,
       files, running
  <2>3. Intact'
    BY <1>n, <2>1 DEF IInv, Intact, files
  <2> QED BY <1>n, <2>2, <2>3 DEF IInv
<1> QED
  BY <1>1, <1>2, <1>3, <1>4, <1>5, <1>6 DEF ToolStep

LEMMA KeysServer ==
  ASSUME IInv, TypeOK', ServerStep, UNCHANGED given, StopsFirst PROVE IInv'
<1> USE SealsDiffer DEF Under, Current
<1>0. TypeOK
  BY DEF IInv
<1>1. CASE BootMaster
  <2>1. /\ server = "off" /\ server' = "booting" /\ tool = "idle" /\ master' = Current'
        /\ Current = NoMaster \/ Current' = Current
        /\ given # NoMaster => mk' = mk
        /\ UNCHANGED <<ks, ksBaks, mkBaks, rotation, acked>>
    BY <1>1 DEF BootMaster, ProvidedMaster, MasterFromFile, GeneratedMaster, MayRun
  <2>2. ToolAlone' /\ MasterLoaded' /\ ProviderAlone' /\ ToolFiles' /\ UpServes'
    BY <2>1 DEF IInv, ToolAlone, MasterLoaded, ProviderAlone, ToolFiles, UpServes, rotation
  <2>3. AckedSafe'
    BY <2>1 DEF IInv, AckedSafe, Safe
  <2>4. Intact'
    BY <2>1 DEF IInv, Intact, rotation
  <2> QED BY <2>2, <2>3, <2>4 DEF IInv
<1>2. CASE BootLoad
  <2>1. /\ server = "booting" /\ server' = "up" /\ tool = "idle"
        /\ master = Current /\ master \in Master /\ ram' = Opened
        /\ ks' = IF Migrates THEN Saved(Opened) ELSE ks
        /\ UNCHANGED <<mk, ksBaks, mkBaks, master, rotation, acked>>
    BY <1>0, <1>2 DEF BootLoad, TypeOK, history, IInv, ToolAlone, MasterLoaded
  <2>2. \A k \in Key : Under(ks, k, {Current}) => ks'[k] = Current /\ k \in ram'
    BY <2>1 DEF Opened, Opens, Saved, Migrates
  <2>3. \A k \in Key : ks'[k] # Plain /\ (ks'[k] = master => k \in ram')
    BY <2>1 DEF Opened, Opens, Saved, Migrates
  <2>4. ToolAlone' /\ MasterLoaded' /\ ProviderAlone' /\ ToolFiles' /\ UpServes'
    BY <2>1, <2>3 DEF IInv, ToolAlone, MasterLoaded, ProviderAlone, ToolFiles, UpServes, rotation
  <2>5. AckedSafe' /\ Intact'
    BY <1>0, <2>1, <2>2 DEF IInv, AckedSafe, Safe, Intact, TypeOK, rotation
  <2> QED BY <2>4, <2>5 DEF IInv
<1>3. ASSUME NEW k \in Key, Keygen(k) PROVE IInv'
  <2>1. /\ server = "up" /\ tool = "idle" /\ master = Current /\ master \in Master
        /\ ram' = ram \cup {k} /\ ks' = Saved(ram \cup {k}) /\ acked' = acked \cup {k}
        /\ UNCHANGED <<mk, ksBaks, mkBaks, server, master, rotation>>
    BY <1>0, <1>3 DEF Keygen, TypeOK, IInv, ToolAlone, MasterLoaded
  <2>2. \A j \in Key : Under(ks, j, {Current}) \/ j = k => ks'[j] = Current
    BY <2>1 DEF Saved, IInv, UpServes
  <2>3. \A j \in Key : ks'[j] # Plain /\ (ks'[j] = master => j \in ram')
    BY <2>1 DEF Saved
  <2>4. ToolAlone' /\ MasterLoaded' /\ ProviderAlone' /\ ToolFiles' /\ UpServes'
    BY <2>1, <2>3 DEF IInv, ToolAlone, MasterLoaded, ProviderAlone, ToolFiles, UpServes, rotation
  <2>5. AckedSafe' /\ Intact'
    BY <1>0, <2>1, <2>2 DEF IInv, AckedSafe, Safe, Intact, TypeOK, rotation
  <2> QED BY <2>4, <2>5 DEF IInv
<1>4. ASSUME NEW k \in Key,
             KeygenUnsaved(k) \/ Revoke(k) \/ RevokeUnsaved(k) \/ RefuseRevoked(k)
      PROVE  IInv'
  <2>1. /\ ram \subseteq ram'
        /\ UNCHANGED <<ks, mk, ksBaks, mkBaks, server, master, rotation, acked>>
    BY <1>4 DEF KeygenUnsaved, Revoke, RevokeUnsaved, RefuseRevoked, files, running, history
  <2> QED
    BY <2>1 DEF IInv, ToolAlone, MasterLoaded, ProviderAlone, ToolFiles, UpServes, AckedSafe, Safe,
       Intact, rotation
<1>5. CASE Stop \/ Crash \/ LeaseExpires \/ BootNoMaster
  <2>1. /\ server' = "off" \/ server' = server
        /\ UNCHANGED <<ks, mk, ksBaks, mkBaks, ram, master, rotation, acked>>
    BY <1>5 DEF Stop, Crash, LeaseExpires, BootNoMaster, files, history
  <2> QED
    BY <2>1 DEF IInv, ToolAlone, MasterLoaded, ProviderAlone, ToolFiles, UpServes, AckedSafe, Safe,
       Intact, rotation
<1> QED
  BY <1>1, <1>2, <1>3, <1>4, <1>5 DEF ServerStep

LEMMA KeysNext == StopsFirst /\ IInv /\ [Next]_vars => IInv'
<1>1. IInv /\ [Next]_vars => TypeOK'
  BY TypeNext DEF IInv
<1>2. IInv /\ UNCHANGED vars => IInv'
  BY TypeNext DEF IInv, TypeOK, ToolAlone, MasterLoaded, ProviderAlone, Current, ToolFiles, UpServes, AckedSafe,
     Safe, Under, Intact, vars, files, running, rotation, history
<1> QED BY <1>1, <1>2, KeysServer, KeysTool DEF Next

\* When the server is stopped for rotations, no acknowledged key is ever lost.
THEOREM KeysAreNeverLost == ASSUME StopsFirst PROVE Spec => []NoKeyLost
<1>1. IInv => NoKeyLost
  <2> SUFFICES ASSUME IInv, NEW k \in acked PROVE Recoverable(k)
    BY DEF NoKeyLost
  <2>1. Safe(k)
    BY DEF IInv, AckedSafe
  <2> QED BY <2>1, SealsDiffer DEF Safe, Under, Recoverable, Current
<1>2. IInv /\ [Next]_vars => IInv'
  BY KeysNext
<1> QED BY <1>1, <1>2, InitIInv, PTL DEF Spec

\* When, besides, no rotation broke off, a server that is up serves them all.
THEOREM AcknowledgedAreServed == ASSUME StopsFirst PROVE Spec => []ServesAcknowledged
<1>1. IInv => ServesAcknowledged
  <2> SUFFICES ASSUME IInv, server = "up", ~broken, NEW k \in acked PROVE k \in ram
    BY DEF ServesAcknowledged, ServesVk, KeyInfo, KeyList, Discovery
  <2>1. tool = "idle" /\ master = Current /\ k \in Key
    BY DEF IInv, ToolAlone, MasterLoaded, TypeOK
  <2>2. Under(ks, k, {Current})
    BY <2>1 DEF IInv, Intact
  <2> QED BY <2>1, <2>2 DEF Under, IInv, UpServes
<1>2. IInv /\ [Next]_vars => IInv'
  BY KeysNext
<1> QED BY <1>1, <1>2, InitIInv, PTL DEF Spec

\* A server that is up leaves no key material in the clear in keystore.json.
THEOREM NothingStaysInTheClear == ASSUME StopsFirst PROVE Spec => []NothingInTheClear
<1>1. IInv => NothingInTheClear
  BY DEF IInv, UpServes, NothingInTheClear
<1>2. IInv /\ [Next]_vars => IInv'
  BY KeysNext
<1> QED BY <1>1, <1>2, InitIInv, PTL DEF Spec
===============================================================================
