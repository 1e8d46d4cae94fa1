------------------------------- MODULE Keystore -------------------------------
(***************************************************************************)
(* The files that outlive a server: master.key, keystore.json and          *)
(* revoked.json, as the server (server-sovereign.mjs, master-key.mjs) and  *)
(* the rotation tool (rotate-master.mjs) read and replace them.            *)
(*                                                                         *)
(* A durable write replaces a file in one step or throws and leaves it     *)
(* alone (durable.mjs: temporary file, fsync, rename); a crash may come    *)
(* between any two of the steps below. Sealing is modelled by its effect:  *)
(* an entry opens under the master it was sealed with and no other.        *)
(***************************************************************************)
EXTENDS Integers, FiniteSets

CONSTANTS Key,        \* key ids; keygen draws a fresh one
          Master,     \* master keys: generated, given to the tool, or by a provider
          NoMaster,   \* master.key is not there, or no provider is configured
          StopsFirst  \* the operator stops the server for the time of a rotation

Absent == "absent"    \* the file has no entry for the key
Plain  == "plain"     \* a pre-sealing entry, its key material in the clear

ASSUME MasterAssumption ==
  /\ NoMaster \notin Master
  /\ {Absent, Plain} \cap (Master \cup {NoMaster}) = {}
ASSUME StopsFirstAssumption == StopsFirst \in BOOLEAN

VARIABLES
  given,     \* what the env or exec provider gives; NoMaster: the file provider
  ks,        \* keystore.json: ks[k] says how k's entry is sealed (no file: no entry)
  mk,        \* master.key
  revFile,   \* revoked.json
  ksBaks,    \* keystore.json.bak.<timestamp> files
  mkBaks,    \* master.key.bak.<timestamp> files
  lease,     \* the writer lease is there and has not expired
  server,    \* "off", "booting", "up"
  master,    \* MASTER_KEY of the running server
  ram,       \* keys in the running server's keystore map
  revoked,   \* the running server's revoked set
  tool,      \* how far a rotation got: "idle", "read", "ksMoved", "moved", "ksWritten"
  resealed,  \* the keystore the tool is about to write
  newMaster, \* the master the tool is rotating to
  used,      \* masters that were ever drawn
  acked,     \* keys a 201 was sent for, or that were there from the start
  born,      \* key ids ever drawn
  sure,      \* keys whose revocation was answered 200
  told,      \* keys some client was told are revoked: 200, 409 or 410
  broken     \* a rotation stopped between its first rename and its last write

files    == <<ks, mk, revFile, ksBaks, mkBaks>>
running  == <<server, master, ram, revoked, lease>>
rotation == <<tool, resealed, newMaster, broken>>
history  == <<used, acked, born, sure, told>>
vars     == <<given, files, running, rotation, history>>

Seal == Master \cup {Plain, Absent}
NoEntries == [k \in Key |-> Absent]

\* A first start, or a data directory of a version that did not seal.
Init ==
  /\ \E L \in SUBSET Key :
       /\ ks = [k \in Key |-> IF k \in L THEN Plain ELSE Absent]
       /\ acked = L /\ born = L
  /\ given \in Master \cup {NoMaster} /\ used = {given} \cap Master
  /\ mk = NoMaster /\ revFile = {} /\ ksBaks = {} /\ mkBaks = {}
  /\ server = "off" /\ master = NoMaster /\ ram = {} /\ revoked = {} /\ lease = FALSE
  /\ tool = "idle" /\ resealed = NoEntries /\ newMaster = NoMaster /\ broken = FALSE
  /\ sure = {} /\ told = {}

-------------------------------------------------------------------------------
(***************************************************************************)
(* The server.                                                             *)
(***************************************************************************)
MayRun == StopsFirst => tool = "idle"

\* loadMasterKey: the providers in its order. A configured one decides alone.
ProvidedMaster ==
  /\ given # NoMaster
  /\ master' = given
  /\ UNCHANGED <<mk, used>>
MasterFromFile ==
  /\ given = NoMaster /\ mk # NoMaster
  /\ master' = mk
  /\ UNCHANGED <<mk, used>>
GeneratedMaster ==
  /\ given = NoMaster /\ mk = NoMaster
  /\ \E m \in Master \ used : master' = m /\ mk' = m /\ used' = used \cup {m}

\* The lease is taken and the master key loaded.
BootMaster ==
  /\ server = "off" /\ MayRun
  /\ ProvidedMaster \/ MasterFromFile \/ GeneratedMaster
  /\ server' = "booting" /\ lease' = TRUE /\ ram' = {} /\ revoked' = {}
  /\ UNCHANGED <<ks, revFile, ksBaks, mkBaks, rotation, acked, born, sure, told>>

\* The provider throws (its command fails or prints no key; the file cannot be read
\* or written): the process exits, and leaves the lease behind.
BootNoMaster ==
  /\ server = "off" /\ MayRun
  /\ lease' = TRUE
  /\ UNCHANGED <<files, server, master, ram, revoked, rotation, history>>

\* Entries that do not open under the master are skipped, with a log line.
Opens(k) == ks[k] \in {master, Plain}
Opened   == {k \in Key : Opens(k)}
Migrates == \E k \in Opened : ks[k] = Plain

\* saveKeystore writes the entries of the RAM map and nothing else.
Saved(keys) == [k \in Key |-> IF k \in keys THEN master ELSE Absent]

\* Mutants: no save after a migration; no loadRevoked.
BootLoadUnmigrated ==
  /\ server = "booting"
  /\ ram' = Opened
  /\ revoked' = revFile
  /\ server' = "up"
  /\ UNCHANGED <<files, master, lease, rotation, history>>
BootLoadUnrevoked ==
  /\ server = "booting"
  /\ ram' = Opened
  /\ ks' = IF Migrates THEN Saved(Opened) ELSE ks
  /\ server' = "up"
  /\ UNCHANGED <<mk, revFile, ksBaks, mkBaks, master, revoked, lease, rotation, history>>

\* loadKeystore, with its migration save, then loadRevoked.
BootLoad ==
  /\ server = "booting"
  /\ ram' = Opened
  /\ ks' = IF Migrates THEN Saved(Opened) ELSE ks
  /\ revoked' = revFile
  /\ server' = "up"
  /\ UNCHANGED <<mk, revFile, ksBaks, mkBaks, master, lease, rotation, history>>

\* Mutant: the file is written before the new key is in the map.
KeygenSavesFirst(k) ==
  /\ server = "up" /\ k \notin born
  /\ ram' = ram \cup {k} /\ born' = born \cup {k}
  /\ ks' = Saved(ram) /\ acked' = acked \cup {k}
  /\ UNCHANGED <<mk, revFile, ksBaks, mkBaks, server, master, revoked, lease,
                 rotation, used, sure, told>>

\* POST /v3/keygen: into the map, to the file, 201.
Keygen(k) ==
  /\ server = "up" /\ k \notin born
  /\ ram' = ram \cup {k} /\ born' = born \cup {k}
  /\ ks' = Saved(ram \cup {k}) /\ acked' = acked \cup {k}
  /\ UNCHANGED <<mk, revFile, ksBaks, mkBaks, server, master, revoked, lease,
                 rotation, used, sure, told>>

\* The save throws: 500, but the key is in the map, listed and usable.
KeygenUnsaved(k) ==
  /\ server = "up" /\ k \notin born
  /\ ram' = ram \cup {k} /\ born' = born \cup {k}
  /\ UNCHANGED <<files, server, master, revoked, lease, rotation, used, acked, sure, told>>

\* DELETE /v3/keys/:id: into the set, to the file, 200.
Revoke(k) ==
  /\ server = "up" /\ k \in ram \ revoked
  /\ revoked' = revoked \cup {k}
  /\ revFile' = revoked \cup {k}
  /\ sure' = sure \cup {k} /\ told' = told \cup {k}
  /\ UNCHANGED <<ks, mk, ksBaks, mkBaks, server, master, ram, lease, rotation,
                 used, acked, born>>

\* The save throws: 500, but the key is in the set.
RevokeUnsaved(k) ==
  /\ server = "up" /\ k \in ram \ revoked
  /\ revoked' = revoked \cup {k}
  /\ UNCHANGED <<files, server, master, ram, lease, rotation, history>>

\* What the key routes answer. All but the discovery document, from which verifiers
\* build their caches, know revoked keys too. The fingerprint map of identify is
\* filled where the key map is, and like it never emptied.
KeyList     == [k \in ram |-> [revoked |-> k \in revoked]]
KeyInfo(k)  == IF k \in ram THEN KeyList[k] ELSE [error |-> "KEY_NOT_FOUND"]
Identify(k) == KeyInfo(k)
ServesVk(k) == k \in ram
Discovery   == ram \ revoked
RevokedList == revoked

\* 409 ALREADY_REVOKED to a second DELETE, 410 KEY_REVOKED to an issue or verify, or
\* an answer of a key route.
SaysRevoked(k) ==
  \/ k \in RevokedList
  \/ [revoked |-> TRUE] \in {KeyInfo(k), Identify(k)}

RefuseRevoked(k) ==
  /\ server = "up" /\ SaysRevoked(k)
  /\ told' = told \cup {k}
  /\ UNCHANGED <<files, running, rotation, used, acked, born, sure>>

\* A graceful stop releases the lease; a crash, or a boot that exits, leaves it.
Stop ==
  /\ server = "up"
  /\ server' = "off" /\ lease' = FALSE
  /\ UNCHANGED <<files, master, ram, revoked, rotation, history>>

Crash ==
  /\ server # "off"
  /\ server' = "off"
  /\ UNCHANGED <<files, master, ram, revoked, lease, rotation, history>>

\* 30 seconds passed since the lease was written: the server never renews it.
LeaseExpires ==
  /\ lease
  /\ lease' = FALSE
  /\ UNCHANGED <<files, server, master, ram, revoked, rotation, history>>

-------------------------------------------------------------------------------
(***************************************************************************)
(* The rotation tool. It looks at the lease once, and at its expiry only.  *)
(***************************************************************************)
Reseal(m) == [k \in Key |-> IF ks[k] = Absent THEN Absent ELSE m]

\* Everything opens under the current master, and is sealed again in memory.
ToolRead ==
  /\ tool = "idle"
  /\ StopsFirst => server = "off"
  /\ ~lease
  /\ ks # NoEntries /\ mk # NoMaster
  /\ \A k \in Key : ks[k] \in {mk, Plain, Absent}
  /\ \E m \in Master \ used :
       newMaster' = m /\ resealed' = Reseal(m) /\ used' = used \cup {m}
  /\ tool' = "read"
  /\ UNCHANGED <<files, running, broken, acked, born, sure, told>>

\* Mutant: the old keystore is removed instead of kept.
ToolDropsKeystore ==
  /\ tool = "read"
  /\ ks' = NoEntries
  /\ tool' = "ksMoved"
  /\ UNCHANGED <<mk, revFile, ksBaks, mkBaks, running, resealed, newMaster, broken, history>>

ToolMovesKeystore ==
  /\ tool = "read"
  /\ ks # NoEntries
  /\ ksBaks' = ksBaks \cup {ks}
  /\ ks' = NoEntries
  /\ tool' = "ksMoved"
  /\ UNCHANGED <<mk, revFile, mkBaks, running, resealed, newMaster, broken, history>>

ToolMovesMaster ==
  /\ tool = "ksMoved"
  /\ mk # NoMaster
  /\ mkBaks' = mkBaks \cup {mk}
  /\ mk' = NoMaster
  /\ tool' = "moved"
  /\ UNCHANGED <<ks, revFile, ksBaks, running, resealed, newMaster, broken, history>>

ToolWritesKeystore ==
  /\ tool = "moved"
  /\ ks' = resealed
  /\ tool' = "ksWritten"
  /\ UNCHANGED <<mk, revFile, ksBaks, mkBaks, running, resealed, newMaster, broken, history>>

ToolWritesMaster ==
  /\ tool = "ksWritten"
  /\ mk' = newMaster
  /\ tool' = "idle"
  /\ UNCHANGED <<ks, revFile, ksBaks, mkBaks, running, resealed, newMaster, broken, history>>

\* A rename or a write throws, or the tool is killed.
ToolStops ==
  /\ tool # "idle"
  /\ broken' = (broken \/ tool # "read")
  /\ tool' = "idle"
  /\ UNCHANGED <<files, running, resealed, newMaster, history>>

-------------------------------------------------------------------------------
ServerStep ==
  \/ BootMaster \/ BootNoMaster \/ BootLoad \/ Stop \/ Crash \/ LeaseExpires
  \/ \E k \in Key : \/ Keygen(k) \/ KeygenUnsaved(k)
                    \/ Revoke(k) \/ RevokeUnsaved(k) \/ RefuseRevoked(k)

ToolStep ==
  \/ ToolRead \/ ToolMovesKeystore \/ ToolMovesMaster
  \/ ToolWritesKeystore \/ ToolWritesMaster \/ ToolStops

\* The operator does not change the provider of a deployment.
Next == (ServerStep \/ ToolStep) /\ UNCHANGED given

Spec == Init /\ [][Next]_vars

-------------------------------------------------------------------------------
\* Type invariant: every variable holds what its declaration says.
TypeOK ==
  /\ ks \in [Key -> Seal] /\ resealed \in [Key -> Seal]
  /\ ksBaks \subseteq [Key -> Seal]
  /\ mk \in Master \cup {NoMaster} /\ newMaster \in Master \cup {NoMaster}
  /\ mkBaks \subseteq Master /\ used \subseteq Master /\ given \in Master \cup {NoMaster}
  /\ server \in {"off", "booting", "up"}
  /\ master \in Master \cup {NoMaster}
  /\ server # "off" => master \in Master
  /\ tool \in {"idle", "read", "ksMoved", "moved", "ksWritten"}
  /\ ram \subseteq Key /\ revoked \subseteq Key /\ revFile \subseteq Key
  /\ acked \subseteq Key /\ born \subseteq Key /\ sure \subseteq Key /\ told \subseteq Key
  /\ lease \in BOOLEAN /\ broken \in BOOLEAN

\* What is on disk, current or backed up, with the provider's master, is enough to open k's key material.
Recoverable(k) ==
  \E f \in ksBaks \cup {ks} : f[k] \in mkBaks \cup {mk, given, Plain} /\ f[k] # NoMaster

\* No key a client was given is ever lost: whatever crashes and failed writes come
\* between the steps of boots, migrations, keygens and rotations, some keystore
\* file and some master file on disk still open it together.
NoKeyLost == \A k \in acked : Recoverable(k)

\* A server that is up serves every key it or an earlier server acknowledged, and
\* publishes those it did not revoke, unless a rotation broke off in the middle.
ServesAcknowledged ==
  server = "up" /\ ~broken =>
    \A k \in acked : ServesVk(k) /\ KeyInfo(k) = [revoked |-> k \notin Discovery]

\* A server that is up has left no key material in the clear in keystore.json.
NothingInTheClear == server = "up" => \A k \in Key : ks[k] # Plain

\* A revocation answered with 200 holds in every later server: on its list, and the
\* key is not in a discovery document any of them publishes.
RevocationHolds ==
  /\ sure \subseteq revFile
  /\ server = "up" => sure \subseteq RevokedList /\ sure \cap Discovery = {}

-------------------------------------------------------------------------------
\* docs/story/03-threat-model.md 91: "Revocation is append-only." Not so of a revocation
\* whose save threw: clients are told of it until a restart forgets it. No run checks it.
RevocationAppendOnly == server = "up" => told \subseteq revoked
===============================================================================
