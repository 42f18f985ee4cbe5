------------------------------- MODULE Vault -------------------------------
(***************************************************************************)
(* The keyring, the encrypted stores and `autocapture keys rotate`.        *)
(*                                                                         *)
(*   kernel/keyring.py         ringFile on disk, ring in memory            *)
(*   storage_encrypted         disk: one file per metadata record, per     *)
(*                             media record, and one for the entity map    *)
(*   kernel/key_rotation.py    Rotate ... AnchorRotation                   *)
(*                                                                         *)
(* Every file of the vault is rewritten in place: open(path, "w") truncates*)
(* it and the content arrives afterwards.  The two halves are separate     *)
(* steps (the file is Torn between them), and a process may die between    *)
(* any two steps.  A process is booted again after it died.                *)
(*                                                                         *)
(* Keys are numbered in the order they are generated (os.urandom and uuid4 *)
(* never repeat); encryption under a key is modelled by recording which    *)
(* key it is, decryption by asking whether the keyring has it.             *)
(***************************************************************************)
EXTENDS LedgerFile, FiniteSets

CONSTANTS Metas,       \* ids of metadata records
          Medias,      \* ids of media records
          EntityMap,   \* the entity map's file
          Values,      \* what put() is given
          Tokens,      \* tokens put into the entity map
          Absent,      \* the file does not exist
          Torn,        \* the file is truncated
          None,        \* Python's None: what get() returns for an unreadable record
          MaxKey       \* BOUND on the keys generated in a behaviour

ASSUME VaultAssumption ==
    /\ MaxKey \in Nat
    /\ Metas \cap Medias = {}
    /\ EntityMap \notin Metas \cup Medias
    /\ None \notin Values
    /\ \A map \in SUBSET Tokens : map # None

Items == Metas \cup Medias \cup {EntityMap}
Key == 1..MaxKey
Ring == [keys : SUBSET Key, active : Key]
Payload == Values \cup {None} \cup SUBSET Tokens
Blob == [key : Key, val : Payload]

ASSUME SentinelAssumption ==
    /\ Absent \notin Blob \cup Ring /\ Torn \notin Blob \cup Ring
    /\ Absent # Torn
    /\ None \notin [item : Items, blob : Blob] \cup Ring

VARIABLES
    ringFile,          \* keyring.json: Absent, Torn or a ring
    disk,              \* [Items -> Absent, Torn or a blob]
    issued,            \* number of keys generated so far
    pc,                \* [Procs -> where the process is]
    ring,              \* [Procs -> its KeyRing object, or None]
    entities,          \* [Procs -> EntityMapStore._data]
    pending,           \* [Procs -> the in-place write under way, or None]
    todo,              \* [Procs -> records the current rotate() has yet to visit]
    retired            \* [Procs -> old_id of the rotation under way]

memVars == <<pc, ring, entities, pending, todo, retired>>
vars == <<ringFile, disk, issued, memVars, ledgerVars>>

Stage == {"down", "create", "opening", "idle",
          "save", "meta", "media", "entity", "anchor"}

\* The body of the ledger entry of a rotation: inputs [old_id], outputs [new_id].
Rotation == [old : Key, new : Key]

TypeOK ==
    /\ LedgerTypeOK(Rotation)
    /\ ringFile \in Ring \cup {Absent, Torn}
    /\ disk \in [Items -> Blob \cup {Absent, Torn}]
    /\ issued \in 0..MaxKey
    /\ pc \in [Procs -> Stage]
    /\ ring \in [Procs -> Ring \cup {None}]
    /\ entities \in [Procs -> SUBSET Tokens]
    /\ pending \in [Procs -> [item : Items, blob : Blob] \cup {None}]
    /\ todo \in [Procs -> SUBSET Items]
    /\ retired \in [Procs -> Key \cup {None}]

Init ==
    /\ LedgerInit
    /\ ringFile = Absent
    /\ disk = [r \in Items |-> Absent]
    /\ issued = 0
    /\ pc = [p \in Procs |-> "down"]
    /\ ring = [p \in Procs |-> None]
    /\ entities = [p \in Procs |-> {}]
    /\ pending = [p \in Procs |-> None]
    /\ todo = [p \in Procs |-> {}]
    /\ retired = [p \in Procs |-> None]

----------------------------------------------------------------------------
(* Helpers.                                                                *)

\* Mutation of Decrypt: only the active key is tried.
DecryptActive(r, blob) == IF blob.key = r.active THEN blob.val ELSE None

\* DerivedKeyProvider.candidates and decrypt_bytes: the key named by the blob
\* if the ring has it; otherwise every key is tried and none decrypts it.
Decrypt(r, blob) == IF blob.key \in r.keys THEN blob.val ELSE None

\* Mutation of Encrypt: the key is the one the stores were built with.
EncryptCached(p, v) ==
    [key |-> CHOOSE k \in ring[p].keys : \A j \in ring[p].keys : k <= j, val |-> v]

\* encrypt_bytes under the active key of process p.
Encrypt(p, v) == [key |-> ring[p].active, val |-> v]

\* Store.get(id) for a file that is not Torn.
Get(p, r) == IF disk[r] = Absent THEN None ELSE Decrypt(ring[p], disk[r])

\* Store.keys(): the ids that have a file.
Stored(S) == {r \in S : disk[r] # Absent}

GoTo(p, stage) == pc' = [pc EXCEPT ![p] = stage]

\* open(path, "w"): the old content is gone, the new one not yet there.
BeginWrite(p, r, blob) ==
    /\ disk' = [disk EXCEPT ![r] = Torn]
    /\ pending' = [pending EXCEPT ![p] = [item |-> r, blob |-> blob]]

\* The process ends, by a crash, an uncaught exception or by finishing its
\* command; what it had in memory is gone.
Die(p) ==
    /\ GoTo(p, "down")
    /\ ring' = [ring EXCEPT ![p] = None]
    /\ entities' = [entities EXCEPT ![p] = {}]
    /\ pending' = [pending EXCEPT ![p] = None]
    /\ todo' = [todo EXCEPT ![p] = {}]
    /\ retired' = [retired EXCEPT ![p] = None]

----------------------------------------------------------------------------
(* Boot: KeyRing.load, then the stores' constructors.                      *)

\* KeyRing.load of an existing file (a Torn one makes json.load raise).
LoadRing(p) ==
    /\ pc[p] = "down"
    /\ ringFile \in Ring
    /\ ring' = [ring EXCEPT ![p] = ringFile]
    /\ GoTo(p, "opening")
    /\ UNCHANGED <<ringFile, disk, issued, entities, pending, todo, retired, ledgerVars>>

\* KeyRing.load with no file: a first key, saved at once.
CreateRing(p) ==
    /\ pc[p] = "down"
    /\ ringFile = Absent
    /\ issued < MaxKey
    /\ issued' = issued + 1
    /\ ring' = [ring EXCEPT ![p] = [keys |-> {issued + 1}, active |-> issued + 1]]
    /\ ringFile' = Torn
    /\ GoTo(p, "create")
    /\ UNCHANGED <<disk, entities, pending, todo, retired, ledgerVars>>

\* A map no key opens is an empty one.
LoadedMap(map) == IF map = None THEN {} ELSE map

\* EntityMapStore.__init__ and _load: {} if there is no file or no key opens
\* it; a Torn file makes json.load raise and the boot fail.
OpenStores(p) ==
    /\ pc[p] = "opening"
    /\ \/ /\ disk[EntityMap] = Torn
          /\ Die(p)
          /\ UNCHANGED ledgerVars
       \/ /\ disk[EntityMap] # Torn
          /\ entities' = [entities EXCEPT ![p] = LoadedMap(Get(p, EntityMap))]
          /\ GoTo(p, "idle")
          /\ OpenWriters(p)
          /\ UNCHANGED <<ring, pending, todo, retired>>
    /\ UNCHANGED <<ringFile, disk, issued>>

----------------------------------------------------------------------------
(* The stores' operations.                                                 *)

Idle(p) == pc[p] = "idle" /\ pending[p] = None

\* EncryptedJSONStore.put and EncryptedBlobStore.put, first half.
Put(p, r, v) ==
    /\ Idle(p)
    /\ BeginWrite(p, r, Encrypt(p, v))
    /\ UNCHANGED <<ringFile, issued, pc, ring, entities, todo, retired, ledgerVars>>

\* EntityMapStore.put, up to the first half of _save.
PutEntity(p, t) ==
    /\ Idle(p)
    /\ entities' = [entities EXCEPT ![p] = @ \cup {t}]
    /\ BeginWrite(p, EntityMap, Encrypt(p, entities[p] \cup {t}))
    /\ UNCHANGED <<ringFile, issued, pc, ring, todo, retired, ledgerVars>>

\* Second half of every store write: json.dump and close.
EndWrite(p) ==
    /\ pending[p] # None
    /\ disk' = [disk EXCEPT ![pending[p].item] = pending[p].blob]
    /\ pending' = [pending EXCEPT ![p] = None]
    /\ UNCHANGED <<ringFile, issued, pc, ring, entities, todo, retired, ledgerVars>>

----------------------------------------------------------------------------
(* rotate_keys(system).                                                    *)

\* Mutation of Grown: the ring keeps only the new key.
GrownAlone(r, k) == [keys |-> {k}, active |-> k]
\* Mutation of Grown: the id is drawn twice, for the record and as the active one.
GrownAhead(r, k) == [keys |-> r.keys \cup {k}, active |-> k + 1]
\* The ring with a new active key.
Grown(r, k) == [keys |-> r.keys \cup {k}, active |-> k]

\* KeyRing.rotate up to the first half of save(): a new active key is appended.
Rotate(p) ==
    /\ Idle(p)
    /\ issued < MaxKey
    /\ issued' = issued + 1
    /\ ring' = [ring EXCEPT ![p] = Grown(@, issued + 1)]
    /\ retired' = [retired EXCEPT ![p] = ring[p].active]
    /\ ringFile' = Torn
    /\ GoTo(p, "save")
    /\ UNCHANGED <<disk, entities, pending, todo, ledgerVars>>

\* Second half of KeyRing.save.  After a rotation, metadata.rotate() comes
\* next and lists the records it will visit; after CreateRing, the stores open.
SaveRing(p) ==
    /\ ringFile' = ring[p]
    /\ \/ /\ pc[p] = "create"
          /\ GoTo(p, "opening")
          /\ UNCHANGED todo
       \/ /\ pc[p] = "save"
          /\ GoTo(p, "meta")
          /\ todo' = [todo EXCEPT ![p] = Stored(Metas)]
    /\ UNCHANGED <<disk, issued, ring, entities, pending, retired, ledgerVars>>

\* Mutation of Rest: the ids are listed anew after every record.
RestAgain(p, r) == todo[p]
\* The ids rotate() has yet to visit after r.
Rest(p, r) == todo[p] \ {r}

\* EncryptedJSONStore.rotate: put(id, get(id)), whatever get returned.
RewrapMeta(p, r) ==
    /\ pc[p] = "meta" /\ pending[p] = None
    /\ r \in todo[p]
    /\ disk[r] # Torn
    /\ BeginWrite(p, r, Encrypt(p, Get(p, r)))
    /\ todo' = [todo EXCEPT ![p] = Rest(p, r)]
    /\ UNCHANGED <<ringFile, issued, pc, ring, entities, retired, ledgerVars>>

\* EncryptedBlobStore.rotate: a record get() cannot read is left as it is.
RewrapMedia(p, r) ==
    /\ pc[p] = "media" /\ pending[p] = None
    /\ r \in todo[p]
    /\ disk[r] # Torn
    /\ LET v == Get(p, r)
       IN IF v = None
          THEN UNCHANGED <<disk, pending>>
          ELSE BeginWrite(p, r, Encrypt(p, v))
    /\ todo' = [todo EXCEPT ![p] = Rest(p, r)]
    /\ UNCHANGED <<ringFile, issued, pc, ring, entities, retired, ledgerVars>>

\* get() of a truncated file raises out of rotate_keys, and the command ends.
RewrapFails(p, r) ==
    /\ pc[p] \in {"meta", "media"} /\ pending[p] = None
    /\ r \in todo[p]
    /\ disk[r] = Torn
    /\ Die(p)
    /\ UNCHANGED <<ringFile, disk, issued, ledgerVars>>

\* metadata.rotate() has returned; media.rotate() lists its records.
RewrapMetaDone(p) ==
    /\ pc[p] = "meta" /\ pending[p] = None
    /\ todo[p] = {}
    /\ GoTo(p, "media")
    /\ todo' = [todo EXCEPT ![p] = Stored(Medias)]
    /\ UNCHANGED <<ringFile, disk, issued, ring, entities, pending, retired, ledgerVars>>

\* media.rotate() has returned; EntityMapStore.rotate saves the map it holds.
RewrapEntities(p) ==
    /\ pc[p] = "media" /\ pending[p] = None
    /\ todo[p] = {}
    /\ GoTo(p, "entity")
    /\ BeginWrite(p, EntityMap, Encrypt(p, entities[p]))
    /\ UNCHANGED <<ringFile, issued, ring, entities, todo, retired, ledgerVars>>

RecordRotation(p) ==
    /\ pc[p] = "entity" /\ pending[p] = None
    /\ LedgerAppend(p, [old |-> retired[p], new |-> ring[p].active])
    /\ GoTo(p, "anchor")
    /\ UNCHANGED <<ringFile, disk, issued, ring, entities, pending, todo, retired>>

AnchorRotation(p) ==
    /\ pc[p] = "anchor"
    /\ AnchorHead(p)
    /\ GoTo(p, "idle")
    /\ retired' = [retired EXCEPT ![p] = None]
    /\ UNCHANGED <<ringFile, disk, issued, ring, entities, pending, todo>>

----------------------------------------------------------------------------

\* The process dies, or exits, between two steps.
Crash(p) ==
    /\ pc[p] # "down"
    /\ Die(p)
    /\ UNCHANGED <<ringFile, disk, issued, ledgerVars>>

Boot(p) == LoadRing(p) \/ CreateRing(p) \/ OpenStores(p)

Rotating(p) ==
    \/ SaveRing(p)
    \/ \E r \in Metas : RewrapMeta(p, r)
    \/ \E r \in Medias : RewrapMedia(p, r)
    \/ \E r \in Metas \cup Medias : RewrapFails(p, r)
    \/ RewrapMetaDone(p)
    \/ RewrapEntities(p)
    \/ RecordRotation(p)
    \/ AnchorRotation(p)

Next == \E p \in Procs :
    \/ Boot(p)
    \/ \E r \in Metas \cup Medias, v \in Values : Put(p, r, v)
    \/ \E t \in Tokens : PutEntity(p, t)
    \/ EndWrite(p)
    \/ Rotate(p)
    \/ Rotating(p)
    \/ Crash(p)

\* A rotation that has begun goes on for as long as its process lives.
Fairness == \A p \in Procs : WF_vars(Rotating(p)) /\ WF_vars(EndWrite(p))

Spec == Init /\ [][Next]_vars
FairSpec == Spec /\ Fairness

----------------------------------------------------------------------------

\* Every record on disk can be opened by the keyring on disk: a key is saved
\* before anything is encrypted under it, and is never dropped (a keyring that
\* is Torn opens nothing, and the vault cannot be booted again).
KeyOnDiskFirst ==
    ringFile \in Ring =>
        \A r \in Stored(Items) : disk[r] # Torn => disk[r].key \in ringFile.keys

\* "`autocapture keys rotate` records a ledger entry and rewraps stores"
\* (contracts/security.md:28): once the ledger has the entry of a rotation,
\* nothing on disk is under a key older than the one it brought in.
RecordedRotationIsComplete ==
    \A i \in DOMAIN ledger, r \in Stored(Items) :
        disk[r] # Torn => disk[r].key >= ledger[i].body.new

\* "Rotation events are recorded in the ledger" (docs/
\* autocapture_nx_blueprint_final.md:1019): when the vault is open and nothing
\* is under way, every key but the first has the entry of its rotation.
RotationsRecorded ==
    (/\ \E p \in Procs : pc[p] = "idle"
     /\ \A p \in Procs : pc[p] \in {"idle", "down"}
     /\ ringFile \in Ring)
    =>
    \A k \in ringFile.keys \ {1} : \E i \in DOMAIN ledger : ledger[i].body.new = k

\* A rotation ends: its process is idle again, or has died.
RotationEnds == \A p \in Procs : pc[p] = "save" ~> pc[p] \in {"idle", "down"}

============================================================================
