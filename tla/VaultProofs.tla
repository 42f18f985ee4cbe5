---------------------------- MODULE VaultProofs ----------------------------
(***************************************************************************)
(* Proofs about the vault of one process: no crash, at any step of a write *)
(* or of a rotation, leaves a record under a key the keyring does not      *)
(* have, or an entry of the ledger for a rotation that was not complete.   *)
(*                                                                         *)
(* Both need the other: a record is rewrapped only if the keyring opens    *)
(* it, so the rotation is complete because no key was ever lost.  From     *)
(* both follows that the vault implements RecordStore.                     *)
(***************************************************************************)
EXTENDS VaultRefinement, SequenceTheorems, TLAPS

Open == {"opening", "idle", "meta", "media", "entity", "anchor"}
Saving == {"create", "save"}
Storing == {"idle", "meta", "media", "entity"}
Recording == {"idle", "save", "meta", "media", "entity", "anchor"}

\* The file of r has a blob in it.
Whole(r) == disk[r] \notin {Absent, Torn}

\* What the stores put under the id r.
Fits(r, v) ==
    /\ v \in Payload
    /\ r \in Medias => v \in Values
    /\ r = EntityMap => v \in SUBSET Tokens

\* Keyring k opens everything on disk and is not older than the ledger.
Covers(k) ==
    /\ k \in Ring
    /\ k.active \in k.keys
    /\ k.active <= issued
    /\ \A r \in Items : Whole(r) => disk[r].key \in k.keys
    /\ \A i \in DOMAIN ledger : ledger[i].body.new <= k.active

RingInv(p) ==
    /\ ringFile \in Ring => Covers(ringFile)
    /\ ringFile = Absent => (\A r \in Items : disk[r] = Absent) /\ ledger = << >>
    /\ pc[p] \in Open => ringFile = ring[p] /\ ring[p] \in Ring
    /\ pc[p] \in Saving => ringFile = Torn /\ Covers(ring[p])

DataInv(p) ==
    /\ \A r \in Items : Whole(r) => Fits(r, disk[r].val)
    /\ pending[p] # None =>
         /\ pc[p] \in Storing
         /\ pending[p].blob.key = ring[p].active
         /\ Fits(pending[p].item, pending[p].blob.val)
    /\ pc[p] \in Recording \ {"idle"} => retired[p] \in Key

\* Every record of S but those in T is under the active key.
Rewrapped(p, S, T) == \A r \in S \ T : Whole(r) => disk[r].key = ring[p].active

StageInv(p) ==
    /\ pc[p] = "meta" => Rewrapped(p, Metas, todo[p])
    /\ pc[p] = "media" => Rewrapped(p, Metas, {}) /\ Rewrapped(p, Medias, todo[p])
    /\ pc[p] = "entity" => Rewrapped(p, Items, {})

LedgerInv(p) ==
    /\ RecordedRotationIsComplete
    /\ ChainVerifies
    /\ AnchorsNumbered
    /\ pc[p] \in Recording => head[p] = Len(ledger) /\ anchorSeq[p] = Len(anchors)
    /\ pc[p] = "anchor" =>
         /\ head[p] \in DOMAIN ledger
         /\ \A a \in DOMAIN anchors : anchors[a].head < head[p]

IInv(p) == TypeOK /\ RingInv(p) /\ DataInv(p) /\ StageInv(p) /\ LedgerInv(p)

LEMMA EntryKeys ==
    ASSUME TypeOK, NEW i \in DOMAIN ledger
    PROVE  ledger[i].body \in Rotation /\ ledger[i].body.new \in Key
<1>1. ledger \in Seq([body : Rotation, prev : Nat])  BY DEF TypeOK, LedgerTypeOK
<1>2. ledger[i] \in [body : Rotation, prev : Nat]  BY <1>1, LenProperties, ElementOfSeq
<1>3. QED  BY <1>2 DEF Rotation

----------------------------------------------------------------------------
(* Each action keeps the invariant; p is the only process.                 *)

LEMMA LoadRingKeeps ==
    ASSUME NEW p, Procs = {p}, IInv(p), LoadRing(p)
    PROVE  IInv(p)'
<1> USE DEF LoadRing, GoTo, ledgerVars
<1>1. TypeOK'  BY DEF IInv, TypeOK, LedgerTypeOK, Stage
<1>2. RingInv(p)'
  BY SentinelAssumption DEF IInv, TypeOK, RingInv, Covers, Whole, Open, Saving
<1>3. DataInv(p)'
  BY DEF IInv, TypeOK, DataInv, Fits, Whole, Storing, Recording
<1>4. StageInv(p)'  BY DEF IInv, TypeOK, StageInv
<1>5. LedgerInv(p)'
  BY DEF IInv, TypeOK, LedgerInv, RecordedRotationIsComplete, ChainVerifies, AnchorsNumbered,
         Stored, Recording
<1>6. QED  BY <1>1, <1>2, <1>3, <1>4, <1>5 DEF IInv

LEMMA CreateRingKeeps ==
    ASSUME NEW p, Procs = {p}, IInv(p), CreateRing(p)
    PROVE  IInv(p)'
<1> USE DEF CreateRing, GoTo, ledgerVars
<1>1. issued + 1 \in Key  BY VaultAssumption DEF IInv, TypeOK, Key
<1>2. TypeOK'  BY <1>1, VaultAssumption DEF IInv, TypeOK, LedgerTypeOK, Stage, Ring, Key
<1>3. RingInv(p)'
  <2>1. ring'[p] = [keys |-> {issued + 1}, active |-> issued + 1] /\ pc'[p] = "create"
    BY DEF IInv, TypeOK
  <2>2. \A r \in Items : disk'[r] = Absent  BY DEF IInv, RingInv
  <2>3. ledger' = << >>  BY DEF IInv, RingInv
  <2>4. Covers(ring[p])'
    BY <1>1, <2>1, <2>2, <2>3 DEF Covers, Whole, Ring, Key
  <2>5. ringFile' = Torn /\ Torn # Absent /\ Torn \notin Ring  BY SentinelAssumption
  <2>6. QED  BY <2>1, <2>4, <2>5 DEF RingInv, Open, Saving
<1>4. DataInv(p)'
  BY DEF IInv, TypeOK, DataInv, Fits, Whole, Storing, Recording
<1>5. StageInv(p)'  BY DEF IInv, TypeOK, StageInv
<1>6. LedgerInv(p)'
  BY DEF IInv, TypeOK, LedgerInv, RecordedRotationIsComplete, ChainVerifies, AnchorsNumbered,
         Stored, Recording
<1>7. QED  BY <1>2, <1>3, <1>4, <1>5, <1>6 DEF IInv

\* The death of the process: the files are what counts.
LEMMA DieKeeps ==
    ASSUME NEW p, Procs = {p}, IInv(p), Die(p),
           UNCHANGED <<ringFile, disk, issued, ledgerVars>>
    PROVE  IInv(p)'
<1> USE DEF Die, GoTo, ledgerVars
<1>1. TypeOK'  BY DEF IInv, TypeOK, LedgerTypeOK, Stage
<1>2. RingInv(p)'  BY DEF IInv, TypeOK, RingInv, Covers, Whole, Open, Saving
<1>3. DataInv(p)'  BY DEF IInv, TypeOK, DataInv, Fits, Whole, Storing, Recording
<1>4. StageInv(p)'  BY DEF IInv, TypeOK, StageInv
<1>5. LedgerInv(p)'
  BY DEF IInv, TypeOK, LedgerInv, RecordedRotationIsComplete, ChainVerifies, AnchorsNumbered,
         Stored, Recording
<1>6. QED  BY <1>1, <1>2, <1>3, <1>4, <1>5 DEF IInv

LEMMA OpenStoresKeeps ==
    ASSUME NEW p, Procs = {p}, IInv(p), OpenStores(p)
    PROVE  IInv(p)'
<1>1. CASE disk[EntityMap] = Torn  BY <1>1, DieKeeps DEF OpenStores
<1>2. CASE disk[EntityMap] # Torn
  <2> USE DEF GoTo, OpenWriters
  <2> DEFINE map == Get(p, EntityMap)
  <2>1. map = None \/ map \in SUBSET Tokens
    BY <1>2 DEF IInv, DataInv, Get, Decrypt, Whole, Fits, Items
  <2>2. entities' = [entities EXCEPT ![p] = LoadedMap(map)]
        /\ pc[p] = "opening" /\ pc' = [pc EXCEPT ![p] = "idle"]
        /\ head' = [head EXCEPT ![p] = Len(ledger)]
        /\ anchorSeq' = [anchorSeq EXCEPT ![p] = Len(anchors)]
        /\ UNCHANGED <<ring, pending, todo, retired, ringFile, disk, issued, ledger, anchors>>
    BY <1>2 DEF OpenStores
  <2> HIDE DEF map
  <2>3. Len(ledger) \in Nat /\ Len(anchors) \in Nat
    BY LenProperties DEF IInv, TypeOK, LedgerTypeOK
  <2>4. TypeOK'  BY <2>1, <2>2, <2>3 DEF IInv, TypeOK, LedgerTypeOK, Stage, LoadedMap
  <2>5. RingInv(p)'  BY <2>2 DEF IInv, TypeOK, RingInv, Covers, Whole, Open, Saving
  <2>6. DataInv(p)'  BY <2>2 DEF IInv, TypeOK, DataInv, Fits, Whole, Storing, Recording
  <2>7. StageInv(p)'  BY <2>2 DEF IInv, TypeOK, StageInv
  <2>8. LedgerInv(p)'
    BY <2>2 DEF IInv, TypeOK, LedgerTypeOK, LedgerInv, RecordedRotationIsComplete, ChainVerifies,
                AnchorsNumbered, Stored, Recording
  <2>9. QED  BY <2>4, <2>5, <2>6, <2>7, <2>8 DEF IInv
<1>3. QED  BY <1>1, <1>2

\* What the steps that begin to write a record have in common: p is at a stage
\* where its keyring is on disk, and b is what the stores may put under r.
LEMMA BeginWriteKeeps ==
    ASSUME NEW p, Procs = {p}, IInv(p),
           NEW r \in Items, NEW v, Fits(r, v), pc[p] \in Storing,
           BeginWrite(p, r, Encrypt(p, v)),
           UNCHANGED <<ringFile, issued, ring, ledgerVars>>
    PROVE  /\ disk' \in [Items -> Blob \cup {Absent, Torn}]
           /\ pending' \in [Procs -> [item : Items, blob : Blob] \cup {None}]
           /\ pending'[p] = [item |-> r, blob |-> Encrypt(p, v)]
           /\ \A q \in Items : Whole(q)' => q # r /\ Whole(q) /\ disk'[q] = disk[q]
           /\ ringFile \in Ring /\ ringFile = ring[p] /\ Covers(ringFile)'
           /\ RecordedRotationIsComplete'
<1> USE DEF ledgerVars
<1>1. ringFile = ring[p] /\ ring[p] \in Ring  BY DEF IInv, RingInv, Open, Storing
<1>2. Encrypt(p, v) \in Blob  BY <1>1 DEF Encrypt, Blob, Ring, Fits
<1>3. /\ disk' \in [Items -> Blob \cup {Absent, Torn}]
      /\ disk'[r] = Torn /\ \A q \in Items : q # r => disk'[q] = disk[q]
  BY DEF BeginWrite, IInv, TypeOK
<1>4. /\ pending' \in [Procs -> [item : Items, blob : Blob] \cup {None}]
      /\ pending'[p] = [item |-> r, blob |-> Encrypt(p, v)]
  BY <1>2 DEF BeginWrite, IInv, TypeOK
<1>5. \A q \in Items : Whole(q)' => q # r /\ Whole(q) /\ disk'[q] = disk[q]
  BY <1>3 DEF Whole
<1>6. Covers(ringFile)'
  BY <1>1, <1>5 DEF IInv, RingInv, Covers
<1>7. RecordedRotationIsComplete'
  BY <1>3 DEF IInv, LedgerInv, RecordedRotationIsComplete, Stored
<1>8. QED  BY <1>1, <1>3, <1>4, <1>5, <1>6, <1>7

LEMMA PutKeeps ==
    ASSUME NEW p, Procs = {p}, IInv(p),
           NEW r \in Metas \cup Medias, NEW v \in Values, Put(p, r, v)
    PROVE  IInv(p)'
<1>1. r \in Items /\ Fits(r, v)  BY VaultAssumption DEF Items, Fits, Payload
<1>2. pc[p] = "idle" /\ BeginWrite(p, r, Encrypt(p, v))
      /\ UNCHANGED <<ringFile, issued, pc, ring, entities, todo, retired, ledgerVars>>
  BY DEF Put, Idle
<1>3. /\ disk' \in [Items -> Blob \cup {Absent, Torn}]
      /\ pending' \in [Procs -> [item : Items, blob : Blob] \cup {None}]
      /\ pending'[p] = [item |-> r, blob |-> Encrypt(p, v)]
      /\ \A q \in Items : Whole(q)' => q # r /\ Whole(q) /\ disk'[q] = disk[q]
      /\ ringFile \in Ring /\ ringFile = ring[p] /\ Covers(ringFile)'
      /\ RecordedRotationIsComplete'
  BY <1>1, <1>2, BeginWriteKeeps DEF Storing
<1> USE DEF ledgerVars
<1>4. TypeOK'  BY <1>2, <1>3 DEF IInv, TypeOK, LedgerTypeOK, Rest
<1>5. RingInv(p)'
  BY <1>2, <1>3, SentinelAssumption DEF IInv, RingInv, Saving, Open
<1>6. DataInv(p)'
  BY <1>1, <1>2, <1>3 DEF IInv, DataInv, Fits, Storing, Recording, Encrypt
<1>7. StageInv(p)'  BY <1>2 DEF StageInv
<1>8. LedgerInv(p)'
  BY <1>2, <1>3 DEF IInv, LedgerInv, ChainVerifies, AnchorsNumbered
<1>9. QED  BY <1>4, <1>5, <1>6, <1>7, <1>8 DEF IInv

LEMMA PutEntityKeeps ==
    ASSUME NEW p, Procs = {p}, IInv(p), NEW t \in Tokens, PutEntity(p, t)
    PROVE  IInv(p)'
<1> DEFINE map == entities[p] \cup {t}
<1>1. EntityMap \in Items /\ Fits(EntityMap, map) /\ map \in SUBSET Tokens
  BY VaultAssumption DEF Items, Fits, Payload, IInv, TypeOK
<1>2. pc[p] = "idle" /\ BeginWrite(p, EntityMap, Encrypt(p, map))
      /\ entities' = [entities EXCEPT ![p] = map]
      /\ UNCHANGED <<ringFile, issued, pc, ring, todo, retired, ledgerVars>>
  BY DEF PutEntity, Idle
<1> HIDE DEF map
<1>3. /\ disk' \in [Items -> Blob \cup {Absent, Torn}]
      /\ pending' \in [Procs -> [item : Items, blob : Blob] \cup {None}]
      /\ pending'[p] = [item |-> EntityMap, blob |-> Encrypt(p, map)]
      /\ \A q \in Items : Whole(q)' => q # EntityMap /\ Whole(q) /\ disk'[q] = disk[q]
      /\ ringFile \in Ring /\ ringFile = ring[p] /\ Covers(ringFile)'
      /\ RecordedRotationIsComplete'
  BY <1>1, <1>2, BeginWriteKeeps DEF Storing
<1> USE DEF ledgerVars
<1>4. TypeOK'  BY <1>1, <1>2, <1>3 DEF IInv, TypeOK, LedgerTypeOK
<1>5. RingInv(p)'
  BY <1>2, <1>3, SentinelAssumption DEF IInv, RingInv, Saving, Open
<1>6. DataInv(p)'
  BY <1>1, <1>2, <1>3 DEF IInv, DataInv, Fits, Storing, Recording, Encrypt
<1>7. StageInv(p)'  BY <1>2 DEF StageInv
<1>8. LedgerInv(p)'
  BY <1>2, <1>3 DEF IInv, LedgerInv, ChainVerifies, AnchorsNumbered
<1>9. QED  BY <1>4, <1>5, <1>6, <1>7, <1>8 DEF IInv

LEMMA EndWriteKeeps ==
    ASSUME NEW p, Procs = {p}, IInv(p), EndWrite(p)
    PROVE  IInv(p)'
<1> DEFINE r == pending[p].item
           b == pending[p].blob
<1>1. r \in Items /\ b \in Blob /\ pc[p] \in Storing /\ b.key = ring[p].active /\ Fits(r, b.val)
  BY DEF EndWrite, IInv, TypeOK, DataInv
<1>2. disk' = [disk EXCEPT ![r] = b] /\ pending' = [pending EXCEPT ![p] = None]
      /\ UNCHANGED <<ringFile, issued, pc, ring, entities, todo, retired, ledgerVars>>
  BY DEF EndWrite
<1> HIDE DEF r, b
<1>3. /\ disk' \in [Items -> Blob \cup {Absent, Torn}]
      /\ \A q \in Items : disk'[q] = IF q = r THEN b ELSE disk[q]
      /\ \A q \in Items : Whole(q)' => q = r \/ Whole(q)
  BY <1>1, <1>2 DEF IInv, TypeOK, Whole
<1>4. ringFile \in Ring /\ ringFile = ring[p] /\ Covers(ringFile)
  BY <1>1 DEF IInv, RingInv, Open, Storing
<1> USE DEF ledgerVars
<1>5. TypeOK'  BY <1>2, <1>3 DEF IInv, TypeOK, LedgerTypeOK
<1>6. Covers(ringFile)'
  BY <1>1, <1>2, <1>3, <1>4 DEF Covers
<1>7. RingInv(p)'
  BY <1>1, <1>2, <1>4, <1>6, SentinelAssumption DEF RingInv, Saving, Open, Storing
<1>8. pending'[p] = None  BY <1>2 DEF IInv, TypeOK
<1>9. DataInv(p)'
  <2>1. \A q \in Items : Whole(q)' => Fits(q, disk'[q].val)
    BY <1>1, <1>3 DEF IInv, DataInv
  <2>2. QED  BY <1>2, <1>8, <2>1 DEF IInv, DataInv, Fits
<1>10. StageInv(p)'
  <2>1. \A q \in Items : Whole(q)' => disk'[q].key = ring[p].active \/ (Whole(q) /\ disk'[q] = disk[q])
    BY <1>1, <1>3
  <2>2. QED  BY <1>2, <2>1 DEF IInv, StageInv, Rewrapped, Items
<1>11. RecordedRotationIsComplete'
  <2>1. \A i \in DOMAIN ledger : ledger[i].body.new <= b.key
    BY <1>1, <1>4 DEF Covers
  <2>2. SUFFICES ASSUME NEW i \in DOMAIN ledger, NEW q \in Items, Whole(q)'
                 PROVE  disk'[q].key >= ledger[i].body.new
    BY <1>2 DEF RecordedRotationIsComplete, Stored, Whole
  <2>3. CASE q = r
    <3>1. b.key \in Nat /\ ledger[i].body.new \in Nat
      BY <1>1, VaultAssumption, EntryKeys DEF Blob, Key, IInv
    <3>2. QED  BY <1>3, <2>1, <2>3, <3>1
  <2>4. CASE q # r
    BY <1>3, <2>4, <2>2 DEF IInv, LedgerInv, RecordedRotationIsComplete, Stored, Whole
  <2>5. QED  BY <2>3, <2>4
<1>12. LedgerInv(p)'
  BY <1>2, <1>11 DEF IInv, LedgerInv, ChainVerifies, AnchorsNumbered
<1>13. QED  BY <1>5, <1>7, <1>9, <1>10, <1>12 DEF IInv

LEMMA RotateKeeps ==
    ASSUME NEW p, Procs = {p}, IInv(p), Rotate(p)
    PROVE  IInv(p)'
<1> USE DEF ledgerVars
<1> DEFINE new == Grown(ring[p], issued + 1)
<1>1. ringFile \in Ring /\ ringFile = ring[p] /\ Covers(ring[p])
      /\ pc[p] = "idle" /\ pending[p] = None /\ issued < MaxKey /\ issued \in Nat
  BY DEF Rotate, Idle, IInv, RingInv, Open, TypeOK
<1>2. issued + 1 \in Key /\ new \in Ring /\ ring[p].active \in Key
  BY <1>1, VaultAssumption DEF Key, Ring, Grown
<1>3. /\ issued' = issued + 1 /\ ringFile' = Torn
      /\ ring' = [ring EXCEPT ![p] = new]
      /\ retired' = [retired EXCEPT ![p] = ring[p].active]
      /\ pc' = [pc EXCEPT ![p] = "save"]
      /\ UNCHANGED <<disk, entities, pending, todo, ledgerVars>>
  BY DEF Rotate, GoTo
<1>4. new.active = issued + 1 /\ new.keys = ring[p].keys \cup {issued + 1}  BY DEF Grown
<1> HIDE DEF new
<1>5. ring'[p] = new /\ pc'[p] = "save" /\ retired'[p] = ring[p].active  BY <1>3 DEF IInv, TypeOK
<1>6. TypeOK'
  BY <1>1, <1>2, <1>3, VaultAssumption DEF IInv, TypeOK, LedgerTypeOK, Stage, Key
<1>7. Covers(ring[p])'
  <2>1. \A i \in DOMAIN ledger : ledger[i].body.new <= issued + 1
    <3>1. SUFFICES ASSUME NEW i \in DOMAIN ledger PROVE ledger[i].body.new <= issued + 1
      OBVIOUS
    <3>2. ledger[i].body.new \in Nat /\ ring[p].active \in Nat
      BY <1>2, VaultAssumption, EntryKeys DEF Key, IInv
    <3>3. QED  BY <1>1, <3>2 DEF Covers
  <2>2. QED  BY <1>1, <1>2, <1>3, <1>4, <1>5, <2>1 DEF Covers, Whole
<1>8. RingInv(p)'
  BY <1>3, <1>5, <1>7, SentinelAssumption DEF RingInv, Open, Saving
<1>9. DataInv(p)'
  BY <1>1, <1>2, <1>3, <1>5 DEF IInv, DataInv, Fits, Whole
<1>10. StageInv(p)'  BY <1>5 DEF StageInv
<1>11. LedgerInv(p)'
  BY <1>1, <1>3, <1>5 DEF IInv, LedgerInv, RecordedRotationIsComplete, ChainVerifies,
     AnchorsNumbered, Stored, Recording
<1>12. QED  BY <1>6, <1>8, <1>9, <1>10, <1>11 DEF IInv

LEMMA SaveRingKeeps ==
    ASSUME NEW p, Procs = {p}, IInv(p), SaveRing(p)
    PROVE  IInv(p)'
<1> USE DEF ledgerVars, GoTo
<1>1. Covers(ring[p]) /\ ring[p] \in Ring /\ pc[p] \in Saving /\ pending[p] = None
  BY DEF SaveRing, IInv, RingInv, Saving, Covers, DataInv, Storing
<1>2. ringFile' = ring[p] /\ UNCHANGED <<disk, issued, ring, entities, pending, retired, ledgerVars>>
  BY DEF SaveRing
<1>3. \/ pc[p] = "create" /\ pc'[p] = "opening"
      \/ pc[p] = "save" /\ pc'[p] = "meta" /\ todo'[p] = Stored(Metas)
  BY DEF SaveRing, IInv, TypeOK
<1>4. TypeOK'
  BY <1>1, <1>2 DEF SaveRing, IInv, TypeOK, LedgerTypeOK, Stage, Stored, Items
<1>5. RingInv(p)'
  <2>1. Covers(ring[p])'  BY <1>1, <1>2 DEF Covers, Whole
  <2>2. QED  BY <1>1, <1>2, <1>3, <2>1, SentinelAssumption DEF RingInv, Open, Saving
<1>6. DataInv(p)'
  BY <1>1, <1>2, <1>3 DEF IInv, DataInv, Fits, Whole, Recording
<1>7. StageInv(p)'
  BY <1>2, <1>3 DEF StageInv, Rewrapped, Whole, Stored
<1>8. LedgerInv(p)'
  BY <1>1, <1>2, <1>3 DEF IInv, LedgerInv, RecordedRotationIsComplete, ChainVerifies,
     AnchorsNumbered, Stored, Recording
<1>9. QED  BY <1>4, <1>5, <1>6, <1>7, <1>8 DEF IInv

LEMMA RewrapMetaKeeps ==
    ASSUME NEW p, Procs = {p}, IInv(p), NEW r \in Metas, RewrapMeta(p, r)
    PROVE  IInv(p)'
<1> DEFINE v == Get(p, r)
<1>1. r \in Items /\ Fits(r, v)
  BY VaultAssumption DEF Items, Fits, Payload, IInv, DataInv, Get, Decrypt, Whole, RewrapMeta
<1>2. pc[p] = "meta" /\ BeginWrite(p, r, Encrypt(p, v))
      /\ todo' = [todo EXCEPT ![p] = Rest(p, r)]
      /\ UNCHANGED <<ringFile, issued, pc, ring, entities, retired, ledgerVars>>
  BY DEF RewrapMeta
<1> HIDE DEF v
<1>3. /\ disk' \in [Items -> Blob \cup {Absent, Torn}]
      /\ pending' \in [Procs -> [item : Items, blob : Blob] \cup {None}]
      /\ pending'[p] = [item |-> r, blob |-> Encrypt(p, v)]
      /\ \A q \in Items : Whole(q)' => q # r /\ Whole(q) /\ disk'[q] = disk[q]
      /\ ringFile \in Ring /\ ringFile = ring[p] /\ Covers(ringFile)'
      /\ RecordedRotationIsComplete'
  BY <1>1, <1>2, BeginWriteKeeps DEF Storing
<1> USE DEF ledgerVars
<1>4. TypeOK'  BY <1>2, <1>3 DEF IInv, TypeOK, LedgerTypeOK, Rest
<1>5. RingInv(p)'
  BY <1>2, <1>3, SentinelAssumption DEF IInv, RingInv, Saving, Open
<1>6. DataInv(p)'
  BY <1>1, <1>2, <1>3 DEF IInv, DataInv, Fits, Storing, Recording, Encrypt
<1>7. StageInv(p)'
  BY <1>2, <1>3 DEF IInv, TypeOK, StageInv, Rewrapped, Items, Rest
<1>8. LedgerInv(p)'
  BY <1>2, <1>3 DEF IInv, LedgerInv, ChainVerifies, AnchorsNumbered
<1>9. QED  BY <1>4, <1>5, <1>6, <1>7, <1>8 DEF IInv

\* The keyring opens every record there is, so no record is left as it is.
LEMMA RewrapMediaKeeps ==
    ASSUME NEW p, Procs = {p}, IInv(p), NEW r \in Medias, RewrapMedia(p, r)
    PROVE  IInv(p)'
<1> DEFINE v == Get(p, r)
<1>1. r \in Items /\ pc[p] = "media" /\ disk[r] # Torn /\ pending[p] = None
      /\ todo' = [todo EXCEPT ![p] = Rest(p, r)]
      /\ UNCHANGED <<ringFile, issued, pc, ring, entities, retired, ledgerVars>>
      /\ IF v = None THEN UNCHANGED <<disk, pending>> ELSE BeginWrite(p, r, Encrypt(p, v))
  BY DEF Items, RewrapMedia
<1>2. ringFile \in Ring /\ ringFile = ring[p] /\ Covers(ring[p])
  BY <1>1 DEF IInv, RingInv, Open
<1>3. Whole(r) => v \in Values /\ v # None
  BY <1>1, <1>2, VaultAssumption DEF Get, Decrypt, Covers, Whole, IInv, DataInv, Fits
<1>4. ~Whole(r) => v = None  BY <1>1 DEF Get, Whole
<1> USE DEF ledgerVars
<1>5. CASE ~Whole(r)
  <2>1. UNCHANGED <<disk, pending>>  BY <1>1, <1>4, <1>5
  <2>2. TypeOK'  BY <1>1, <2>1 DEF IInv, TypeOK, LedgerTypeOK, Rest
  <2>3. RingInv(p)'  BY <1>1, <2>1 DEF IInv, RingInv, Covers, Whole
  <2>4. DataInv(p)'  BY <1>1, <2>1 DEF IInv, DataInv, Fits, Whole
  <2>5. StageInv(p)'
    BY <1>1, <1>5, <2>1 DEF IInv, TypeOK, StageInv, Rewrapped, Whole, Rest
  <2>6. LedgerInv(p)'
    BY <1>1, <2>1 DEF IInv, LedgerInv, RecordedRotationIsComplete, ChainVerifies,
       AnchorsNumbered, Stored
  <2>7. QED  BY <2>2, <2>3, <2>4, <2>5, <2>6 DEF IInv
<1>6. CASE Whole(r)
  <2>1. BeginWrite(p, r, Encrypt(p, v))  BY <1>1, <1>3, <1>6
  <2>2. Fits(r, v)  BY <1>3, <1>6, VaultAssumption DEF Fits, Payload, Items
  <2> HIDE DEF v
  <2>3. /\ disk' \in [Items -> Blob \cup {Absent, Torn}]
        /\ pending' \in [Procs -> [item : Items, blob : Blob] \cup {None}]
        /\ pending'[p] = [item |-> r, blob |-> Encrypt(p, v)]
        /\ \A q \in Items : Whole(q)' => q # r /\ Whole(q) /\ disk'[q] = disk[q]
        /\ Covers(ringFile)'
        /\ RecordedRotationIsComplete'
    BY <1>1, <2>1, <2>2, BeginWriteKeeps DEF Storing
  <2>4. TypeOK'  BY <1>1, <2>3 DEF IInv, TypeOK, LedgerTypeOK, Rest
  <2>5. RingInv(p)'
    BY <1>1, <1>2, <2>3, SentinelAssumption DEF IInv, RingInv, Saving, Open
  <2>6. DataInv(p)'
    BY <1>1, <2>2, <2>3 DEF IInv, DataInv, Fits, Storing, Recording, Encrypt
  <2>7. StageInv(p)'
    BY <1>1, <2>3 DEF IInv, TypeOK, StageInv, Rewrapped, Items, Rest
  <2>8. LedgerInv(p)'
    BY <1>1, <2>3 DEF IInv, LedgerInv, ChainVerifies, AnchorsNumbered
  <2>9. QED  BY <2>4, <2>5, <2>6, <2>7, <2>8 DEF IInv
<1>7. QED  BY <1>5, <1>6

LEMMA RewrapMetaDoneKeeps ==
    ASSUME NEW p, Procs = {p}, IInv(p), RewrapMetaDone(p)
    PROVE  IInv(p)'
<1> USE DEF ledgerVars, GoTo
<1>1. pc[p] = "meta" /\ todo[p] = {} /\ pc'[p] = "media" /\ todo'[p] = Stored(Medias)
      /\ UNCHANGED <<ringFile, disk, issued, ring, entities, pending, retired, ledgerVars>>
  BY DEF RewrapMetaDone, IInv, TypeOK
<1>2. TypeOK'
  BY DEF RewrapMetaDone, IInv, TypeOK, LedgerTypeOK, Stage, Stored, Items
<1>3. RingInv(p)'  BY <1>1 DEF IInv, RingInv, Covers, Whole, Open, Saving
<1>4. DataInv(p)'  BY <1>1 DEF IInv, DataInv, Fits, Whole, Storing, Recording
<1>5. StageInv(p)'  BY <1>1 DEF IInv, StageInv, Rewrapped, Whole, Stored
<1>6. LedgerInv(p)'
  BY <1>1 DEF IInv, LedgerInv, RecordedRotationIsComplete, ChainVerifies, AnchorsNumbered,
     Stored, Recording
<1>7. QED  BY <1>2, <1>3, <1>4, <1>5, <1>6 DEF IInv

LEMMA RewrapEntitiesKeeps ==
    ASSUME NEW p, Procs = {p}, IInv(p), RewrapEntities(p)
    PROVE  IInv(p)'
<1> DEFINE map == entities[p]
<1>1. EntityMap \in Items /\ Fits(EntityMap, map)
  BY VaultAssumption DEF Items, Fits, Payload, IInv, TypeOK
<1>2. pc[p] = "media" /\ todo[p] = {} /\ pc' = [pc EXCEPT ![p] = "entity"]
      /\ BeginWrite(p, EntityMap, Encrypt(p, map))
      /\ UNCHANGED <<ringFile, issued, ring, entities, todo, retired, ledgerVars>>
  BY DEF RewrapEntities, GoTo
<1> HIDE DEF map
<1>3. /\ disk' \in [Items -> Blob \cup {Absent, Torn}]
      /\ pending' \in [Procs -> [item : Items, blob : Blob] \cup {None}]
      /\ pending'[p] = [item |-> EntityMap, blob |-> Encrypt(p, map)]
      /\ \A q \in Items : Whole(q)' => q # EntityMap /\ Whole(q) /\ disk'[q] = disk[q]
      /\ ringFile \in Ring /\ ringFile = ring[p] /\ Covers(ringFile)'
      /\ RecordedRotationIsComplete'
  BY <1>1, <1>2, BeginWriteKeeps DEF Storing
<1> USE DEF ledgerVars
<1>4. pc'[p] = "entity"  BY <1>2 DEF IInv, TypeOK
<1>5. TypeOK'  BY <1>2, <1>3 DEF IInv, TypeOK, LedgerTypeOK, Stage
<1>6. RingInv(p)'
  BY <1>2, <1>3, <1>4, SentinelAssumption DEF IInv, RingInv, Saving, Open
<1>7. DataInv(p)'
  BY <1>1, <1>2, <1>3, <1>4 DEF IInv, DataInv, Fits, Storing, Recording, Encrypt
<1>8. StageInv(p)'
  BY <1>2, <1>3, <1>4 DEF IInv, StageInv, Rewrapped, Items
<1>9. LedgerInv(p)'
  BY <1>2, <1>3, <1>4 DEF IInv, LedgerInv, ChainVerifies, AnchorsNumbered, Recording
<1>10. QED  BY <1>5, <1>6, <1>7, <1>8, <1>9 DEF IInv

LEMMA RecordRotationKeeps ==
    ASSUME NEW p, Procs = {p}, IInv(p), RecordRotation(p)
    PROVE  IInv(p)'
<1> DEFINE e == [body |-> [old |-> retired[p], new |-> ring[p].active], prev |-> head[p]]
<1>1. /\ pc[p] = "entity" /\ pending[p] = None /\ pc' = [pc EXCEPT ![p] = "anchor"]
      /\ ledger' = Append(ledger, e) /\ head' = [head EXCEPT ![p] = Len(ledger) + 1]
      /\ UNCHANGED <<ringFile, disk, issued, ring, entities, pending, todo, retired,
                     anchors, anchorSeq>>
  BY DEF RecordRotation, LedgerAppend, GoTo
<1>2. ringFile \in Ring /\ ringFile = ring[p] /\ Covers(ring[p]) /\ retired[p] \in Key
      /\ head[p] = Len(ledger) /\ anchorSeq[p] = Len(anchors)
  BY <1>1 DEF IInv, RingInv, Open, DataInv, LedgerInv, Recording
<1>3. /\ e \in [body : Rotation, prev : Nat]
      /\ e.body.new = ring[p].active /\ e.prev = Len(ledger)
  BY <1>2 DEF Rotation, Ring, IInv, TypeOK, LedgerTypeOK
<1> HIDE DEF e
<1>4. ledger \in Seq([body : Rotation, prev : Nat])  BY DEF IInv, TypeOK, LedgerTypeOK
<1>5. /\ ledger' \in Seq([body : Rotation, prev : Nat])
      /\ Len(ledger) \in Nat /\ DOMAIN ledger = 1..Len(ledger)
      /\ Len(ledger') = Len(ledger) + 1 /\ DOMAIN ledger' = 1..(Len(ledger) + 1)
      /\ \A i \in 1..Len(ledger) : ledger'[i] = ledger[i]
      /\ ledger'[Len(ledger) + 1] = e
  BY <1>1, <1>3, <1>4, AppendProperties, LenProperties
<1>6. pc'[p] = "anchor" /\ head'[p] = Len(ledger) + 1  BY <1>1 DEF IInv, TypeOK, LedgerTypeOK
<1>7. TypeOK'  BY <1>1, <1>5 DEF IInv, TypeOK, LedgerTypeOK, Stage
<1>8. ring[p].active \in Nat  BY <1>2, VaultAssumption DEF Ring, Key
<1>9. Covers(ring[p])'
  <2>1. \A i \in DOMAIN ledger' : ledger'[i].body.new <= ring[p].active
    <3>1. SUFFICES ASSUME NEW i \in DOMAIN ledger' PROVE ledger'[i].body.new <= ring[p].active
      OBVIOUS
    <3>2. CASE i = Len(ledger) + 1  BY <1>3, <1>5, <1>8, <3>2
    <3>3. CASE i \in DOMAIN ledger  BY <1>2, <1>5, <3>3 DEF Covers
    <3>4. QED  BY <1>5, <3>2, <3>3
  <2>2. QED  BY <1>1, <1>2, <2>1 DEF Covers, Whole
<1>10. RingInv(p)'
  BY <1>1, <1>2, <1>6, <1>9, SentinelAssumption DEF RingInv, Open, Saving
<1>11. DataInv(p)'  BY <1>1, <1>2, <1>6 DEF IInv, DataInv, Fits, Whole
<1>12. StageInv(p)'  BY <1>6 DEF StageInv
<1>13. RecordedRotationIsComplete'
  <2>1. SUFFICES ASSUME NEW i \in DOMAIN ledger', NEW r \in Items, Whole(r)
                 PROVE  disk[r].key >= ledger'[i].body.new
    BY <1>1 DEF RecordedRotationIsComplete, Stored, Whole
  <2>2. disk[r].key = ring[p].active  BY <1>1, <2>1 DEF IInv, StageInv, Rewrapped
  <2>3. QED  BY <1>8, <1>9, <1>1, <2>2 DEF Covers
<1>14. ChainVerifies'
  <2>1. SUFFICES ASSUME NEW i \in DOMAIN ledger' PROVE ledger'[i].prev = i - 1
    BY DEF ChainVerifies
  <2>2. CASE i = Len(ledger) + 1  BY <1>3, <1>5, <2>2
  <2>3. CASE i \in DOMAIN ledger  BY <1>5, <2>3 DEF IInv, LedgerInv, ChainVerifies
  <2>4. QED  BY <1>5, <2>2, <2>3
<1>15. AnchorsNumbered'
  BY <1>1, <1>5 DEF IInv, LedgerInv, AnchorsNumbered
<1>16. /\ head'[p] \in DOMAIN ledger'
       /\ \A a \in DOMAIN anchors : anchors[a].head < head'[p]
  BY <1>5, <1>6 DEF IInv, LedgerInv, AnchorsNumbered
<1>17. LedgerInv(p)'
  BY <1>1, <1>2, <1>5, <1>6, <1>13, <1>14, <1>15, <1>16 DEF LedgerInv
<1>18. QED  BY <1>7, <1>10, <1>11, <1>12, <1>17 DEF IInv

LEMMA AnchorRotationKeeps ==
    ASSUME NEW p, Procs = {p}, IInv(p), AnchorRotation(p)
    PROVE  IInv(p)'
<1> DEFINE a == [seq |-> anchorSeq[p], head |-> head[p]]
<1>1. /\ pc[p] = "anchor" /\ pc' = [pc EXCEPT ![p] = "idle"]
      /\ anchors' = Append(anchors, a) /\ anchorSeq' = [anchorSeq EXCEPT ![p] = @ + 1]
      /\ retired' = [retired EXCEPT ![p] = None]
      /\ UNCHANGED <<ringFile, disk, issued, ring, entities, pending, todo, ledger, head>>
  BY DEF AnchorRotation, AnchorHead, GoTo
<1>2. /\ head[p] = Len(ledger) /\ anchorSeq[p] = Len(anchors) /\ head[p] \in DOMAIN ledger
      /\ \A b \in DOMAIN anchors : anchors[b].head < head[p]
  BY <1>1 DEF IInv, LedgerInv, Recording
<1>3. a \in [seq : Nat, head : Nat] /\ a.seq = Len(anchors) /\ a.head = head[p]
  BY <1>2 DEF IInv, TypeOK, LedgerTypeOK
<1> HIDE DEF a
<1>4. anchors \in Seq([seq : Nat, head : Nat])  BY DEF IInv, TypeOK, LedgerTypeOK
<1>5. /\ anchors' \in Seq([seq : Nat, head : Nat])
      /\ Len(anchors) \in Nat /\ DOMAIN anchors = 1..Len(anchors)
      /\ Len(anchors') = Len(anchors) + 1 /\ DOMAIN anchors' = 1..(Len(anchors) + 1)
      /\ \A i \in 1..Len(anchors) : anchors'[i] = anchors[i]
      /\ anchors'[Len(anchors) + 1] = a
  BY <1>1, <1>3, <1>4, AppendProperties, LenProperties
<1>6. pc'[p] = "idle" /\ anchorSeq'[p] = Len(anchors) + 1
  BY <1>1, <1>2 DEF IInv, TypeOK, LedgerTypeOK
<1>7. TypeOK'
  BY <1>1, <1>5 DEF IInv, TypeOK, LedgerTypeOK, Stage
<1>8. RingInv(p)'
  BY <1>1, <1>6 DEF IInv, RingInv, Covers, Whole, Open, Saving
<1>9. DataInv(p)'
  BY <1>1, <1>6 DEF IInv, DataInv, Fits, Whole, Storing, Recording
<1>10. StageInv(p)'  BY <1>6 DEF StageInv
<1>11. AnchorsNumbered'
  <2>1. \A i \in DOMAIN anchors' : anchors'[i].seq = i - 1 /\ anchors'[i].head \in DOMAIN ledger
    <3>1. SUFFICES ASSUME NEW i \in DOMAIN anchors'
                   PROVE  anchors'[i].seq = i - 1 /\ anchors'[i].head \in DOMAIN ledger
      OBVIOUS
    <3>2. CASE i = Len(anchors) + 1  BY <1>2, <1>3, <1>5, <3>2
    <3>3. CASE i \in DOMAIN anchors  BY <1>5, <3>3 DEF IInv, LedgerInv, AnchorsNumbered
    <3>4. QED  BY <1>5, <3>2, <3>3
  <2>2. SUFFICES ASSUME NEW i \in DOMAIN anchors', NEW j \in DOMAIN anchors', i < j
                 PROVE  anchors'[i].head < anchors'[j].head
    BY <1>1, <2>1 DEF AnchorsNumbered
  <2>3. i \in DOMAIN anchors  BY <1>5, <2>2
  <2>4. CASE j = Len(anchors) + 1  BY <1>2, <1>3, <1>5, <2>3, <2>4
  <2>5. CASE j \in DOMAIN anchors
    BY <1>5, <2>2, <2>3, <2>5 DEF IInv, LedgerInv, AnchorsNumbered
  <2>6. QED  BY <1>5, <2>4, <2>5
<1>12. LedgerInv(p)'
  BY <1>1, <1>2, <1>5, <1>6, <1>11 DEF IInv, LedgerInv, RecordedRotationIsComplete, ChainVerifies,
     Stored
<1>13. QED  BY <1>7, <1>8, <1>9, <1>10, <1>12 DEF IInv

----------------------------------------------------------------------------
(* The theorems.                                                           *)

THEOREM InitIInv ==
    ASSUME NEW p, Procs = {p}
    PROVE  Init => IInv(p)
<1> SUFFICES ASSUME Init PROVE IInv(p)  OBVIOUS
<1> USE DEF Init, LedgerInit, NoHash
<1>1. TypeOK  BY EmptySeq, VaultAssumption DEF TypeOK, LedgerTypeOK, Stage
<1>2. RingInv(p)  BY SentinelAssumption DEF RingInv, Open, Saving
<1>3. DataInv(p)  BY DEF DataInv, Whole, Recording
<1>4. StageInv(p)  BY DEF StageInv
<1>5. LedgerInv(p)
  BY DEF LedgerInv, RecordedRotationIsComplete, ChainVerifies, AnchorsNumbered, Recording
<1>6. QED  BY <1>1, <1>2, <1>3, <1>4, <1>5 DEF IInv

LEMMA StutterKeeps ==
    ASSUME NEW p, Procs = {p}, IInv(p), UNCHANGED vars
    PROVE  IInv(p)'
<1> USE DEF vars, memVars, ledgerVars
<1>1. TypeOK'  BY DEF IInv, TypeOK, LedgerTypeOK
<1>2. RingInv(p)'  BY DEF IInv, RingInv, Covers, Whole
<1>3. DataInv(p)'  BY DEF IInv, DataInv, Fits, Whole
<1>4. StageInv(p)'  BY DEF IInv, StageInv, Rewrapped, Whole
<1>5. LedgerInv(p)'
  BY DEF IInv, LedgerInv, RecordedRotationIsComplete, ChainVerifies, AnchorsNumbered, Stored
<1>6. QED  BY <1>1, <1>2, <1>3, <1>4, <1>5 DEF IInv

THEOREM NextIInv ==
    ASSUME NEW p, Procs = {p}
    PROVE  IInv(p) /\ [Next]_vars => IInv(p)'
<1> SUFFICES ASSUME IInv(p), [Next]_vars PROVE IInv(p)'  OBVIOUS
<1>1. CASE Boot(p)  BY <1>1, LoadRingKeeps, CreateRingKeeps, OpenStoresKeeps DEF Boot
<1>2. ASSUME NEW r \in Metas \cup Medias, NEW v \in Values, Put(p, r, v) PROVE IInv(p)'
  BY <1>2, PutKeeps
<1>3. ASSUME NEW t \in Tokens, PutEntity(p, t) PROVE IInv(p)'  BY <1>3, PutEntityKeeps
<1>4. CASE EndWrite(p)  BY <1>4, EndWriteKeeps
<1>5. CASE Rotate(p)  BY <1>5, RotateKeeps
<1>6. CASE Rotating(p)
  <2>1. CASE SaveRing(p)  BY <2>1, SaveRingKeeps
  <2>2. ASSUME NEW r \in Metas, RewrapMeta(p, r) PROVE IInv(p)'  BY <2>2, RewrapMetaKeeps
  <2>3. ASSUME NEW r \in Medias, RewrapMedia(p, r) PROVE IInv(p)'  BY <2>3, RewrapMediaKeeps
  <2>4. ASSUME NEW r \in Metas \cup Medias, RewrapFails(p, r) PROVE IInv(p)'
    BY <2>4, DieKeeps DEF RewrapFails
  <2>5. CASE RewrapMetaDone(p)  BY <2>5, RewrapMetaDoneKeeps
  <2>6. CASE RewrapEntities(p)  BY <2>6, RewrapEntitiesKeeps
  <2>7. CASE RecordRotation(p)  BY <2>7, RecordRotationKeeps
  <2>8. CASE AnchorRotation(p)  BY <2>8, AnchorRotationKeeps
  <2>9. QED  BY <1>6, <2>1, <2>2, <2>3, <2>4, <2>5, <2>6, <2>7, <2>8 DEF Rotating
<1>7. CASE Crash(p)  BY <1>7, DieKeeps DEF Crash
<1>8. CASE UNCHANGED vars  BY <1>8, StutterKeeps
<1>9. QED  BY <1>1, <1>2, <1>3, <1>4, <1>5, <1>6, <1>7, <1>8 DEF Next

LEMMA VaultInvariant ==
    ASSUME NEW p, Procs = {p}
    PROVE  Spec => []IInv(p)
<1>1. Init => IInv(p)  BY InitIInv
<1>2. IInv(p) /\ [Next]_vars => IInv(p)'  BY NextIInv
<1>3. QED  BY <1>1, <1>2, PTL DEF Spec

\* Types, for one process: the stores only ever hold what was put into them,
\* and a rotation knows the key it retires.
THEOREM VaultTypeOK ==
    ASSUME NEW p, Procs = {p}
    PROVE  Spec => []TypeOK
<1>1. Spec => []IInv(p)  BY VaultInvariant
<1>2. IInv(p) => TypeOK  BY DEF IInv
<1>3. QED  BY <1>1, <1>2, PTL

\* A record is never under a key that the saved keyring lacks, whatever number
\* of records, keys, rotations and crashes there are (KeyRing, EncryptedStores).
THEOREM KeysAreSavedFirst ==
    ASSUME NEW p, Procs = {p}
    PROVE  Spec => []KeyOnDiskFirst
<1>1. Spec => []IInv(p)  BY VaultInvariant
<1>2. IInv(p) => KeyOnDiskFirst
  BY DEF IInv, RingInv, Covers, KeyOnDiskFirst, Stored, Whole
<1>3. QED  BY <1>1, <1>2, PTL

\* rotate_keys writes its ledger entry only when nothing on disk is under an
\* older key, and nothing is ever put under an older key after it.
THEOREM RecordedRotationsAreComplete ==
    ASSUME NEW p, Procs = {p}
    PROVE  Spec => []RecordedRotationIsComplete
<1>1. Spec => []IInv(p)  BY VaultInvariant
<1>2. IInv(p) => RecordedRotationIsComplete  BY DEF IInv, LedgerInv
<1>3. QED  BY <1>1, <1>2, PTL

\* The ledger and the anchor file stay in order over crashes and restarts of
\* one process (LedgerWriter, AnchorWriter).
THEOREM ProvenanceInOrder ==
    ASSUME NEW p, Procs = {p}
    PROVE  Spec => [](ChainVerifies /\ AnchorsNumbered)
<1>1. Spec => []IInv(p)  BY VaultInvariant
<1>2. IInv(p) => ChainVerifies /\ AnchorsNumbered  BY DEF IInv, LedgerInv
<1>3. QED  BY <1>1, <1>2, PTL

\* Anchors are numbered without gap or repeat and name ledger heads in the order
\* these were written, over crashes and restarts of one process.
THEOREM AnchorsInOrder ==
    ASSUME NEW p, Procs = {p}
    PROVE  Spec => []AnchorsNumbered
<1>1. Spec => [](ChainVerifies /\ AnchorsNumbered)  BY ProvenanceInOrder
<1>2. QED  BY <1>1, PTL

----------------------------------------------------------------------------
(* The vault of one process is a record store: each step is one of         *)
(* RecordStore's or leaves what every record reads as alone.               *)

Writing(p, r) == pending[p] # None /\ pending[p].item = r

\* SurvivingKeys and Reads, when there is one process.
LiveKeys(p) ==
    IF ringFile \in Ring THEN ringFile.keys
    ELSE IF pc[p] \in Saving THEN ring[p].keys ELSE {}

ReadsOf(p, r) ==
    IF Writing(p, r) THEN pending[p].blob.val
    ELSE IF disk[r] = Absent THEN IF r = EntityMap THEN {} ELSE Absent
    ELSE IF disk[r] = Torn \/ disk[r].key \notin LiveKeys(p) THEN Lost
    ELSE disk[r].val

\* An open vault has in memory the entity map that its file reads as, a write
\* under way has truncated its file, and rotate() visits records that exist.
MapInv(p) ==
    /\ pc[p] \in Recording =>
         IF Writing(p, EntityMap) THEN pending[p].blob.val = entities[p]
         ELSE IF disk[EntityMap] = Absent THEN entities[p] = {}
         ELSE disk[EntityMap] # Torn /\ disk[EntityMap].val = entities[p]
    /\ pending[p] # None => disk[pending[p].item] = Torn
    /\ \A r \in todo[p] : disk[r] # Absent

\* What the store behind the mapping does in a step.
SameReads == \A r \in Items : Reads(r)' = Reads(r)
SameUp(p) == pc'[p] # "down" <=> pc[p] # "down"

LEMMA OneReader ==
    ASSUME NEW p, Procs = {p}
    PROVE  \A r : Reads(r) = ReadsOf(p, r)
<1> TAKE r
<1>1. Writers(r) = IF Writing(p, r) THEN {p} ELSE {}  BY DEF Writers, Writing
<1>2. SurvivingKeys = LiveKeys(p)
  <2>1. {q \in Procs : pc[q] \in {"create", "save"}} = IF pc[p] \in Saving THEN {p} ELSE {}
    BY DEF Saving
  <2>2. UNION {ring[q].keys : q \in {p}} = ring[p].keys  OBVIOUS
  <2>3. UNION {ring[q].keys : q \in {}} = {}  OBVIOUS
  <2>4. QED  BY <2>1, <2>2, <2>3 DEF SurvivingKeys, LiveKeys
<1>3. (CHOOSE q \in {p} : TRUE) = p  OBVIOUS
<1>4. CASE Writing(p, r)  BY <1>1, <1>3, <1>4 DEF Reads, ReadsOf
<1>5. CASE ~Writing(p, r)  BY <1>1, <1>2, <1>5 DEF Reads, ReadsOf
<1>6. QED  BY <1>4, <1>5

LEMMA OneReaderNext ==
    ASSUME NEW p, Procs = {p}
    PROVE  \A r : Reads(r)' = ReadsOf(p, r)'
<1>1. [](\A r : Reads(r) = ReadsOf(p, r))  BY OneReader, PTL
<1>2. (\A r : Reads(r) = ReadsOf(p, r))'  BY <1>1, PTL
<1>3. QED  BY <1>2

\* Everything on disk can be opened, while there is a keyring to open it with.
LEMMA AllReadable ==
    ASSUME NEW p, Procs = {p}, IInv(p), pc[p] # "down" \/ ringFile \in Ring,
           NEW r \in Items, Whole(r)
    PROVE  disk[r].key \in LiveKeys(p)
<1>1. pc[p] # "down" => pc[p] \in Open \cup Saving
  BY DEF IInv, TypeOK, Stage, Open, Saving
<1>2. QED
  BY <1>1, SentinelAssumption DEF IInv, RingInv, Covers, LiveKeys, Open, Saving

LEMMA SameReadsOf ==
    ASSUME NEW p, Procs = {p}, \A r \in Items : ReadsOf(p, r)' = ReadsOf(p, r)
    PROVE  SameReads
BY OneReader, OneReaderNext DEF SameReads

\* Steps that touch neither the files, the keyring nor the write under way.
LEMMA QuietKeeps ==
    ASSUME NEW p, Procs = {p}, IInv(p), MapInv(p),
           UNCHANGED <<ringFile, disk, ring, entities, pending>>,
           pc'[p] \in Recording => pc[p] \in Recording,
           pc'[p] \in Saving <=> pc[p] \in Saving,
           \A r \in todo'[p] : r \in todo[p] \/ disk[r] # Absent
    PROVE  MapInv(p)' /\ SameReads
<1>1. MapInv(p)'  BY DEF MapInv, Writing
<1>2. \A r \in Items : ReadsOf(p, r)' = ReadsOf(p, r)
  BY DEF ReadsOf, Writing, LiveKeys
<1>3. QED  BY <1>1, <1>2, SameReadsOf

LEMMA LoadRingMaps ==
    ASSUME NEW p, Procs = {p}, IInv(p), MapInv(p), LoadRing(p)
    PROVE  MapInv(p)' /\ SameReads /\ pc[p] = "down" /\ pc'[p] = "opening"
<1>1. /\ pc[p] = "down" /\ pc'[p] = "opening" /\ ringFile \in Ring
      /\ UNCHANGED <<ringFile, disk, entities, pending, todo>>
  BY DEF LoadRing, GoTo, IInv, TypeOK
<1>2. MapInv(p)'  BY <1>1 DEF MapInv, Recording, Writing
<1>3. \A r \in Items : ReadsOf(p, r)' = ReadsOf(p, r)
  BY <1>1 DEF ReadsOf, Writing, LiveKeys
<1>4. QED  BY <1>1, <1>2, <1>3, SameReadsOf

LEMMA CreateRingMaps ==
    ASSUME NEW p, Procs = {p}, IInv(p), MapInv(p), CreateRing(p)
    PROVE  MapInv(p)' /\ SameReads /\ pc[p] = "down" /\ pc'[p] = "create"
<1>1. /\ pc[p] = "down" /\ pc'[p] = "create" /\ ringFile = Absent
      /\ UNCHANGED <<disk, entities, pending, todo>>
  BY DEF CreateRing, GoTo, IInv, TypeOK
<1>2. MapInv(p)'  BY <1>1 DEF MapInv, Recording, Writing
<1>3. pending[p] = None  BY <1>1 DEF IInv, DataInv, Storing
<1>4. \A r \in Items : disk[r] = Absent  BY <1>1 DEF IInv, RingInv
<1>5. \A r \in Items : ReadsOf(p, r)' = ReadsOf(p, r)
  BY <1>1, <1>3, <1>4 DEF ReadsOf, Writing
<1>6. QED  BY <1>1, <1>2, <1>5, SameReadsOf

\* The death of the process costs at most the record being written, or, when it
\* was the keyring, every record.
LEMMA DieMaps ==
    ASSUME NEW p, Procs = {p}, IInv(p), MapInv(p), pc[p] # "down", Die(p),
           UNCHANGED <<ringFile, disk>>
    PROVE  /\ MapInv(p)' /\ pc'[p] = "down"
           /\ \E S \in SUBSET Items :
                /\ (\A r, s \in S : r = s) \/ \A r \in Items : Reads(r) \notin {Absent, {}} => r \in S
                /\ \A r \in Items : Reads(r)' = IF r \in S THEN Lost ELSE Reads(r)
<1>1. /\ pc'[p] = "down" /\ pending'[p] = None /\ todo'[p] = {}
      /\ UNCHANGED <<ringFile, disk>>
  BY DEF Die, GoTo, IInv, TypeOK
<1>2. MapInv(p)'  BY <1>1 DEF MapInv, Recording, Writing
<1>3. pc[p] \in Open \cup Saving  BY DEF IInv, TypeOK, Stage, Open, Saving
<1>4. \A r \in Items : ReadsOf(p, r)' =
        IF disk[r] = Absent THEN IF r = EntityMap THEN {} ELSE Absent
        ELSE IF ringFile \notin Ring \/ disk[r] = Torn \/ disk[r].key \notin ringFile.keys
        THEN Lost ELSE disk[r].val
  BY <1>1 DEF ReadsOf, Writing, LiveKeys, Saving
<1>5. CASE pc[p] \in Open
  <2>1. ringFile \in Ring  BY <1>5 DEF IInv, RingInv
  <2>2. \A r \in Items : Writing(p, r) => disk[r] = Torn  BY DEF MapInv, Writing
  <2>3. \A r \in Items : ReadsOf(p, r)' = IF Writing(p, r) THEN Lost ELSE ReadsOf(p, r)
    BY <1>4, <2>1, <2>2, SentinelAssumption DEF ReadsOf, LiveKeys
  <2>4. PICK S \in SUBSET Items : S = {r \in Items : Writing(p, r)}  OBVIOUS
  <2>5. \A r, s \in S : r = s  BY <2>4 DEF Writing
  <2>6. \A r \in Items : Reads(r)' = IF r \in S THEN Lost ELSE Reads(r)
    BY <2>3, <2>4, OneReader, OneReaderNext
  <2>7. QED  BY <1>1, <1>2, <2>5, <2>6
<1>6. CASE pc[p] \in Saving
  <2>1. ringFile = Torn /\ Torn \notin Ring  BY <1>6, SentinelAssumption DEF IInv, RingInv
  <2>2. pending[p] = None  BY <1>6 DEF IInv, DataInv, Saving, Storing
  <2>3. \A r \in Items : ReadsOf(p, r)' = IF disk[r] # Absent THEN Lost ELSE ReadsOf(p, r)
    BY <1>4, <2>1, <2>2 DEF ReadsOf, Writing
  <2>4. \A r \in Items : ReadsOf(p, r) \notin {Absent, {}} => disk[r] # Absent
    BY <2>2 DEF ReadsOf, Writing
  <2>5. PICK S \in SUBSET Items : S = {r \in Items : disk[r] # Absent}  OBVIOUS
  <2>6. \A r \in Items : Reads(r) \notin {Absent, {}} => r \in S
    BY <2>4, <2>5, OneReader
  <2>7. \A r \in Items : Reads(r)' = IF r \in S THEN Lost ELSE Reads(r)
    BY <2>3, <2>5, OneReader, OneReaderNext
  <2>8. QED  BY <1>1, <1>2, <2>6, <2>7
<1>7. QED  BY <1>3, <1>5, <1>6

\* What put, the entity map's put and the rewrapping of a record have in
\* common: r reads as what is written, the others as before.
LEMMA BeginWriteMaps ==
    ASSUME NEW p, Procs = {p}, IInv(p), MapInv(p),
           NEW r \in Items, NEW v, Fits(r, v), pending[p] = None,
           pc[p] \in Storing, pc'[p] \in Storing,
           BeginWrite(p, r, Encrypt(p, v)), UNCHANGED <<ringFile, ring>>,
           \A s \in todo'[p] : s \in todo[p],
           r = EntityMap => entities'[p] = v,
           r # EntityMap => entities'[p] = entities[p]
    PROVE  /\ MapInv(p)'
           /\ \A s \in Items : Reads(s)' = IF s = r THEN v ELSE Reads(s)
<1>1. ringFile = ring[p] /\ ring[p] \in Ring /\ Covers(ringFile)
  BY DEF IInv, RingInv, Open, Storing
<1>2. Encrypt(p, v) \in Blob /\ Encrypt(p, v).val = v
  BY <1>1 DEF Encrypt, Blob, Ring, Fits
<1>3. /\ pending'[p] = [item |-> r, blob |-> Encrypt(p, v)]
      /\ disk'[r] = Torn /\ \A s \in Items : s # r => disk'[s] = disk[s]
  BY DEF BeginWrite, IInv, TypeOK
<1>4. pending'[p] # None /\ pending'[p].item = r /\ pending'[p].blob.val = v
  BY <1>2, <1>3, SentinelAssumption
<1>5. \A s \in Items : ReadsOf(p, s)' = IF s = r THEN v ELSE ReadsOf(p, s)
  BY <1>3, <1>4 DEF ReadsOf, Writing, LiveKeys, Saving, Storing
<1>6. MapInv(p)'
  <2>1. EntityMap \in Items  BY DEF Items
  <2>2. ASSUME pc'[p] \in Recording
        PROVE  (IF Writing(p, EntityMap) THEN pending[p].blob.val = entities[p]
                ELSE IF disk[EntityMap] = Absent THEN entities[p] = {}
                ELSE disk[EntityMap] # Torn /\ disk[EntityMap].val = entities[p])'
    BY <1>3, <1>4, <2>1 DEF MapInv, Writing, Storing, Recording
  <2>3. \A s \in todo'[p] : disk'[s] # Absent
    <3>1. \A s \in todo[p] : s \in Items /\ disk[s] # Absent  BY DEF MapInv, IInv, TypeOK
    <3>2. QED  BY <1>3, <3>1, SentinelAssumption
  <2>4. QED  BY <1>3, <1>4, <2>2, <2>3 DEF MapInv
<1>7. QED  BY <1>5, <1>6, OneReader, OneReaderNext

LEMMA PutMaps ==
    ASSUME NEW p, Procs = {p}, IInv(p), MapInv(p),
           NEW r \in Metas \cup Medias, NEW v \in Values, Put(p, r, v)
    PROVE  /\ MapInv(p)' /\ pc[p] # "down" /\ SameUp(p)
           /\ \A s \in Items : Reads(s)' = IF s = r THEN v ELSE Reads(s)
<1>1. r \in Items /\ r # EntityMap /\ Fits(r, v)  BY VaultAssumption DEF Items, Fits, Payload
<1>2. /\ pc[p] = "idle" /\ pending[p] = None /\ BeginWrite(p, r, Encrypt(p, v))
      /\ UNCHANGED <<ringFile, pc, ring, entities, todo>>
  BY DEF Put, Idle
<1>3. pc'[p] \in Storing /\ \A s \in todo'[p] : s \in todo[p]  BY <1>2 DEF Storing
<1>4. QED  BY <1>1, <1>2, <1>3, BeginWriteMaps DEF Storing, SameUp

LEMMA PutEntityMaps ==
    ASSUME NEW p, Procs = {p}, IInv(p), MapInv(p), NEW t \in Tokens, PutEntity(p, t)
    PROVE  /\ MapInv(p)' /\ pc[p] # "down" /\ SameUp(p) /\ Reads(EntityMap) # Lost
           /\ \A s \in Items :
                Reads(s)' = IF s = EntityMap THEN Reads(EntityMap) \cup {t} ELSE Reads(s)
<1> DEFINE v == entities[p] \cup {t}
<1>1. entities[p] \in SUBSET Tokens /\ v \in SUBSET Tokens /\ EntityMap \in Items
  BY DEF IInv, TypeOK, Items
<1>2. Fits(EntityMap, v)  BY <1>1, VaultAssumption DEF Fits, Payload
<1>3. /\ pc[p] = "idle" /\ pending[p] = None /\ BeginWrite(p, EntityMap, Encrypt(p, v))
      /\ entities'[p] = v /\ UNCHANGED <<ringFile, pc, ring, todo>>
  BY DEF PutEntity, Idle, IInv, TypeOK
<1>4. Reads(EntityMap) = entities[p]
  <2>1. Whole(EntityMap) => disk[EntityMap].key \in LiveKeys(p)
    BY <1>1, <1>3, AllReadable
  <2>2. ReadsOf(p, EntityMap) = entities[p]
    BY <1>3, <2>1 DEF ReadsOf, Writing, MapInv, Recording, Whole
  <2>3. QED  BY <2>2, OneReader
<1>5. pc'[p] \in Storing /\ \A s \in todo'[p] : s \in todo[p]  BY <1>3 DEF Storing
<1>6. /\ MapInv(p)'
      /\ \A s \in Items : Reads(s)' = IF s = EntityMap THEN v ELSE Reads(s)
  <2> HIDE DEF v
  <2>1. QED  BY <1>1, <1>2, <1>3, <1>5, BeginWriteMaps DEF Storing
<1>7. Reads(EntityMap) # Lost  BY <1>1, <1>4, LostAssumption
<1>8. QED  BY <1>3, <1>4, <1>6, <1>7 DEF SameUp

LEMMA EndWriteMaps ==
    ASSUME NEW p, Procs = {p}, IInv(p), MapInv(p), EndWrite(p)
    PROVE  MapInv(p)' /\ SameReads /\ SameUp(p)
<1>1. PICK w \in [item : Items, blob : Blob] : w = pending[p]
  BY DEF EndWrite, IInv, TypeOK
<1>2. /\ disk'[w.item] = w.blob /\ \A s \in Items : s # w.item => disk'[s] = disk[s]
      /\ pending'[p] = None /\ pending[p] # None
      /\ UNCHANGED <<ringFile, pc, ring, entities, todo>>
  BY <1>1 DEF EndWrite, IInv, TypeOK
<1>3. w.item \in Items /\ w.blob \in Blob /\ w.blob # Absent /\ w.blob # Torn
  BY <1>1, SentinelAssumption
<1>4. w.blob.key \in LiveKeys(p)
  <2>1. pc[p] \in Storing /\ w.blob.key = ring[p].active
    BY <1>1, <1>2 DEF IInv, DataInv
  <2>2. QED
    BY <2>1 DEF IInv, RingInv, Covers, Open, Storing, LiveKeys
<1>5. \A r \in Items : ReadsOf(p, r)' = ReadsOf(p, r)
  BY <1>1, <1>2, <1>3, <1>4 DEF ReadsOf, Writing, LiveKeys
<1>6. MapInv(p)'
  <2>1. EntityMap \in Items /\ \A r \in todo[p] : r \in Items  BY DEF Items, IInv, TypeOK
  <2>2. QED  BY <1>1, <1>2, <1>3, <2>1 DEF MapInv, Writing
<1>7. QED  BY <1>2, <1>5, <1>6, SameReadsOf DEF SameUp

LEMMA RotateMaps ==
    ASSUME NEW p, Procs = {p}, IInv(p), MapInv(p), Rotate(p)
    PROVE  MapInv(p)' /\ SameReads /\ SameUp(p)
<1>1. /\ pc[p] = "idle" /\ pc'[p] = "save" /\ pending[p] = None
      /\ ring'[p] = Grown(ring[p], issued + 1)
      /\ ringFile' = Torn /\ Torn \notin Ring
      /\ UNCHANGED <<disk, entities, pending, todo>>
  BY SentinelAssumption DEF Rotate, Idle, GoTo, IInv, TypeOK
<1>2. ring'[p].keys = ring[p].keys \cup {issued + 1}  BY <1>1 DEF Grown
<1>3. ringFile \in Ring /\ LiveKeys(p) = ring[p].keys
  BY <1>1 DEF IInv, RingInv, Open, LiveKeys
<1>4. LiveKeys(p)' = ring[p].keys \cup {issued + 1}
  BY <1>1, <1>2 DEF LiveKeys, Saving
<1>5. \A r \in Items : Whole(r) => disk[r].key \in LiveKeys(p)  BY <1>3, AllReadable
<1>6. \A r \in Items : ReadsOf(p, r)' = ReadsOf(p, r)
  BY <1>1, <1>3, <1>4, <1>5 DEF ReadsOf, Writing, Whole
<1>7. MapInv(p)'  BY <1>1 DEF MapInv, Writing, Recording
<1>8. QED  BY <1>1, <1>6, <1>7, SameReadsOf DEF SameUp

LEMMA SaveRingMaps ==
    ASSUME NEW p, Procs = {p}, IInv(p), MapInv(p), SaveRing(p)
    PROVE  MapInv(p)' /\ SameReads /\ SameUp(p)
<1>1. /\ pc[p] \in Saving /\ pc'[p] \in {"opening", "meta"}
      /\ pc'[p] = "meta" => pc[p] = "save"
      /\ ringFile' = ring[p] /\ \A r \in todo'[p] : r \in todo[p] \/ disk[r] # Absent
      /\ UNCHANGED <<disk, ring, entities, pending>>
  BY DEF SaveRing, Saving, GoTo, Stored, IInv, TypeOK
<1>2. ringFile \notin Ring /\ ring[p] \in Ring
  BY <1>1, SentinelAssumption DEF IInv, RingInv, Covers
<1>3. LiveKeys(p)' = LiveKeys(p)  BY <1>1, <1>2 DEF LiveKeys
<1>4. \A r \in Items : ReadsOf(p, r)' = ReadsOf(p, r)
  BY <1>1, <1>3 DEF ReadsOf, Writing
<1>5. MapInv(p)'  BY <1>1 DEF MapInv, Writing, Recording
<1>6. pc[p] # "down" /\ pc'[p] # "down"  BY <1>1 DEF Saving
<1>7. QED  BY <1>4, <1>5, <1>6, SameReadsOf DEF SameUp

\* What rotate() writes back of a record that is whole is what the record reads as.
LEMMA RewrapMaps ==
    ASSUME NEW p, Procs = {p}, IInv(p), MapInv(p), pending[p] = None,
           pc[p] \in {"meta", "media"}, NEW r \in todo[p], r # EntityMap, disk[r] # Torn,
           BeginWrite(p, r, Encrypt(p, Get(p, r))),
           todo' = [todo EXCEPT ![p] = Rest(p, r)],
           UNCHANGED <<ringFile, pc, ring, entities>>
    PROVE  MapInv(p)' /\ SameReads /\ SameUp(p)
<1>1. r \in Items /\ Whole(r)  BY DEF MapInv, IInv, TypeOK, Whole
<1>2. pc[p] \in Storing /\ pc'[p] \in Storing /\ pc[p] \in Open /\ pc[p] # "down"
  BY DEF Storing, Open
<1>3. disk[r].key \in LiveKeys(p) /\ disk[r].key \in ring[p].keys
  BY <1>1, <1>2, AllReadable DEF IInv, RingInv, LiveKeys
<1>4. Get(p, r) = disk[r].val /\ Fits(r, disk[r].val)
  BY <1>1, <1>3 DEF Get, Decrypt, Whole, IInv, DataInv
<1>5. ReadsOf(p, r) = disk[r].val
  BY <1>1, <1>3 DEF ReadsOf, Writing, Whole
<1>6. \A s \in todo'[p] : s \in todo[p]  BY DEF Rest, IInv, TypeOK
<1>7. PICK v : v = disk[r].val  OBVIOUS
<1>8. MapInv(p)' /\ \A s \in Items : Reads(s)' = IF s = r THEN v ELSE Reads(s)
  BY <1>1, <1>2, <1>4, <1>6, <1>7, BeginWriteMaps
<1>9. SameReads  BY <1>5, <1>7, <1>8, OneReader DEF SameReads
<1>10. QED  BY <1>8, <1>9 DEF SameUp

LEMMA RewrapMetaMaps ==
    ASSUME NEW p, Procs = {p}, IInv(p), MapInv(p), NEW r \in Metas, RewrapMeta(p, r)
    PROVE  MapInv(p)' /\ SameReads /\ SameUp(p)
<1>1. r # EntityMap  BY VaultAssumption
<1>2. QED  BY <1>1, RewrapMaps DEF RewrapMeta

LEMMA RewrapMediaMaps ==
    ASSUME NEW p, Procs = {p}, IInv(p), MapInv(p), NEW r \in Medias, RewrapMedia(p, r)
    PROVE  MapInv(p)' /\ SameReads /\ SameUp(p)
<1>1. r # EntityMap  BY VaultAssumption
<1>2. CASE Get(p, r) = None
  <2>1. /\ pc' = pc /\ UNCHANGED <<ringFile, disk, ring, entities, pending>>
        /\ \A s \in todo'[p] : s \in todo[p]
    BY <1>2 DEF RewrapMedia, Rest, IInv, TypeOK
  <2>2. QED  BY <2>1, QuietKeeps DEF SameUp
<1>3. CASE Get(p, r) # None  BY <1>1, <1>3, RewrapMaps DEF RewrapMedia
<1>4. QED  BY <1>2, <1>3

LEMMA RewrapEntitiesMaps ==
    ASSUME NEW p, Procs = {p}, IInv(p), MapInv(p), RewrapEntities(p)
    PROVE  MapInv(p)' /\ SameReads /\ SameUp(p)
<1>1. /\ pc[p] = "media" /\ pc'[p] = "entity" /\ pending[p] = None
      /\ BeginWrite(p, EntityMap, Encrypt(p, entities[p]))
      /\ UNCHANGED <<ringFile, ring, entities, todo>>
  BY DEF RewrapEntities, GoTo, IInv, TypeOK
<1>2. EntityMap \in Items /\ Fits(EntityMap, entities[p])
  BY VaultAssumption DEF Items, Fits, Payload, IInv, TypeOK
<1>3. ReadsOf(p, EntityMap) = entities[p]
  <2>1. Whole(EntityMap) => disk[EntityMap].key \in LiveKeys(p)
    BY <1>1, <1>2, AllReadable
  <2>2. QED  BY <1>1, <2>1 DEF ReadsOf, Writing, MapInv, Recording, Whole
<1>4. pc[p] \in Storing /\ pc'[p] \in Storing /\ \A s \in todo'[p] : s \in todo[p]
  BY <1>1 DEF Storing
<1>5. PICK v : v = entities[p]  OBVIOUS
<1>6. MapInv(p)' /\ \A s \in Items : Reads(s)' = IF s = EntityMap THEN v ELSE Reads(s)
  BY <1>1, <1>2, <1>4, <1>5, BeginWriteMaps
<1>7. SameReads  BY <1>3, <1>5, <1>6, OneReader DEF SameReads
<1>8. QED  BY <1>1, <1>6, <1>7 DEF SameUp

LEMMA RestOfRotationMaps ==
    ASSUME NEW p, Procs = {p}, IInv(p), MapInv(p),
           RewrapMetaDone(p) \/ RecordRotation(p) \/ AnchorRotation(p)
    PROVE  MapInv(p)' /\ SameReads /\ SameUp(p)
<1>1. /\ pc[p] \in {"meta", "entity", "anchor"} /\ pc'[p] \in {"media", "anchor", "idle"}
      /\ UNCHANGED <<ringFile, disk, ring, entities, pending>>
      /\ \A r \in todo'[p] : r \in todo[p] \/ disk[r] # Absent
  BY DEF RewrapMetaDone, RecordRotation, AnchorRotation, GoTo, Stored, IInv, TypeOK
<1>2. MapInv(p)' /\ SameReads  BY <1>1, QuietKeeps DEF Recording, Saving
<1>3. QED  BY <1>1, <1>2 DEF SameUp

\* A map that some key opens is the one the file reads as; no file is an empty map.
LEMMA OpenStoresMaps ==
    ASSUME NEW p, Procs = {p}, IInv(p), MapInv(p), OpenStores(p), disk[EntityMap] # Torn
    PROVE  MapInv(p)' /\ SameReads /\ SameUp(p)
<1>1. /\ pc[p] = "opening" /\ pc'[p] = "idle"
      /\ entities'[p] = LoadedMap(Get(p, EntityMap))
      /\ UNCHANGED <<ringFile, disk, ring, pending, todo>>
  BY DEF OpenStores, GoTo, IInv, TypeOK
<1>2. pending[p] = None /\ EntityMap \in Items
  BY <1>1 DEF IInv, DataInv, Storing, Items
<1>3. ASSUME disk[EntityMap] = Absent PROVE MapInv(p)'
  <2>1. entities'[p] = {}  BY <1>1, <1>3 DEF Get, LoadedMap
  <2>2. QED  BY <1>1, <1>2, <1>3, <2>1 DEF MapInv, Writing
<1>4. ASSUME disk[EntityMap] # Absent PROVE MapInv(p)'
  <2>1. Whole(EntityMap)  BY <1>4 DEF Whole
  <2>2. disk[EntityMap].key \in ring[p].keys
    BY <1>1, <1>2, <2>1, AllReadable DEF IInv, RingInv, Open, LiveKeys
  <2>3. disk[EntityMap].val # None
    BY <1>2, <2>1, VaultAssumption DEF IInv, DataInv, Fits
  <2>4. entities'[p] = disk[EntityMap].val
    BY <1>1, <1>4, <2>2, <2>3 DEF Get, Decrypt, LoadedMap
  <2>5. QED  BY <1>1, <1>2, <1>4, <2>4 DEF MapInv, Writing
<1>5. MapInv(p)'  BY <1>3, <1>4
<1>6. \A r \in Items : ReadsOf(p, r)' = ReadsOf(p, r)
  BY <1>1 DEF ReadsOf, Writing, LiveKeys, Saving
<1>7. QED  BY <1>1, <1>5, <1>6, SameReadsOf DEF SameUp

LEMMA MapInvInit ==
    ASSUME NEW p, Procs = {p}
    PROVE  Init => MapInv(p) /\ Store!Init
<1> SUFFICES ASSUME Init PROVE MapInv(p) /\ Store!Init  OBVIOUS
<1>1. pc[p] = "down" /\ pending[p] = None /\ todo[p] = {} /\ \A r \in Items : disk[r] = Absent
  BY DEF Init
<1>2. MapInv(p)  BY <1>1 DEF MapInv, Recording
<1>3. \A r \in Items : Reads(r) = IF r = EntityMap THEN {} ELSE Absent
  BY <1>1, OneReader DEF ReadsOf, Writing
<1>4. (\E q \in Procs : pc[q] # "down") = FALSE  BY <1>1
<1>5. Store!Items = Items  BY DEF Store!Items, Items
<1>6. QED  BY <1>2, <1>3, <1>4, <1>5 DEF Store!Init, Contents, Running

\* Each step of the vault, seen through the mapping.
LEMMA StoreStep ==
    ASSUME NEW p, Procs = {p}, IInv(p), MapInv(p), [Next]_vars
    PROVE  /\ MapInv(p)'
           /\ \/ SameReads /\ SameUp(p)
              \/ SameReads /\ pc[p] = "down" /\ pc'[p] # "down"
              \/ \E r \in Metas \cup Medias, v \in Values :
                   /\ pc[p] # "down" /\ SameUp(p)
                   /\ \A s \in Items : Reads(s)' = IF s = r THEN v ELSE Reads(s)
              \/ \E t \in Tokens :
                   /\ pc[p] # "down" /\ SameUp(p) /\ Reads(EntityMap) # Lost
                   /\ \A s \in Items :
                        Reads(s)' = IF s = EntityMap THEN Reads(EntityMap) \cup {t} ELSE Reads(s)
              \/ /\ pc[p] # "down" /\ pc'[p] = "down"
                 /\ \E S \in SUBSET Items :
                      /\ \/ \A r, s \in S : r = s
                         \/ \A r \in Items : Reads(r) \notin {Absent, {}} => r \in S
                      /\ \A r \in Items : Reads(r)' = IF r \in S THEN Lost ELSE Reads(r)
<1> DEFINE Goal == MapInv(p)' /\ SameReads /\ SameUp(p)
<1>1. CASE UNCHANGED vars
  <2>1. /\ UNCHANGED <<ringFile, disk, ring, entities, pending, pc, todo>>
    BY <1>1 DEF vars, memVars
  <2>2. Goal  BY <2>1, QuietKeeps DEF SameUp
  <2>3. QED  BY <2>2
<1>2. CASE Boot(p)
  <2>1. CASE LoadRing(p)  BY <2>1, LoadRingMaps
  <2>2. CASE CreateRing(p)  BY <2>2, CreateRingMaps
  <2>3. CASE OpenStores(p) /\ disk[EntityMap] = Torn
    <3>1. Die(p) /\ pc[p] # "down" /\ UNCHANGED <<ringFile, disk>>  BY <2>3 DEF OpenStores
    <3>2. QED  BY <3>1, DieMaps
  <2>4. CASE OpenStores(p) /\ disk[EntityMap] # Torn  BY <2>4, OpenStoresMaps
  <2>5. QED  BY <1>2, <2>1, <2>2, <2>3, <2>4 DEF Boot
<1>3. CASE \E r \in Metas \cup Medias, v \in Values : Put(p, r, v)  BY <1>3, PutMaps
<1>4. CASE \E t \in Tokens : PutEntity(p, t)  BY <1>4, PutEntityMaps
<1>5. CASE EndWrite(p)  BY <1>5, EndWriteMaps
<1>6. CASE Rotate(p)  BY <1>6, RotateMaps
<1>7. CASE Rotating(p)
  <2>1. CASE SaveRing(p)  BY <2>1, SaveRingMaps
  <2>2. CASE \E r \in Metas : RewrapMeta(p, r)  BY <2>2, RewrapMetaMaps
  <2>3. CASE \E r \in Medias : RewrapMedia(p, r)  BY <2>3, RewrapMediaMaps
  <2>4. CASE \E r \in Metas \cup Medias : RewrapFails(p, r)
    <3>1. Die(p) /\ pc[p] # "down" /\ UNCHANGED <<ringFile, disk>>  BY <2>4 DEF RewrapFails
    <3>2. QED  BY <3>1, DieMaps
  <2>5. CASE RewrapEntities(p)  BY <2>5, RewrapEntitiesMaps
  <2>6. CASE RewrapMetaDone(p) \/ RecordRotation(p) \/ AnchorRotation(p)
    BY <2>6, RestOfRotationMaps
  <2>7. QED  BY <1>7, <2>1, <2>2, <2>3, <2>4, <2>5, <2>6 DEF Rotating
<1>8. CASE Crash(p)
  <2>1. Die(p) /\ pc[p] # "down" /\ UNCHANGED <<ringFile, disk>>  BY <1>8 DEF Crash
  <2>2. QED  BY <2>1, DieMaps
<1>9. QED  BY <1>1, <1>2, <1>3, <1>4, <1>5, <1>6, <1>7, <1>8 DEF Next

LEMMA StoreNext ==
    ASSUME NEW p, Procs = {p}, IInv(p), MapInv(p), [Next]_vars
    PROVE  [Store!Next]_<<Contents, Running>>
<1> USE DEF Contents, Running
<1>1. Store!Items = Items  BY DEF Store!Items, Items
<1>2. Running = (pc[p] # "down") /\ Running' = (pc'[p] # "down")  OBVIOUS
<1>3. \A r \in Items : Contents[r] = Reads(r) /\ Contents'[r] = Reads(r)'  OBVIOUS
<1>4. DOMAIN Contents = Items /\ DOMAIN Contents' = Items  OBVIOUS
<1>5. EntityMap \in Items /\ Metas \cup Medias \subseteq Items  BY DEF Items
<1>6. CASE SameReads /\ SameUp(p)
  <2>1. Contents' = Contents  BY <1>6 DEF SameReads
  <2>2. Running' = Running  BY <1>2, <1>6 DEF SameUp
  <2>3. QED  BY <2>1, <2>2
<1>7. CASE SameReads /\ pc[p] = "down" /\ pc'[p] # "down"
  <2>1. Contents' = Contents  BY <1>7 DEF SameReads
  <2>2. ~Running /\ Running' = TRUE  BY <1>2, <1>7
  <2>3. Store!Start  BY <2>1, <2>2 DEF Store!Start
  <2>4. QED  BY <2>3 DEF Store!Next
<1>8. ASSUME NEW r \in Metas \cup Medias, NEW v \in Values, pc[p] # "down", SameUp(p),
             \A s \in Items : Reads(s)' = IF s = r THEN v ELSE Reads(s)
      PROVE  Store!Next
  <2>1. Contents' = [Contents EXCEPT ![r] = v]  BY <1>5, <1>8
  <2>2. Running /\ Running' = Running  BY <1>2, <1>8 DEF SameUp
  <2>3. Store!Put(r, v)  BY <2>1, <2>2 DEF Store!Put
  <2>4. QED  BY <2>3 DEF Store!Next
<1>9. ASSUME NEW t \in Tokens, pc[p] # "down", SameUp(p), Reads(EntityMap) # Lost,
             \A s \in Items :
                 Reads(s)' = IF s = EntityMap THEN Reads(EntityMap) \cup {t} ELSE Reads(s)
      PROVE  Store!Next
  <2>1. Contents' = [Contents EXCEPT ![EntityMap] = @ \cup {t}] /\ Contents[EntityMap] # Lost  BY <1>5, <1>9
  <2>2. Running /\ Running' = Running  BY <1>2, <1>9 DEF SameUp
  <2>3. Store!AddToken(t)  BY <2>1, <2>2 DEF Store!AddToken
  <2>4. QED  BY <2>3 DEF Store!Next
<1>10. ASSUME NEW S \in SUBSET Items, pc[p] # "down", pc'[p] = "down",
              \/ \A r, s \in S : r = s
              \/ \A r \in Items : Reads(r) \notin {Absent, {}} => r \in S,
              \A r \in Items : Reads(r)' = IF r \in S THEN Lost ELSE Reads(r)
       PROVE  Store!Next
  <2>1. Contents' = [r \in Items |-> IF r \in S THEN Lost ELSE Contents[r]]  BY <1>10
  <2>2. Running /\ Running' = FALSE  BY <1>2, <1>10
  <2>3. (\A r, s \in S : r = s) \/ Store!Stored \subseteq S
    BY <1>1, <1>3, <1>10 DEF Store!Stored
  <2>4. Store!Die  BY <1>1, <2>1, <2>2, <2>3 DEF Store!Die
  <2>5. QED  BY <2>4 DEF Store!Next
<1>11. QED  BY <1>6, <1>7, <1>8, <1>9, <1>10, StoreStep

\* For one process: behind `put` and `get` there is a plain store. Its records
\* read as what was last put, rotations are invisible, and only the death of the
\* process loses anything (EncryptedJSONStore, EncryptedBlobStore, EntityMapStore,
\* KeyRing and rotate_keys together).
THEOREM VaultIsARecordStore ==
    ASSUME NEW p, Procs = {p}
    PROVE  Spec => ImplementsRecordStore
<1>1. Init => IInv(p) /\ MapInv(p) /\ Store!Init  BY InitIInv, MapInvInit
<1>2. IInv(p) /\ MapInv(p) /\ [Next]_vars => IInv(p)' /\ MapInv(p)'
  BY NextIInv, StoreStep
<1>3. IInv(p) /\ MapInv(p) /\ [Next]_vars
      => [Store!Next]_<<Contents, Running>>
  BY StoreNext
<1>4. QED  BY <1>1, <1>2, <1>3, PTL DEF Spec, ImplementsRecordStore, Store!Spec

============================================================================
