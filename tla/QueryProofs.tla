---------------------------- MODULE QueryProofs ----------------------------
(***************************************************************************)
(* For any records, engines, titles, queries, captures and number of       *)
(* processes, whichever of them die: records keep what was captured, and a *)
(* query that finds nothing has overlooked nothing.                        *)
(***************************************************************************)
EXTENDS Query, TLAPS

\* The records that captures of id until the n-th, or reading one with too old a
\* keyring, can leave.
Own(id, n) ==
    [ts : {NoTime} \cup {At(id, k) : k \in 1..n},
     text : ({NoText} \cup IF id \in Filmed THEN {Extracted(id, k) : k \in 1..n} ELSE Titles)
              \cap Text]

\* The records of the n-th capture of id.
Captured(id, n) ==
    [ts : {At(id, n)},
     text : (IF id \in Filmed THEN {NoText, Extracted(id, n)} ELSE Titles) \cap Text]

Readable(id) == meta[id] \notin {Absent, Torn}

Proper(id, r) ==
    /\ r \in Own(id, shot[id])
    /\ id \notin mixed => r \in Captured(id, Latest(id))

StoresInv ==
    /\ DOMAIN meta = Ids /\ DOMAIN media = Ids /\ DOMAIN shot = Ids /\ DOMAIN sealed = Ids
    /\ \A id \in Ids : shot[id] \in Nat /\ shot[id] <= Shots(id)
    /\ \A id \in Keys : shot[id] >= 1
    /\ \A id \in Ids : Readable(id) => Proper(id, meta[id])

MediaInv ==
    /\ \A id \in Ids : media[id] \in {Absent, Torn} \cup 1..shot[id]
    /\ \A id \in Ids \ Filmed : media[id] = Absent
    /\ \A id \in Keys \cap Filmed : id \notin mixed /\ ~Capturing(id) => media[id] = shot[id]

KeysInv ==
    /\ rotation.key \in Nat
    /\ \A id \in Ids : sealed[id] \in Nat /\ sealed[id] <= rotation.key
    /\ \A p \in Queriers : ring[p] \in Nat /\ ring[p] <= rotation.key

CaptureInv ==
    /\ capture = [id |-> capture.id, stage |-> capture.stage]
    /\ capture.stage \in {"idle", "media", "stored", "meta"}
    /\ capture.stage # "idle" => capture.id \in Ids /\ shot[capture.id] >= 1
    /\ capture.stage = "media" => capture.id \in Filmed
    /\ capture.stage = "meta" => capture.id \in Keys
    /\ capture.stage \in {"stored", "meta"} /\ capture.id \in Filmed =>
         media[capture.id] = shot[capture.id]

RotationInv ==
    /\ rotation = [key |-> rotation.key, todo |-> rotation.todo, id |-> rotation.id,
                   held |-> rotation.held, open |-> rotation.open]
    /\ rotation.todo \subseteq Keys
    /\ rotation.open => rotation.id # Absent
    /\ rotation.id # Absent =>
         /\ rotation.id \in Keys /\ Proper(rotation.id, rotation.held)
         /\ Capturing(rotation.id) => rotation.id \in mixed

Domains ==
    /\ DOMAIN pc = Queriers /\ DOMAIN query = Queriers /\ DOMAIN window = Queriers
    /\ DOMAIN ring = Queriers /\ DOMAIN todo = Queriers /\ DOMAIN current = Queriers
    /\ DOMAIN held = Queriers /\ DOMAIN results = Queriers /\ DOMAIN known = Queriers
    /\ DOMAIN round = Queriers /\ DOMAIN processed = Queriers

\* The record being extracted.
HoldsRecord(p) ==
    /\ todo[p] \subseteq Keys /\ results[p] \subseteq Keys
    /\ pc[p] \in {"media", "put", "write"} =>
         /\ current[p] \in Keys /\ Proper(current[p], held[p])
         /\ Capturing(current[p]) => current[p] \in mixed
    /\ pc[p] \in {"put", "write"} =>
         /\ current[p] \in Filmed
         /\ current[p] \notin mixed => held[p].text = Extracted(current[p], Latest(current[p]))

\* It is in the window and shows the wording, or its media does.
Relevant(p, id) ==
    (window[p] = None \/ Inside(At(id, Latest(id)), window[p])) /\ Shows(id, query[p])

\* It has its text, or is being rewritten by one who has it.
HasText(id) == meta[id] = Torn \/ meta[id].text = Extracted(id, Latest(id))

\* What an answer vouches for is undisturbed, and
Vouched(p, id) ==
    /\ id \in Keys /\ id \notin mixed /\ ~Capturing(id) /\ rotation.id # id
    /\ meta[id] = Torn => id \in Filmed

\* found, or still ahead.
NothingMissed(p) ==
    /\ processed[p] \in Nat
    /\ pc[p] = "idle" => known[p] = {}
    /\ pc[p] = "claims" => results[p] # {}
    /\ known[p] # {} => ring[p] = rotation.key
    /\ \A id \in known[p] : Vouched(p, id)
    /\ processed[p] < Limit =>
         /\ pc[p] \in {"extract", "media", "put", "write"} =>
              \A id \in known[p] \cap Filmed : Relevant(p, id) =>
                id \in todo[p] \/ HasText(id) \/ (pc[p] # "extract" /\ id = current[p])
         /\ pc[p] = "search" /\ round[p] = 2 =>
              \A id \in known[p] : Relevant(p, id) =>
                (id \in todo[p] \/ id \in results[p]) /\ (id \in Filmed => HasText(id))
         /\ pc[p] = "answered" /\ results[p] = {} /\ AllowExtract =>
              \A id \in known[p] : ~Relevant(p, id)

UserInv(p) == HoldsRecord(p) /\ NothingMissed(p)

WorldInv == StoresInv /\ MediaInv /\ KeysInv /\ CaptureInv /\ RotationInv

QueryInv ==
    /\ WorldInv /\ Domains
    /\ \A p \in Queriers : UserInv(p)

----------------------------------------------------------------------------
(* Records.                                                                *)

LEMMA OwnIsRecord ==
    ASSUME NEW id \in Ids, NEW n \in Nat, n <= Shots(id)
    PROVE  /\ Own(id, n) \subseteq Record
           /\ Absent \notin Own(id, n) /\ Torn \notin Own(id, n) /\ Absent # Torn
           /\ [ts |-> NoTime, text |-> NoText] \in Own(id, n)
           /\ \A m \in Nat : m <= n => Own(id, m) \subseteq Own(id, n)
<1>1. \A k \in 1..n : At(id, k) \in Int
  BY QueryAssumption
<1>2. Own(id, n) \subseteq Record
  BY <1>1 DEF Own, Record
<1>3. NoText \in Text
  BY DEF Text
<1>4. [ts |-> NoTime, text |-> NoText] \in Own(id, n)
  BY <1>3 DEF Own
<1>5. ASSUME NEW m \in Nat, m <= n PROVE Own(id, m) \subseteq Own(id, n)
  <2>1. 1..m \subseteq 1..n
    BY <1>5
  <2> QED  BY <2>1 DEF Own
<1> QED  BY <1>2, <1>4, <1>5, TextAssumption

LEMMA FreshIsCaptured ==
    ASSUME NEW id \in Ids, shot[id] \in Nat, shot[id] >= 1, NEW r \in Fresh(id)
    PROVE  r \in Own(id, shot[id]) /\ r \in Captured(id, shot[id])
<1>1. NoText \in Text /\ Titles \subseteq Text
  BY TextAssumption DEF Text
<1>2. shot[id] \in 1..shot[id]
  OBVIOUS
<1>3. r \in Captured(id, shot[id])
  BY <1>1 DEF Fresh, Captured
<1>4. r \in Own(id, shot[id])
  BY <1>1, <1>2 DEF Fresh, Own
<1> QED  BY <1>3, <1>4

LEMMA WrittenIs ==
    ASSUME NEW file, NEW value, NEW v \in Written(file, value)
    PROVE  v = value \/ v = Torn
  BY DEF Written

\* What may become of a record an answer vouches for.
Mild(id) ==
    \/ meta'[id] = meta[id]
    \/ /\ id \in Filmed
       /\ meta'[id] = Torn \/ meta'[id].text = Extracted(id, Latest(id))

\* A step leaves it vouched for.
Calmly(id) ==
    /\ Mild(id) /\ Latest(id)' = Latest(id)
    /\ id \notin mixed' /\ ~Capturing(id)' /\ rotation'.id # id

\* A step leaves what its record says of it, or it is mixed;
Steady(id) == id \notin mixed' => id \notin mixed /\ Latest(id)' = Latest(id)

\* and no capture of it runs.
Undisturbed(id) == Steady(id) /\ (id \notin mixed' => ~Capturing(id)')

Extracting(p) == pc[p] \in {"media", "put", "write"}

Grows ==
    \A k \in Ids : /\ shot[k] \in Nat /\ shot'[k] \in Nat
                   /\ shot[k] <= shot'[k] /\ shot'[k] <= Shots(k)

LEMMA StillGrows ==
    ASSUME WorldInv, UNCHANGED shot
    PROVE  Grows
<1> SUFFICES ASSUME NEW k \in Ids PROVE /\ shot[k] \in Nat /\ shot[k] <= shot[k]
                                        /\ shot[k] <= Shots(k)
  BY DEF Grows
<1>1. PICK n : n = shot[k]
  OBVIOUS
<1>2. n \in Nat /\ n <= Shots(k)
  BY <1>1 DEF WorldInv, StoresInv
<1> QED  BY <1>1, <1>2

\* What was read of a record stays right.
LEMMA StillProper ==
    ASSUME NEW id \in Ids, NEW r, Proper(id, r), Grows, Steady(id)
    PROVE  r \in Own(id, shot'[id]) /\ (id \notin mixed' => r \in Captured(id, Latest(id)'))
<1>1. PICK n, m : n = shot[id] /\ m = shot'[id]
  OBVIOUS
<1>2. n \in Nat /\ m \in Nat /\ n <= m /\ m <= Shots(id)
  BY <1>1 DEF Grows
<1>3. r \in Own(id, m)
  BY <1>1, <1>2, OwnIsRecord DEF Proper
<1> QED  BY <1>1, <1>3 DEF Proper, Steady

LEMMA StoresKept ==
    ASSUME WorldInv, Grows, DOMAIN meta' = Ids, DOMAIN media' = Ids, DOMAIN shot' = Ids,
           DOMAIN sealed' = Ids, \A k \in Keys' : k \in Keys \/ shot'[k] >= 1,
           \A k \in Ids : \/ meta'[k] \in {Absent, Torn}
                          \/ meta'[k] = meta[k] /\ Steady(k)
                          \/ Proper(k, meta[k])'
    PROVE  StoresInv'
<1>1. ASSUME NEW k \in Ids, meta'[k] \notin {Absent, Torn} PROVE Proper(k, meta[k])'
  <2>1. CASE meta'[k] = meta[k] /\ Steady(k)
    <3>1. PICK r : r = meta[k]
      OBVIOUS
    <3>2. Proper(k, r)
      BY <1>1, <2>1, <3>1 DEF WorldInv, StoresInv, Readable
    <3>3. r \in Own(k, shot'[k]) /\ (k \notin mixed' => r \in Captured(k, Latest(k)'))
      BY <2>1, <3>2, StillProper
    <3> QED  BY <2>1, <3>1, <3>3 DEF Proper
  <2> QED  BY <1>1, <2>1
<1>2. \A k \in Ids : shot'[k] \in Nat /\ shot'[k] <= Shots(k)
  BY DEF Grows
<1>3. ASSUME NEW k \in Keys' PROVE shot'[k] >= 1
  <2>1. PICK a, b : a = shot[k] /\ b = shot'[k]
    OBVIOUS
  <2>2. k \in Ids
    BY DEF Keys
  <2>3. a \in Nat /\ b \in Nat /\ a <= b /\ (a >= 1 \/ b >= 1)
    BY <2>1, <2>2 DEF WorldInv, StoresInv, Grows
  <2> QED  BY <2>1, <2>3
<1> QED  BY <1>1, <1>2, <1>3 DEF StoresInv, Readable

LEMMA RotationKept ==
    ASSUME WorldInv, Grows, Keys \subseteq Keys', UNCHANGED rotation,
           \A k \in Ids : k = rotation.id => Undisturbed(k)
    PROVE  RotationInv'
<1>1. ASSUME rotation.id # Absent
      PROVE  Proper(rotation.id, rotation.held)' /\ (Capturing(rotation.id)' => rotation.id \in mixed')
  <2>1. PICK k, r : k = rotation.id /\ r = rotation.held
    OBVIOUS
  <2>2. k \in Ids /\ Proper(k, r) /\ Undisturbed(k)
    BY <1>1, <2>1 DEF WorldInv, RotationInv, Keys
  <2>3. r \in Own(k, shot'[k]) /\ (k \notin mixed' => r \in Captured(k, Latest(k)'))
    BY <2>2, StillProper DEF Undisturbed
  <2>4. Capturing(k)' => k \in mixed'
    BY <2>2 DEF Undisturbed
  <2> QED  BY <2>1, <2>3, <2>4 DEF Proper, Capturing, Latest
<1> QED  BY <1>1 DEF WorldInv, RotationInv

\* A user whom a step does not move.
LEMMA UserStays ==
    ASSUME QueryInv, Grows, NEW q \in Queriers,
           pc'[q] = pc[q] \/ (pc[q] = "put" /\ pc'[q] = "write"), query'[q] = query[q], window'[q] = window[q], ring'[q] = ring[q],
           todo'[q] = todo[q], current'[q] = current[q], held'[q] = held[q],
           results'[q] = results[q], round'[q] = round[q], processed'[q] = processed[q],
           known'[q] \subseteq known[q], Keys \subseteq Keys',
           \A k \in Ids : Extracting(q) /\ k = current[q] => Undisturbed(k),
           known'[q] # {} => rotation'.key = rotation.key,
           \A id \in known'[q] : Calmly(id)
    PROVE  UserInv(q)'
<1>1. UserInv(q) /\ WorldInv
  BY DEF QueryInv
<1>2. HoldsRecord(q)'
  <2>1. PICK k : k = current[q]
    OBVIOUS
  <2>2. ASSUME Extracting(q)
        PROVE  /\ k \in Keys' /\ held[q] \in Own(k, shot'[k])
               /\ k \notin mixed' => held[q] \in Captured(k, Latest(k)')
               /\ Capturing(k)' => k \in mixed'
    <3>1. k \in Keys /\ k \in Ids
      BY <1>1, <2>1, <2>2 DEF UserInv, HoldsRecord, Keys, Extracting
    <3>2. PICK r : r = held[q]
      OBVIOUS
    <3>3. Proper(k, r) /\ Undisturbed(k)
      BY <1>1, <2>1, <2>2, <3>1, <3>2 DEF UserInv, HoldsRecord, Extracting
    <3>4. r \in Own(k, shot'[k]) /\ (k \notin mixed' => r \in Captured(k, Latest(k)'))
      BY <3>1, <3>3, StillProper DEF Undisturbed
    <3> QED  BY <3>1, <3>2, <3>3, <3>4 DEF Undisturbed
  <2>3. ASSUME pc[q] \in {"put", "write"}
        PROVE  k \in Filmed /\ (k \notin mixed' => held[q].text = Extracted(k, Latest(k)'))
    <3>1. k \in Filmed /\ k \in Ids /\ (k \notin mixed => held[q].text = Extracted(k, Latest(k)))
      BY <1>1, <2>1, <2>3, QueryAssumption DEF UserInv, HoldsRecord
    <3>2. Steady(k)
      BY <2>1, <2>3, <3>1 DEF Undisturbed, Extracting
    <3> QED  BY <3>1, <3>2 DEF Steady
  <2>4. todo'[q] \subseteq Keys' /\ results'[q] \subseteq Keys'
    BY <1>1 DEF UserInv, HoldsRecord
  <2> QED  BY <2>1, <2>2, <2>3, <2>4 DEF HoldsRecord, Proper, Latest, Capturing, Extracting
<1>3. NothingMissed(q)
  BY <1>1 DEF UserInv
<1>4. ASSUME NEW id \in known'[q]
      PROVE  /\ Relevant(q, id)' = Relevant(q, id)
             /\ id \in Filmed /\ HasText(id) => HasText(id)'
             /\ Vouched(q, id)'
  <2>1. Calmly(id) /\ Vouched(q, id)
    BY <1>3 DEF NothingMissed
  <2>2. id \notin Filmed => meta'[id] = meta[id]
    BY <2>1 DEF Calmly, Mild
  <2>3. Latest(id)' = Latest(id)
    BY <2>1 DEF Calmly
  <2>4. Content(id)' = Content(id)
    BY <2>2, <2>3 DEF Content
  <2>5. Relevant(q, id)' = Relevant(q, id)
    BY <2>3, <2>4 DEF Relevant, Shows
  <2>6. id \in Filmed /\ HasText(id) => HasText(id)'
    BY <2>1, <2>3 DEF Calmly, Mild, HasText
  <2>7. Vouched(q, id)'
    BY <2>1, <2>2 DEF Calmly, Vouched
  <2> QED  BY <2>5, <2>6, <2>7
<1>5. known'[q] # {} => ring'[q] = rotation'.key
  BY <1>3 DEF NothingMissed
<1>6. ASSUME processed[q] < Limit
      PROVE  /\ pc[q] \in {"extract", "media", "put", "write"} =>
                  \A id \in known'[q] \cap Filmed : Relevant(q, id)' =>
                    id \in todo[q] \/ HasText(id)' \/ (pc[q] # "extract" /\ id = current[q])
             /\ pc[q] = "search" /\ round[q] = 2 =>
                  \A id \in known'[q] : Relevant(q, id)' =>
                    (id \in todo[q] \/ id \in results[q]) /\ (id \in Filmed => HasText(id)')
             /\ pc[q] = "answered" /\ results[q] = {} /\ AllowExtract =>
                  \A id \in known'[q] : ~Relevant(q, id)'
  BY <1>3, <1>4, <1>6 DEF NothingMissed
<1>7. NothingMissed(q)'
  BY <1>3, <1>4, <1>5, <1>6 DEF NothingMissed
<1> QED  BY <1>2, <1>7 DEF UserInv

----------------------------------------------------------------------------
(* The steps around the queries.                                           *)

\* A step that moves no user.
LEMMA WorldStep ==
    ASSUME QueryInv, WorldInv', Grows, UNCHANGED <<pc, local>>, DOMAIN known' = Queriers,
           Keys \subseteq Keys',
           \A q \in Queriers : /\ \A k \in Ids : Extracting(q) /\ k = current[q] => Undisturbed(k)
                               /\ known'[q] \subseteq known[q]
                               /\ known'[q] # {} => rotation'.key = rotation.key
                               /\ \A id \in known'[q] : Calmly(id)
    PROVE  QueryInv'
<1>1. Domains'
  BY DEF QueryInv, Domains, local
<1>2. ASSUME NEW q \in Queriers PROVE UserInv(q)'
  <2>1. /\ \A k \in Ids : Extracting(q) /\ k = current[q] => Undisturbed(k)
        /\ known'[q] \subseteq known[q]
        /\ known'[q] # {} => rotation'.key = rotation.key
        /\ \A id \in known'[q] : Calmly(id)
    OBVIOUS
  <2> QED  BY <2>1, UserStays DEF local
<1> QED  BY <1>1, <1>2 DEF QueryInv

LEMMA KnownVouched ==
    ASSUME QueryInv, NEW q \in Queriers, NEW id \in known[q]
    PROVE  Vouched(q, id) /\ id \in Ids
  BY DEF QueryInv, UserInv, NothingMissed, Vouched, Keys


\* A step that captures nothing leaves what was read as it was.
LEMMA QuietStep ==
    ASSUME QueryInv, UNCHANGED shot, mixed \subseteq mixed',
           \A k \in Ids : Latest(k)' = Latest(k) /\ (Capturing(k)' => Capturing(k))
    PROVE  /\ Grows
           /\ \A k \in Ids : Steady(k)
           /\ \A q \in Queriers : \A k \in Ids : Extracting(q) /\ k = current[q] => Undisturbed(k)
           /\ \A k \in Ids : k = rotation.id => Undisturbed(k)
<1>1. Grows
  BY StillGrows DEF QueryInv
<1>2. \A k \in Ids : Steady(k)
  BY DEF Steady
<1>3. ASSUME NEW q \in Queriers, Extracting(q), NEW k \in Ids, k = current[q]
      PROVE  Undisturbed(k)
  <2>1. Capturing(k) => k \in mixed
    BY <1>3 DEF QueryInv, UserInv, HoldsRecord, Extracting
  <2> QED  BY <1>2, <2>1 DEF Undisturbed
<1>4. \A k \in Ids : k = rotation.id => Undisturbed(k)
  BY <1>2, QueryAssumption DEF QueryInv, WorldInv, RotationInv, Undisturbed
<1> QED  BY <1>1, <1>2, <1>3, <1>4

LEMMA CaptureMediaInv ==
    ASSUME QueryInv, CaptureMedia
    PROVE  QueryInv'
<1>1. PICK id \in Ids :
        /\ shot[id] < Shots(id) /\ shot' = [shot EXCEPT ![id] = @ + 1]
        /\ capture' = [id |-> id, stage |-> IF id \in Filmed THEN "media" ELSE "stored"]
        /\ media' = [media EXCEPT ![id] = IF id \in Filmed THEN Torn ELSE Absent]
        /\ mixed' = IF Rewriting(id) THEN mixed \cup {id} ELSE mixed
        /\ known' = Unvouched(id)
  BY DEF CaptureMedia
<1>2. capture.stage = "idle" /\ UNCHANGED <<meta, sealed, rotation, pc, local>>
  BY DEF CaptureMedia
<1>3. WorldInv /\ Keys' = Keys
  BY <1>2 DEF QueryInv, Keys
<1>4. PICK n \in Nat : n = shot[id] /\ n + 1 <= Shots(id)
  <2>1. PICK n : n = shot[id]
    OBVIOUS
  <2>2. n \in Nat /\ Shots(id) \in Nat /\ n < Shots(id)
    BY <1>1, <1>3, <2>1, QueryAssumption DEF WorldInv, StoresInv
  <2> QED  BY <2>1, <2>2
<1>5. /\ shot'[id] = n + 1 /\ \A k \in Ids \ {id} : shot'[k] = shot[k]
      /\ DOMAIN shot' = Ids /\ DOMAIN media' = Ids
      /\ media'[id] = (IF id \in Filmed THEN Torn ELSE Absent)
      /\ \A k \in Ids \ {id} : media'[k] = media[k]
  BY <1>1, <1>3, <1>4 DEF WorldInv, StoresInv
<1>6. /\ capture'.id = id /\ capture'.stage = IF id \in Filmed THEN "media" ELSE "stored"
      /\ capture'.stage # "idle"
  BY <1>1
<1>7. /\ \A k \in Ids : ~Capturing(k)
      /\ \A k \in Ids \ {id} : ~Capturing(k)'
  BY <1>2, <1>6 DEF Capturing
<1>8. \A k \in Ids : Latest(k)' = Latest(k)
  <2>1. Latest(id) = n /\ Latest(id)' = n
    BY <1>4, <1>5, <1>6, <1>7 DEF Latest, Capturing
  <2> QED  BY <1>5, <1>7, <2>1 DEF Latest
<1>9. Grows
  <2>1. ASSUME NEW k \in Ids \ {id}
        PROVE  /\ shot[k] \in Nat /\ shot'[k] \in Nat
               /\ shot[k] <= shot'[k] /\ shot'[k] <= Shots(k)
    BY <1>3, <1>5 DEF WorldInv, StoresInv
  <2> QED  BY <1>4, <1>5, <2>1 DEF Grows
<1>10. StoresInv'
  <2>1. \A k \in Ids : Steady(k)
    BY <1>1, <1>8 DEF Steady
  <2> QED  BY <1>2, <1>3, <1>5, <1>9, <2>1, StoresKept DEF WorldInv, StoresInv
<1>11. MediaInv'
  <2>1. \A k \in Ids : media'[k] \in {Absent, Torn} \cup 1..shot'[k]
    BY <1>3, <1>5 DEF WorldInv, MediaInv
  <2>2. \A k \in Ids \ Filmed : media'[k] = Absent
    BY <1>3, <1>5 DEF WorldInv, MediaInv
  <2>3. \A k \in Keys' \cap Filmed : k \notin mixed' /\ ~Capturing(k)' => media'[k] = shot'[k]
    <3> SUFFICES ASSUME NEW k \in Keys \cap Filmed, k \notin mixed', ~Capturing(k)'
                 PROVE  media'[k] = shot'[k]
      BY <1>3
    <3>1. k \in Ids /\ k # id /\ k \notin mixed
      BY <1>1, <1>6 DEF Capturing, Keys
    <3> QED  BY <1>3, <1>5, <1>7, <3>1 DEF WorldInv, MediaInv
  <2> QED  BY <2>1, <2>2, <2>3 DEF MediaInv
<1>12. KeysInv' /\ CaptureInv'
  <2>1. KeysInv'
    BY <1>2, <1>3 DEF WorldInv, KeysInv, local
  <2>2. shot'[id] >= 1
    BY <1>4, <1>5
  <2>3. capture' = [id |-> capture'.id, stage |-> capture'.stage]
    BY <1>1, <1>6
  <2>4. CaptureInv'
    BY <1>5, <1>6, <2>2, <2>3 DEF CaptureInv
  <2> QED  BY <2>1, <2>4
<1>13. \A k \in Ids : Rewriting(k) => Undisturbed(k)
  BY <1>1, <1>6, <1>7, <1>8 DEF Undisturbed, Steady, Capturing
<1>14. RotationInv'
  BY <1>2, <1>3, <1>9, <1>13, RotationKept DEF Rewriting
<1>15. WorldInv'
  BY <1>10, <1>11, <1>12, <1>14 DEF WorldInv
<1>16. ASSUME NEW q \in Queriers
       PROVE  /\ \A k \in Ids : Extracting(q) /\ k = current[q] => Undisturbed(k)
              /\ known'[q] \subseteq known[q]
              /\ known'[q] # {} => rotation'.key = rotation.key
              /\ \A k \in known'[q] : Calmly(k)
  <2>1. known'[q] = known[q] \ {id}
    BY <1>1 DEF Unvouched
  <2>2. \A k \in known[q] : Vouched(q, k) /\ k \in Ids
    BY KnownVouched
  <2>3. \A k \in known'[q] : Calmly(k)
    BY <1>1, <1>2, <1>7, <1>8, <2>1, <2>2 DEF Calmly, Mild, Vouched
  <2>4. known'[q] # {} => rotation'.key = rotation.key
    BY <1>2
  <2> QED  BY <1>13, <2>1, <2>3, <2>4 DEF Rewriting
<1>17. DOMAIN known' = Queriers
  BY <1>1 DEF Unvouched
<1> QED  BY <1>2, <1>3, <1>9, <1>15, <1>16, <1>17, WorldStep

LEMMA MediaStoredInv ==
    ASSUME QueryInv, MediaStored
    PROVE  QueryInv'
<1>1. /\ capture.stage = "media" /\ media' = [media EXCEPT ![capture.id] = shot[capture.id]]
      /\ capture' = [capture EXCEPT !.stage = "stored"]
      /\ UNCHANGED <<shot, meta, sealed, rotation, pc, local, known, mixed>>
  BY DEF MediaStored
<1>2. WorldInv /\ Keys' = Keys
  BY <1>1 DEF QueryInv, Keys
<1>3. PICK id \in Ids : id = capture.id /\ id \in Filmed /\ shot[id] >= 1
  BY <1>1, <1>2 DEF WorldInv, CaptureInv
<1>4. capture'.id = id /\ capture'.stage = "stored"
      /\ capture' = [id |-> capture'.id, stage |-> capture'.stage]
  BY <1>1, <1>2, <1>3 DEF WorldInv, CaptureInv
<1>5. \A k \in Ids : Capturing(k)' = Capturing(k) /\ Latest(k)' = Latest(k)
  BY <1>1, <1>3, <1>4 DEF Capturing, Latest
<1>6. /\ Grows
      /\ \A k \in Ids : Steady(k)
      /\ \A q \in Queriers : \A k \in Ids : Extracting(q) /\ k = current[q] => Undisturbed(k)
      /\ \A k \in Ids : k = rotation.id => Undisturbed(k)
  BY <1>1, <1>5, QuietStep
<1>7. DOMAIN media' = Ids /\ media'[id] = shot[id] /\ \A k \in Ids \ {id} : media'[k] = media[k]
  BY <1>1, <1>2, <1>3 DEF WorldInv, StoresInv
<1>8. StoresInv'
  BY <1>1, <1>2, <1>6, <1>7, StoresKept DEF WorldInv, StoresInv
<1>9. MediaInv'
  <2>1. shot[id] \in 1..shot[id]
    <3>1. PICK n : n = shot[id]
      OBVIOUS
    <3>2. n \in Nat /\ n >= 1
      BY <1>2, <1>3, <3>1 DEF WorldInv, StoresInv
    <3> QED  BY <3>1, <3>2
  <2>2. \A k \in Ids : media'[k] \in {Absent, Torn} \cup 1..shot'[k]
    BY <1>1, <1>2, <1>7, <2>1 DEF WorldInv, MediaInv
  <2>3. \A k \in Ids \ Filmed : media'[k] = Absent
    BY <1>2, <1>3, <1>7 DEF WorldInv, MediaInv
  <2>4. \A k \in Keys' \cap Filmed : k \notin mixed' /\ ~Capturing(k)' => media'[k] = shot'[k]
    BY <1>1, <1>2, <1>5, <1>7 DEF WorldInv, MediaInv, Keys
  <2> QED  BY <2>2, <2>3, <2>4 DEF MediaInv
<1>10. KeysInv'
  BY <1>1, <1>2 DEF WorldInv, KeysInv, local
<1>11. CaptureInv'
  BY <1>1, <1>3, <1>4, <1>7 DEF CaptureInv
<1>12. RotationInv'
  BY <1>1, <1>2, <1>6, RotationKept
<1>13. WorldInv'
  BY <1>8, <1>9, <1>10, <1>11, <1>12 DEF WorldInv
<1>14. ASSUME NEW q \in Queriers
       PROVE  /\ known'[q] \subseteq known[q] /\ (known'[q] # {} => rotation'.key = rotation.key)
              /\ \A k \in known'[q] : Calmly(k)
  BY <1>1, <1>5, KnownVouched DEF Calmly, Mild, Vouched
<1> QED  BY <1>1, <1>2, <1>6, <1>13, <1>14, WorldStep DEF QueryInv, Domains

LEMMA CaptureRecordInv ==
    ASSUME QueryInv, CaptureRecord
    PROVE  QueryInv'
<1>1. /\ capture.stage = "stored" /\ meta' = [meta EXCEPT ![capture.id] = Torn]
      /\ capture' = [capture EXCEPT !.stage = "meta"]
      /\ UNCHANGED <<shot, media, sealed, rotation, pc, local, known, mixed>>
  BY DEF CaptureRecord
<1>2. WorldInv
  BY DEF QueryInv
<1>3. PICK id \in Ids : id = capture.id /\ shot[id] >= 1
                        /\ (id \in Filmed => media[id] = shot[id])
  BY <1>1, <1>2 DEF WorldInv, CaptureInv
<1>4. capture'.id = id /\ capture'.stage = "meta"
      /\ capture' = [id |-> capture'.id, stage |-> capture'.stage]
  BY <1>1, <1>2, <1>3 DEF WorldInv, CaptureInv
<1>5. \A k \in Ids : Capturing(k)' = Capturing(k) /\ Latest(k)' = Latest(k)
  BY <1>1, <1>3, <1>4 DEF Capturing, Latest
<1>6. /\ Grows
      /\ \A k \in Ids : Steady(k)
      /\ \A q \in Queriers : \A k \in Ids : Extracting(q) /\ k = current[q] => Undisturbed(k)
      /\ \A k \in Ids : k = rotation.id => Undisturbed(k)
  BY <1>1, <1>5, QuietStep
<1>7. DOMAIN meta' = Ids /\ meta'[id] = Torn /\ \A k \in Ids \ {id} : meta'[k] = meta[k]
  BY <1>1, <1>2, <1>3 DEF WorldInv, StoresInv
<1>8. Keys' = Keys \cup {id}
  BY <1>7, TextAssumption DEF Keys
<1>9. StoresInv'
  BY <1>1, <1>2, <1>3, <1>6, <1>7, <1>8, StoresKept DEF WorldInv, StoresInv
<1>10. MediaInv'
  <2>1. \A k \in Keys' \cap Filmed : k \notin mixed' /\ ~Capturing(k)' => media'[k] = shot'[k]
    <3>1. Capturing(id)'
      BY <1>4 DEF Capturing
    <3> QED  BY <1>1, <1>2, <1>5, <1>8, <3>1, QueryAssumption DEF WorldInv, MediaInv
  <2> QED  BY <1>1, <1>2, <2>1 DEF WorldInv, MediaInv
<1>11. KeysInv'
  BY <1>1, <1>2 DEF WorldInv, KeysInv, local
<1>12. CaptureInv'
  BY <1>1, <1>3, <1>4, <1>8 DEF CaptureInv
<1>13. RotationInv'
  BY <1>1, <1>2, <1>6, <1>8, RotationKept
<1>14. WorldInv'
  BY <1>9, <1>10, <1>11, <1>12, <1>13 DEF WorldInv
<1>15. ASSUME NEW q \in Queriers
       PROVE  /\ known'[q] \subseteq known[q] /\ (known'[q] # {} => rotation'.key = rotation.key)
              /\ \A k \in known'[q] : Calmly(k)
  <2>1. \A k \in known[q] : k # id
    BY <1>1, <1>3, KnownVouched DEF Vouched, Capturing
  <2> QED  BY <1>1, <1>5, <1>7, <2>1, KnownVouched DEF Calmly, Mild, Vouched
<1> QED  BY <1>1, <1>6, <1>8, <1>14, <1>15, WorldStep DEF QueryInv, Domains

LEMMA RecordStoredInv ==
    ASSUME QueryInv, RecordStored
    PROVE  QueryInv'
<1>1. /\ capture.stage = "meta" /\ capture' = [id |-> Absent, stage |-> "idle"]
      /\ mixed' = IF Rewriting(capture.id) THEN mixed \cup {capture.id} ELSE mixed \ {capture.id}
      /\ UNCHANGED <<shot, media, rotation, pc, local, known>>
  BY DEF RecordStored
<1>2. WorldInv
  BY DEF QueryInv
<1>3. PICK id \in Ids : id = capture.id /\ shot[id] >= 1 /\ id \in Keys
                        /\ (id \in Filmed => media[id] = shot[id])
  BY <1>1, <1>2 DEF WorldInv, CaptureInv
<1>4. PICK r \in Fresh(id) : \E v \in Written(meta[id], r) : meta' = [meta EXCEPT ![id] = v]
  BY <1>3 DEF RecordStored
<1>5. PICK v \in Written(meta[id], r) : meta' = [meta EXCEPT ![id] = v]
  BY <1>4
<1>6. PICK key \in 0..rotation.key : sealed' = [sealed EXCEPT ![id] = key]
  BY <1>3 DEF RecordStored
<1>7. (v = r \/ v = Torn) /\ DOMAIN meta' = Ids /\ meta'[id] = v
      /\ \A k \in Ids \ {id} : meta'[k] = meta[k]
  BY <1>2, <1>5, WrittenIs DEF WorldInv, StoresInv
<1>8. PICK n \in Nat : n = shot[id] /\ n <= Shots(id)
  BY <1>2 DEF WorldInv, StoresInv
<1>9. r \in Own(id, n) /\ r \in Captured(id, n)
  BY <1>3, <1>8, FreshIsCaptured
<1>10. /\ \A k \in Ids : ~Capturing(k)' /\ Latest(k)' = shot[k]
       /\ \A k \in Ids \ {id} : ~Capturing(k) /\ Latest(k) = shot[k]
  BY <1>1, <1>3 DEF Capturing, Latest
<1>11. \A k \in Ids \ {id} : (k \in mixed' <=> k \in mixed) /\ Steady(k)
  BY <1>1, <1>3, <1>10 DEF Steady
<1>12. Grows
  BY <1>1, <1>2, StillGrows
<1>13. \A k \in Ids : Rewriting(k) => Undisturbed(k)
  BY <1>1, <1>3, <1>10, <1>11 DEF Undisturbed, Steady
<1>14. v # Absent /\ Keys' = Keys
  <2>1. v # Absent
    BY <1>7, <1>8, <1>9, OwnIsRecord
  <2> QED  BY <1>3, <1>7, <2>1 DEF Keys
<1>15. StoresInv'
  <2>1. v = Torn \/ Proper(id, meta[id])'
    <3>1. shot'[id] = n /\ Latest(id)' = n
      BY <1>1, <1>8, <1>10
    <3>2. ASSUME v = r PROVE meta'[id] \in Own(id, shot'[id]) /\ meta'[id] \in Captured(id, Latest(id)')
      BY <1>7, <1>9, <3>1, <3>2
    <3> QED  BY <1>7, <3>2 DEF Proper
  <2>2. DOMAIN sealed' = Ids
    BY <1>2, <1>6 DEF WorldInv, StoresInv
  <2> QED  BY <1>1, <1>2, <1>7, <1>11, <1>12, <1>14, <2>1, <2>2, StoresKept DEF WorldInv, StoresInv
<1>16. MediaInv'
  <2>1. \A k \in Keys' \cap Filmed : k \notin mixed' /\ ~Capturing(k)' => media'[k] = shot'[k]
    BY <1>1, <1>2, <1>3, <1>10, <1>11, <1>14 DEF WorldInv, MediaInv, Keys
  <2> QED  BY <1>1, <1>2, <2>1 DEF WorldInv, MediaInv
<1>17. KeysInv'
  <2>1. \A k \in Ids : sealed'[k] \in Nat /\ sealed'[k] <= rotation.key
    BY <1>2, <1>6 DEF WorldInv, KeysInv, StoresInv
  <2> QED  BY <1>1, <1>2, <2>1 DEF WorldInv, KeysInv, local
<1>18. CaptureInv'
  BY <1>1 DEF CaptureInv
<1>19. RotationInv'
  BY <1>1, <1>2, <1>12, <1>13, <1>14, RotationKept DEF Rewriting
<1>20. WorldInv'
  BY <1>15, <1>16, <1>17, <1>18, <1>19 DEF WorldInv
<1>21. ASSUME NEW q \in Queriers
       PROVE  /\ \A k \in Ids : Extracting(q) /\ k = current[q] => Undisturbed(k)
              /\ known'[q] \subseteq known[q] /\ (known'[q] # {} => rotation'.key = rotation.key)
              /\ \A k \in known'[q] : Calmly(k)
  <2>1. \A k \in known[q] : k # id /\ k \in Ids /\ Vouched(q, k)
    BY <1>1, <1>3, KnownVouched DEF Vouched, Capturing
  <2>2. \A k \in known[q] : Calmly(k)
    BY <1>1, <1>7, <1>10, <1>11, <2>1 DEF Calmly, Mild, Vouched
  <2> QED  BY <1>1, <1>13, <2>2 DEF Rewriting
<1> QED  BY <1>1, <1>12, <1>14, <1>20, <1>21, WorldStep DEF QueryInv, Domains

LEMMA SamplerKilledInv ==
    ASSUME QueryInv, SamplerKilled
    PROVE  QueryInv'
<1>1. /\ capture.stage # "idle" /\ mixed' = mixed \cup {capture.id}
      /\ capture' = [id |-> Absent, stage |-> "idle"]
      /\ UNCHANGED <<shot, media, meta, sealed, rotation, pc, local, known>>
  BY DEF SamplerKilled
<1>2. WorldInv /\ Keys' = Keys
  BY <1>1 DEF QueryInv, Keys
<1>3. PICK id \in Ids : id = capture.id
  BY <1>1, <1>2 DEF WorldInv, CaptureInv
<1>4. /\ \A k \in Ids : ~Capturing(k)' /\ Latest(k)' = shot[k]
      /\ \A k \in Ids \ {id} : ~Capturing(k) /\ Latest(k) = shot[k]
  BY <1>1, <1>3 DEF Capturing, Latest
<1>5. \A k \in Ids : Undisturbed(k)
  BY <1>1, <1>3, <1>4 DEF Undisturbed, Steady
<1>6. Grows
  BY <1>1, <1>2, StillGrows
<1>7. StoresInv'
  BY <1>1, <1>2, <1>5, <1>6, StoresKept DEF WorldInv, StoresInv, Undisturbed
<1>8. MediaInv'
  <2>1. \A k \in Keys' \cap Filmed : k \notin mixed' /\ ~Capturing(k)' => media'[k] = shot'[k]
    BY <1>1, <1>2, <1>3, <1>4 DEF WorldInv, MediaInv, Keys
  <2> QED  BY <1>1, <1>2, <2>1 DEF WorldInv, MediaInv
<1>9. KeysInv' /\ CaptureInv'
  BY <1>1, <1>2 DEF WorldInv, KeysInv, local, CaptureInv
<1>10. RotationInv'
  BY <1>1, <1>2, <1>5, <1>6, RotationKept
<1>11. WorldInv'
  BY <1>7, <1>8, <1>9, <1>10 DEF WorldInv
<1>12. ASSUME NEW q \in Queriers
       PROVE  /\ known'[q] \subseteq known[q] /\ (known'[q] # {} => rotation'.key = rotation.key)
              /\ \A k \in known'[q] : Calmly(k)
  <2>1. \A k \in known[q] : k # id /\ k \in Ids /\ Vouched(q, k)
    BY <1>1, <1>3, KnownVouched DEF Vouched, Capturing
  <2> QED  BY <1>1, <1>3, <1>4, <2>1 DEF Calmly, Mild, Vouched
<1> QED  BY <1>1, <1>2, <1>5, <1>6, <1>11, <1>12, WorldStep DEF QueryInv, Domains

LEMMA RotateKeysInv ==
    ASSUME QueryInv, RotateKeys
    PROVE  QueryInv'
<1>1. /\ Resting /\ rotation' = [rotation EXCEPT !.key = @ + 1, !.todo = Keys \cap Rewrapped]
      /\ known' = [p \in Queriers |-> {}]
      /\ UNCHANGED <<shot, media, meta, sealed, capture, pc, local, mixed>>
  BY DEF RotateKeys, stores
<1>2. WorldInv /\ Keys' = Keys
  BY <1>1 DEF QueryInv, Keys
<1>3. /\ rotation'.key = rotation.key + 1 /\ rotation'.todo = Keys \cap Rewrapped
      /\ rotation'.id = Absent /\ rotation'.open = rotation.open
      /\ rotation' = [key |-> rotation'.key, todo |-> rotation'.todo, id |-> rotation'.id,
                      held |-> rotation'.held, open |-> rotation'.open]
  BY <1>1, <1>2 DEF WorldInv, RotationInv, Resting
<1>4. \A k \in Ids : Latest(k)' = Latest(k) /\ Capturing(k)' = Capturing(k)
  BY <1>1 DEF Latest, Capturing
<1>5. /\ Grows
      /\ \A k \in Ids : Steady(k)
      /\ \A q \in Queriers : \A k \in Ids : Extracting(q) /\ k = current[q] => Undisturbed(k)
  BY <1>1, <1>4, QuietStep
<1>6. StoresInv' /\ MediaInv' /\ CaptureInv'
  BY <1>1, <1>2, <1>4 DEF WorldInv, StoresInv, MediaInv, CaptureInv, Readable, Proper, Latest, Capturing, Keys
<1>7. RotationInv'
  BY <1>1, <1>2, <1>3 DEF WorldInv, RotationInv, Resting
<1>8. KeysInv'
  <2>1. PICK a : a = rotation.key
    OBVIOUS
  <2>2. a \in Nat /\ a + 1 \in Nat
    BY <1>2, <2>1 DEF WorldInv, KeysInv
  <2>3. ASSUME NEW k \in Ids PROVE sealed[k] \in Nat /\ sealed[k] <= a + 1
    <3>1. PICK b : b = sealed[k]
      OBVIOUS
    <3>2. b \in Nat /\ b <= a
      BY <1>2, <2>1, <3>1 DEF WorldInv, KeysInv
    <3> QED  BY <2>2, <3>1, <3>2
  <2>4. ASSUME NEW q \in Queriers PROVE ring[q] \in Nat /\ ring[q] <= a + 1
    <3>1. PICK b : b = ring[q]
      OBVIOUS
    <3>2. b \in Nat /\ b <= a
      BY <1>2, <2>1, <3>1 DEF WorldInv, KeysInv
    <3> QED  BY <2>2, <3>1, <3>2
  <2> QED  BY <1>1, <1>3, <2>1, <2>2, <2>3, <2>4 DEF KeysInv, local
<1>9. WorldInv'
  BY <1>6, <1>7, <1>8 DEF WorldInv
<1>10. DOMAIN known' = Queriers /\ \A q \in Queriers : known'[q] = {}
  BY <1>1
<1> QED  BY <1>1, <1>2, <1>5, <1>9, <1>10, WorldStep

LEMMA RotateGetInv ==
    ASSUME QueryInv, RotateGet
    PROVE  QueryInv'
<1>1. PICK id \in rotation.todo :
        /\ meta[id] # Torn
        /\ rotation' = [rotation EXCEPT !.id = id, !.held = meta[id], !.todo = @ \ {id}]
        /\ mixed' = IF Capturing(id) THEN mixed \cup {id} ELSE mixed
        /\ known' = Unvouched(id)
  BY DEF RotateGet
<1>2. UNCHANGED <<shot, media, meta, sealed, capture, pc, local>>
  BY DEF RotateGet, stores
<1>3. WorldInv /\ Keys' = Keys
  BY <1>2 DEF QueryInv, Keys
<1>4. id \in Keys /\ id \in Ids
  BY <1>1, <1>3 DEF WorldInv, RotationInv, Keys
<1>5. /\ rotation'.key = rotation.key /\ rotation'.todo \subseteq rotation.todo
      /\ rotation'.id = id /\ rotation'.held = meta[id]
      /\ rotation' = [key |-> rotation'.key, todo |-> rotation'.todo, id |-> rotation'.id,
                      held |-> rotation'.held, open |-> rotation'.open]
  BY <1>1, <1>3 DEF WorldInv, RotationInv
<1>6. \A k \in Ids : Latest(k)' = Latest(k) /\ Capturing(k)' = Capturing(k)
  BY <1>2 DEF Latest, Capturing
<1>7. /\ Grows
      /\ \A k \in Ids : Steady(k)
      /\ \A q \in Queriers : \A k \in Ids : Extracting(q) /\ k = current[q] => Undisturbed(k)
  BY <1>1, <1>2, <1>6, QuietStep
<1>8. StoresInv'
  BY <1>2, <1>3, <1>7, StoresKept DEF WorldInv, StoresInv
<1>9. MediaInv'
  BY <1>1, <1>2, <1>3, <1>6, QueryAssumption DEF WorldInv, MediaInv
<1>10. CaptureInv' /\ KeysInv'
  BY <1>2, <1>3, <1>5 DEF WorldInv, CaptureInv, KeysInv, local
<1>11. Proper(id, meta[id])'
  BY <1>1, <1>2, <1>4, <1>8 DEF StoresInv, Readable, Keys
<1>12. Capturing(id)' => id \in mixed'
  BY <1>1, <1>4, <1>6
<1>13. id # Absent
  BY <1>4, QueryAssumption
<1>14. RotationInv'
  BY <1>2, <1>3, <1>4, <1>5, <1>11, <1>12, <1>13 DEF WorldInv, RotationInv, Proper, Capturing, Latest
<1>15. WorldInv'
  BY <1>8, <1>9, <1>10, <1>14 DEF WorldInv
<1>16. ASSUME NEW q \in Queriers
       PROVE  /\ known'[q] \subseteq known[q]
              /\ known'[q] # {} => rotation'.key = rotation.key
              /\ \A k \in known'[q] : Calmly(k)
  <2>1. known'[q] = known[q] \ {id}
    BY <1>1 DEF Unvouched
  <2>2. \A k \in known[q] : Vouched(q, k) /\ k \in Ids
    BY KnownVouched
  <2>3. \A k \in known'[q] : Calmly(k)
    BY <1>1, <1>2, <1>5, <1>6, <2>1, <2>2 DEF Calmly, Mild, Vouched
  <2> QED  BY <1>5, <2>1, <2>3
<1>17. DOMAIN known' = Queriers
  BY <1>1 DEF Unvouched
<1> QED  BY <1>2, <1>3, <1>7, <1>15, <1>16, <1>17, WorldStep

LEMMA RotateTearInv ==
    ASSUME QueryInv, RotateTear
    PROVE  QueryInv'
<1>1. /\ rotation.id # Absent /\ meta' = [meta EXCEPT ![rotation.id] = Torn]
      /\ rotation' = [rotation EXCEPT !.open = TRUE]
      /\ UNCHANGED <<shot, media, sealed, capture, pc, local, known, mixed>>
  BY DEF RotateTear
<1>2. WorldInv
  BY DEF QueryInv
<1>3. PICK id \in Ids : id = rotation.id /\ id \in Keys
  BY <1>1, <1>2 DEF WorldInv, RotationInv, Keys
<1>4. DOMAIN meta' = Ids /\ meta'[id] = Torn /\ \A k \in Ids \ {id} : meta'[k] = meta[k]
  BY <1>1, <1>2, <1>3 DEF WorldInv, StoresInv
<1>5. Keys' = Keys
  BY <1>3, <1>4, TextAssumption DEF Keys
<1>6. \A k \in Ids : Latest(k)' = Latest(k) /\ Capturing(k)' = Capturing(k)
  BY <1>1 DEF Latest, Capturing
<1>7. /\ Grows
      /\ \A k \in Ids : Steady(k)
      /\ \A q \in Queriers : \A k \in Ids : Extracting(q) /\ k = current[q] => Undisturbed(k)
  BY <1>1, <1>6, QuietStep
<1>8. StoresInv'
  BY <1>1, <1>2, <1>4, <1>5, <1>7, StoresKept DEF WorldInv, StoresInv
<1>9. MediaInv'
  BY <1>1, <1>2, <1>5, <1>6, QueryAssumption DEF WorldInv, MediaInv
<1>10. /\ rotation'.key = rotation.key /\ rotation'.todo = rotation.todo
       /\ rotation'.id = rotation.id /\ rotation'.held = rotation.held
       /\ rotation' = [key |-> rotation'.key, todo |-> rotation'.todo, id |-> rotation'.id,
                       held |-> rotation'.held, open |-> rotation'.open]
  BY <1>1, <1>2 DEF WorldInv, RotationInv
<1>11. CaptureInv' /\ KeysInv'
  BY <1>1, <1>2, <1>5, <1>10 DEF WorldInv, CaptureInv, KeysInv, local
<1>12. RotationInv'
  BY <1>1, <1>2, <1>5, <1>10 DEF WorldInv, RotationInv, Proper, Capturing, Latest
<1>13. WorldInv'
  BY <1>8, <1>9, <1>11, <1>12 DEF WorldInv
<1>14. ASSUME NEW q \in Queriers
       PROVE  /\ known'[q] \subseteq known[q] /\ (known'[q] # {} => rotation'.key = rotation.key)
              /\ \A k \in known'[q] : Calmly(k)
  <2>1. \A k \in known[q] : k # id /\ k \in Ids /\ Vouched(q, k)
    BY <1>3, KnownVouched DEF Vouched
  <2> QED  BY <1>1, <1>4, <1>6, <1>10, <2>1 DEF Calmly, Mild, Vouched
<1> QED  BY <1>1, <1>5, <1>7, <1>13, <1>14, WorldStep DEF QueryInv, Domains

LEMMA RotatePutInv ==
    ASSUME QueryInv, RotatePut
    PROVE  QueryInv'
<1>1. /\ rotation.open /\ sealed' = [sealed EXCEPT ![rotation.id] = rotation.key]
      /\ rotation' = [rotation EXCEPT !.id = Absent, !.held = Absent, !.open = FALSE]
      /\ UNCHANGED <<shot, media, capture, pc, local, known, mixed>>
  BY DEF RotatePut
<1>2. PICK v \in Written(meta[rotation.id], rotation.held) :
        meta' = [meta EXCEPT ![rotation.id] = v]
  BY DEF RotatePut
<1>3. WorldInv
  BY DEF QueryInv
<1>4. PICK id \in Ids : id = rotation.id /\ id \in Keys
  BY <1>1, <1>3 DEF WorldInv, RotationInv, Keys
<1>5. PICK r : r = rotation.held
  OBVIOUS
<1>6. Proper(id, r)
  BY <1>1, <1>3, <1>4, <1>5 DEF WorldInv, RotationInv
<1>7. (v = r \/ v = Torn) /\ DOMAIN meta' = Ids /\ meta'[id] = v
      /\ \A k \in Ids \ {id} : meta'[k] = meta[k]
  BY <1>2, <1>3, <1>4, <1>5, WrittenIs DEF WorldInv, StoresInv
<1>8. v # Absent
  <2>1. PICK n \in Nat : n = shot[id] /\ n <= Shots(id)
    BY <1>3 DEF WorldInv, StoresInv
  <2> QED  BY <1>6, <1>7, <2>1, OwnIsRecord DEF Proper
<1>9. Keys' = Keys
  BY <1>4, <1>7, <1>8 DEF Keys
<1>10. \A k \in Ids : Latest(k)' = Latest(k) /\ Capturing(k)' = Capturing(k)
  BY <1>1 DEF Latest, Capturing
<1>11. /\ Grows
       /\ \A k \in Ids : Steady(k)
       /\ \A q \in Queriers : \A k \in Ids : Extracting(q) /\ k = current[q] => Undisturbed(k)
  BY <1>1, <1>10, QuietStep
<1>12. StoresInv'
  <2>1. r \in Own(id, shot'[id]) /\ (id \notin mixed' => r \in Captured(id, Latest(id)'))
    BY <1>6, <1>11, StillProper
  <2>2. v = Torn \/ Proper(id, meta[id])'
    BY <1>7, <2>1 DEF Proper
  <2>3. DOMAIN sealed' = Ids
    BY <1>1, <1>3 DEF WorldInv, StoresInv
  <2> QED  BY <1>1, <1>3, <1>7, <1>9, <1>11, <2>2, <2>3, StoresKept DEF WorldInv, StoresInv
<1>13. MediaInv'
  BY <1>1, <1>3, <1>9, <1>10, QueryAssumption DEF WorldInv, MediaInv
<1>14. /\ rotation'.key = rotation.key /\ rotation'.todo = rotation.todo
       /\ rotation'.id = Absent /\ rotation'.open = FALSE
       /\ rotation' = [key |-> rotation'.key, todo |-> rotation'.todo, id |-> rotation'.id,
                       held |-> rotation'.held, open |-> rotation'.open]
  BY <1>1, <1>3 DEF WorldInv, RotationInv
<1>15. KeysInv'
  <2>1. rotation.key <= rotation.key
    <3>1. PICK a : a = rotation.key
      OBVIOUS
    <3>2. a \in Nat
      BY <1>3, <3>1 DEF WorldInv, KeysInv
    <3> QED  BY <3>1, <3>2
  <2>2. \A k \in Ids : sealed'[k] = sealed[k] \/ sealed'[k] = rotation.key
    BY <1>1, <1>3 DEF WorldInv, StoresInv
  <2> QED  BY <1>1, <1>3, <1>14, <2>1, <2>2 DEF WorldInv, KeysInv, local
<1>16. CaptureInv'
  BY <1>1, <1>3, <1>9 DEF WorldInv, CaptureInv
<1>17. RotationInv'
  BY <1>3, <1>9, <1>14 DEF WorldInv, RotationInv
<1>18. WorldInv'
  BY <1>12, <1>13, <1>15, <1>16, <1>17 DEF WorldInv
<1>19. ASSUME NEW q \in Queriers
       PROVE  /\ known'[q] \subseteq known[q] /\ (known'[q] # {} => rotation'.key = rotation.key)
              /\ \A k \in known'[q] : Calmly(k)
  <2>1. \A k \in known[q] : k # id /\ k \in Ids /\ Vouched(q, k) /\ k # Absent
    BY <1>4, KnownVouched, QueryAssumption DEF Vouched
  <2> QED  BY <1>1, <1>7, <1>10, <1>14, <2>1 DEF Calmly, Mild, Vouched
<1> QED  BY <1>1, <1>9, <1>11, <1>18, <1>19, WorldStep DEF QueryInv, Domains

LEMMA RotationOverInv ==
    ASSUME QueryInv, RotationOver, UNCHANGED <<stores, pc, local, known, mixed>>
    PROVE  QueryInv'
<1>1. WorldInv /\ Keys' = Keys
  BY DEF QueryInv, Keys, stores
<1>2. /\ rotation'.key = rotation.key /\ rotation'.todo = {} /\ rotation'.id = Absent
      /\ rotation'.open = FALSE
      /\ rotation' = [key |-> rotation'.key, todo |-> rotation'.todo, id |-> rotation'.id,
                      held |-> rotation'.held, open |-> rotation'.open]
  BY <1>1 DEF WorldInv, RotationInv, RotationOver
<1>3. \A k \in Ids : Latest(k)' = Latest(k) /\ Capturing(k)' = Capturing(k)
  BY DEF Latest, Capturing, stores
<1>4. /\ Grows
      /\ \A k \in Ids : Steady(k)
      /\ \A q \in Queriers : \A k \in Ids : Extracting(q) /\ k = current[q] => Undisturbed(k)
  BY <1>3, QuietStep DEF stores
<1>5. StoresInv' /\ MediaInv' /\ CaptureInv' /\ KeysInv'
  BY <1>1, <1>2 DEF WorldInv, StoresInv, MediaInv, CaptureInv, KeysInv, Readable, Proper,
                    Latest, Capturing, Keys, stores, local
<1>6. WorldInv'
  BY <1>2, <1>5 DEF WorldInv, RotationInv
<1>7. ASSUME NEW q \in Queriers
      PROVE  /\ known'[q] \subseteq known[q] /\ (known'[q] # {} => rotation'.key = rotation.key)
             /\ \A k \in known'[q] : Calmly(k)
  <2>1. \A k \in known[q] : k \in Ids /\ Vouched(q, k) /\ k # Absent
    BY KnownVouched, QueryAssumption DEF Vouched
  <2> QED  BY <1>2, <1>3, <2>1 DEF Calmly, Mild, Vouched, stores
<1> QED  BY <1>1, <1>4, <1>6, <1>7, WorldStep DEF QueryInv, Domains

LEMMA SurroundingsInv ==
    ASSUME QueryInv, Surroundings
    PROVE  QueryInv'
<1>1. CASE RotateFails
  BY <1>1, RotationOverInv DEF RotateFails
<1>2. CASE RotationKilled
  BY <1>2, RotationOverInv DEF RotationKilled
<1> QED  BY <1>1, <1>2, CaptureMediaInv, MediaStoredInv, CaptureRecordInv, RecordStoredInv,
            SamplerKilledInv, RotateKeysInv, RotateGetInv, RotateTearInv, RotatePutInv
         DEF Surroundings

----------------------------------------------------------------------------
(* The steps of a query.                                                   *)

\* A step of p that leaves the records alone.
LEMMA OwnStep ==
    ASSUME QueryInv, NEW p \in Queriers, UNCHANGED <<stores, rotation, mixed>>,
           WorldInv', Domains', UserInv(p)',
           \A q \in Queriers \ {p} :
               /\ pc'[q] = pc[q] /\ query'[q] = query[q] /\ window'[q] = window[q]
               /\ ring'[q] = ring[q] /\ todo'[q] = todo[q] /\ current'[q] = current[q]
               /\ held'[q] = held[q] /\ results'[q] = results[q] /\ round'[q] = round[q]
               /\ processed'[q] = processed[q] /\ known'[q] = known[q]
    PROVE  QueryInv'
<1>1. Keys' = Keys /\ \A k \in Ids : Latest(k)' = Latest(k) /\ Capturing(k)' = Capturing(k)
  BY DEF stores, Keys, Latest, Capturing
<1>2. /\ Grows
      /\ \A q \in Queriers : \A k \in Ids : Extracting(q) /\ k = current[q] => Undisturbed(k)
  BY <1>1, QuietStep DEF stores
<1>3. ASSUME NEW q \in Queriers, q # p PROVE UserInv(q)'
  <2>1. \A k \in known'[q] : Calmly(k)
    <3>1. known'[q] = known[q]
      BY <1>3
    <3>2. \A k \in known[q] : k \in Ids /\ Vouched(q, k)
      BY KnownVouched
    <3> QED  BY <1>1, <3>1, <3>2 DEF Calmly, Mild, Vouched, stores
  <2>2. \A k \in Ids : Extracting(q) /\ k = current[q] => Undisturbed(k)
    BY <1>2
  <2> QED  BY <1>1, <1>2, <1>3, <2>1, <2>2, UserStays
<1> QED  BY <1>3 DEF QueryInv

\* Such a step changes none of these.
LEMMA SameRecords ==
    ASSUME QueryInv, UNCHANGED <<stores, rotation, mixed>>
    PROVE  /\ Keys' = Keys
           /\ \A k : Capturing(k)' = Capturing(k) /\ HasText(k)' = HasText(k)
           /\ \A k, r : Proper(k, r)' = Proper(k, r)
           /\ \A k : Latest(k)' = Latest(k) /\ Content(k)' = Content(k)
  BY DEF stores, Keys, Capturing, HasText, Proper, Latest, Content

LEMMA SameWorld ==
    ASSUME QueryInv, UNCHANGED <<stores, rotation, mixed>>, NEW p \in Queriers, NEW n \in Nat,
           n <= rotation.key, ring' = [ring EXCEPT ![p] = n]
    PROVE  WorldInv'
<1>1. KeysInv'
  BY DEF QueryInv, WorldInv, KeysInv, Domains, stores
<1>2. StoresInv' /\ MediaInv' /\ CaptureInv' /\ RotationInv'
  BY DEF QueryInv, WorldInv, StoresInv, MediaInv, CaptureInv, RotationInv, Readable, Proper,
         Latest, Capturing, Keys, stores
<1> QED  BY <1>1, <1>2 DEF WorldInv

LEMMA SameRings ==
    ASSUME QueryInv, UNCHANGED <<stores, rotation, mixed, ring>>
    PROVE  WorldInv'
  BY DEF QueryInv, WorldInv, StoresInv, MediaInv, CaptureInv, RotationInv, KeysInv, Readable,
         Proper, Latest, Capturing, Keys, stores

LEMMA AskInv ==
    ASSUME QueryInv, NEW p \in Queriers, NEW q \in Asks(p), Ask(p, q)
    PROVE  QueryInv'
<1>1. /\ query' = [query EXCEPT ![p] = q] /\ ring' = [ring EXCEPT ![p] = rotation.key]
      /\ window' = [window EXCEPT ![p] = Parse(q.said, clock, Zone, Tie)]
      /\ known' = [known EXCEPT ![p] =
                     {id \in Stored \ mixed : ~Capturing(id) /\ rotation.id # id}]
      /\ todo' = [todo EXCEPT ![p] = Keys] /\ results' = [results EXCEPT ![p] = {}]
      /\ round' = [round EXCEPT ![p] = 1] /\ processed' = [processed EXCEPT ![p] = 0]
      /\ pc' = [pc EXCEPT ![p] = "search"]
      /\ UNCHANGED <<stores, rotation, mixed, current, held>>
  BY DEF Ask, Set, world
<1>2. WorldInv /\ Domains
  BY DEF QueryInv
<1>3. rotation.key \in Nat /\ rotation.key <= rotation.key
  <2>1. PICK a : a = rotation.key
    OBVIOUS
  <2>2. a \in Nat
    BY <1>2, <2>1 DEF WorldInv, KeysInv
  <2> QED  BY <2>1, <2>2
<1>4. WorldInv'
  BY <1>1, <1>3, SameWorld
<1>5. Domains'
  BY <1>1, <1>2 DEF Domains
<1>6. /\ Keys' = Keys
      /\ \A k : Capturing(k)' = Capturing(k)
  BY <1>1, SameRecords
<1>7. /\ pc'[p] = "search" /\ todo'[p] = Keys /\ results'[p] = {} /\ round'[p] = 1
      /\ processed'[p] = 0 /\ ring'[p] = rotation.key
      /\ known'[p] = {id \in Stored \ mixed : ~Capturing(id) /\ rotation.id # id}
  BY <1>1, <1>2 DEF Domains
<1>8. \A id \in known'[p] : Vouched(p, id)'
  BY <1>1, <1>6, <1>7, TextAssumption DEF Vouched, Stored, Keys, stores
<1>9. HoldsRecord(p)'
  BY <1>6, <1>7 DEF HoldsRecord
<1>10. NothingMissed(p)'
  BY <1>1, <1>7, <1>8 DEF NothingMissed
<1> QED  BY <1>1, <1>4, <1>5, <1>9, <1>10, OwnStep DEF UserInv

LEMMA EndedInv ==
    ASSUME QueryInv, NEW p \in Queriers, Ended(p), UNCHANGED <<stores, rotation, mixed>>
    PROVE  QueryInv'
<1>1. /\ pc' = [pc EXCEPT ![p] = "idle"] /\ query' = [query EXCEPT ![p] = Absent]
      /\ window' = [window EXCEPT ![p] = None] /\ ring' = [ring EXCEPT ![p] = 0]
      /\ todo' = [todo EXCEPT ![p] = {}] /\ current' = [current EXCEPT ![p] = Absent]
      /\ held' = [held EXCEPT ![p] = Absent] /\ processed' = [processed EXCEPT ![p] = 0]
      /\ round' = [round EXCEPT ![p] = 1] /\ results' = [results EXCEPT ![p] = {}]
      /\ known' = [known EXCEPT ![p] = {}]
  BY DEF Ended, Set
<1>2. WorldInv /\ Domains
  BY DEF QueryInv
<1>3. 0 <= rotation.key
  <2>1. PICK a : a = rotation.key
    OBVIOUS
  <2>2. a \in Nat
    BY <1>2, <2>1 DEF WorldInv, KeysInv
  <2> QED  BY <2>1, <2>2
<1>4. WorldInv'
  BY <1>1, <1>3, SameWorld
<1>5. Domains'
  BY <1>1, <1>2 DEF Domains
<1>6. pc'[p] = "idle" /\ todo'[p] = {} /\ results'[p] = {} /\ known'[p] = {}
      /\ processed'[p] = 0
  BY <1>1, <1>2 DEF Domains
<1>7. UserInv(p)'
  BY <1>6 DEF UserInv, HoldsRecord, NothingMissed
<1> QED  BY <1>1, <1>4, <1>5, <1>7, OwnStep

\* Reading what an answer vouches for.
LEMMA ReadVouched ==
    ASSUME QueryInv, NEW p \in Queriers, NEW id \in known[p], meta[id] # Torn
    PROVE  /\ Read(p, id) = meta[id] /\ meta[id].ts = At(id, Latest(id)) /\ meta[id].ts # NoTime
           /\ id \in Filmed => meta[id].text \in {NoText, Extracted(id, Latest(id))}
           /\ Relevant(p, id) => Within(meta[id], window[p])
           /\ Relevant(p, id) /\ (id \in Filmed => HasText(id)) =>
                Matches(meta[id], query[p], window[p])
           /\ Within(meta[id], window[p]) /\ Shows(id, query[p]) => Relevant(p, id)
<1>1. Vouched(p, id) /\ id \in Ids /\ WorldInv /\ ring[p] = rotation.key
  BY KnownVouched DEF QueryInv, UserInv, NothingMissed
<1>2. PICK n \in Nat : n = shot[id] /\ n >= 1 /\ n <= Shots(id)
  <2>1. PICK n : n = shot[id]
    OBVIOUS
  <2>2. n \in Nat /\ n >= 1 /\ n <= Shots(id)
    BY <1>1, <2>1 DEF Vouched, WorldInv, StoresInv
  <2> QED  BY <2>1, <2>2
<1>3. Latest(id) = n
  BY <1>1, <1>2 DEF Vouched, Latest
<1>4. At(id, n) \in Int /\ At(id, n) # NoTime
  BY <1>1, <1>2, QueryAssumption, TextAssumption
<1>5. ~(sealed[id] > ring[p])
  <2>1. PICK a, b : a = sealed[id] /\ b = ring[p]
    OBVIOUS
  <2>2. a \in Nat /\ b \in Nat /\ a <= b
    BY <1>1, <2>1 DEF WorldInv, KeysInv
  <2> QED  BY <2>1, <2>2
<1>6. Read(p, id) = meta[id]
  BY <1>5 DEF Read
<1>7. meta[id] \in Captured(id, n)
  BY <1>1, <1>3 DEF WorldInv, StoresInv, Readable, Proper, Vouched, Keys
<1>8. meta[id].ts = At(id, n) /\ (id \in Filmed => meta[id].text \in {NoText, Extracted(id, n)})
  BY <1>7 DEF Captured
<1>9. Relevant(p, id) => Within(meta[id], window[p])
  BY <1>3, <1>4, <1>8 DEF Relevant, Within
<1>10. ASSUME Relevant(p, id), id \in Filmed => HasText(id)
       PROVE  Matches(meta[id], query[p], window[p])
  <2>1. meta[id].text = Content(id)
    BY <1>3, <1>10 DEF HasText, Content
  <2>2. meta[id].text # NoText /\ query[p].wording \in meta[id].text
    BY <1>10, <2>1 DEF Relevant, Shows
  <2> QED  BY <1>3, <1>8, <1>10, <2>2 DEF Matches, Relevant
<1>11. Within(meta[id], window[p]) /\ Shows(id, query[p]) => Relevant(p, id)
  BY <1>3, <1>8 DEF Relevant, Within
<1> QED  BY <1>3, <1>4, <1>6, <1>8, <1>9, <1>10, <1>11

LEMMA SearchOneInv ==
    ASSUME QueryInv, NEW p \in Queriers, SearchOne(p)
    PROVE  QueryInv'
<1>1. PICK id \in todo[p] :
        /\ meta[id] # Torn /\ todo' = [todo EXCEPT ![p] = todo[p] \ {id}]
        /\ results' = [results EXCEPT ![p] =
              IF Matches(Read(p, id), query[p], window[p]) THEN results[p] \cup {id}
              ELSE results[p]]
  BY DEF SearchOne, Set
<1>2. /\ pc[p] = "search"
      /\ UNCHANGED <<stores, rotation, mixed, pc, query, window, ring, current, held, processed,
                     round, known>>
  BY DEF SearchOne, world
<1>3. Domains /\ UserInv(p)
  BY DEF QueryInv
<1>4. WorldInv'
  BY <1>2, SameRings
<1>5. Domains'
  BY <1>1, <1>2, <1>3 DEF Domains
<1>6. /\ Keys' = Keys
      /\ \A k : HasText(k)' = HasText(k) /\ Vouched(p, k)' = Vouched(p, k)
                /\ Relevant(p, k)' = Relevant(p, k)
  BY <1>2 DEF Keys, HasText, Vouched, Relevant, Shows, Content, Latest, Capturing, stores
<1>7. /\ todo'[p] = todo[p] \ {id}
      /\ results'[p] = IF Matches(Read(p, id), query[p], window[p]) THEN results[p] \cup {id}
                       ELSE results[p]
  BY <1>1, <1>3 DEF Domains
<1>8. HoldsRecord(p)'
  BY <1>1, <1>2, <1>3, <1>6, <1>7 DEF UserInv, HoldsRecord
<1>9. ASSUME processed[p] < Limit, round[p] = 2, NEW k \in known[p], Relevant(p, k)
      PROVE  (k \in todo'[p] \/ k \in results'[p]) /\ (k \in Filmed => HasText(k))
  <2>1. (k \in todo[p] \/ k \in results[p]) /\ (k \in Filmed => HasText(k))
    BY <1>2, <1>3, <1>9 DEF UserInv, NothingMissed
  <2>2. CASE k = id
    <3>1. Matches(Read(p, id), query[p], window[p])
      BY <1>1, <1>9, <2>1, <2>2, ReadVouched
    <3> QED  BY <1>7, <2>1, <2>2, <3>1
  <2>3. CASE k # id
    BY <1>7, <2>1, <2>3
  <2> QED  BY <2>2, <2>3
<1>10. NothingMissed(p)'
  BY <1>2, <1>3, <1>6, <1>9 DEF UserInv, NothingMissed
<1> QED  BY <1>1, <1>2, <1>4, <1>5, <1>8, <1>10, OwnStep DEF UserInv

LEMMA ExtractOnDemandInv ==
    ASSUME QueryInv, NEW p \in Queriers, ExtractOnDemand(p)
    PROVE  QueryInv'
<1>1. /\ todo' = [todo EXCEPT ![p] = Keys] /\ pc' = [pc EXCEPT ![p] = "extract"]
      /\ UNCHANGED <<stores, rotation, mixed, query, window, ring, current, held, processed,
                     round, results, known>>
  BY DEF ExtractOnDemand, Set, world
<1>2. Domains /\ UserInv(p)
  BY DEF QueryInv
<1>3. WorldInv'
  BY <1>1, SameRings
<1>4. Domains'
  BY <1>1, <1>2 DEF Domains
<1>5. Keys' = Keys /\ \A k : Vouched(p, k)' = Vouched(p, k)
  BY <1>1 DEF Keys, Vouched, Capturing, stores
<1>6. todo'[p] = Keys /\ pc'[p] = "extract"
  BY <1>1, <1>2 DEF Domains
<1>7. HoldsRecord(p)'
  BY <1>1, <1>2, <1>5, <1>6 DEF UserInv, HoldsRecord
<1>8. NothingMissed(p)'
  BY <1>1, <1>2, <1>5, <1>6 DEF UserInv, NothingMissed, Vouched
<1> QED  BY <1>1, <1>3, <1>4, <1>7, <1>8, OwnStep DEF UserInv

LEMMA SearchAgainInv ==
    ASSUME QueryInv, NEW p \in Queriers, SearchAgain(p)
    PROVE  QueryInv'
<1>1. /\ pc[p] = "extract" /\ todo[p] = {}
      /\ todo' = [todo EXCEPT ![p] = Keys] /\ results' = [results EXCEPT ![p] = {}]
      /\ round' = [round EXCEPT ![p] = 2] /\ pc' = [pc EXCEPT ![p] = "search"]
      /\ UNCHANGED <<stores, rotation, mixed, query, window, ring, current, held, processed, known>>
  BY DEF SearchAgain, Set, SecondSearch, world
<1>2. Domains /\ UserInv(p)
  BY DEF QueryInv
<1>3. WorldInv'
  BY <1>1, SameRings
<1>4. Domains'
  BY <1>1, <1>2 DEF Domains
<1>5. /\ Keys' = Keys
      /\ \A k : HasText(k)' = HasText(k) /\ Vouched(p, k)' = Vouched(p, k)
                /\ Relevant(p, k)' = Relevant(p, k)
  BY <1>1 DEF Keys, HasText, Vouched, Relevant, Shows, Content, Latest, Capturing, stores
<1>6. todo'[p] = Keys /\ pc'[p] = "search" /\ results'[p] = {} /\ round'[p] = 2
  BY <1>1, <1>2 DEF Domains
<1>7. HoldsRecord(p)'
  BY <1>1, <1>2, <1>5, <1>6 DEF UserInv, HoldsRecord
<1>8. ASSUME processed[p] < Limit, NEW k \in known[p], Relevant(p, k)
      PROVE  k \in Keys /\ (k \in Filmed => HasText(k))
  BY <1>1, <1>2, <1>8 DEF UserInv, NothingMissed, Vouched
<1>9. NothingMissed(p)'
  BY <1>1, <1>2, <1>5, <1>6, <1>8 DEF UserInv, NothingMissed
<1> QED  BY <1>1, <1>3, <1>4, <1>7, <1>9, OwnStep DEF UserInv

LEMMA SearchDoneInv ==
    ASSUME QueryInv, NEW p \in Queriers, SearchDone(p)
    PROVE  QueryInv'
<1>1. /\ pc[p] = "search" /\ todo[p] = {}
      /\ results[p] # {} \/ round[p] = 2 \/ ~AllowExtract
      /\ todo' = [todo EXCEPT ![p] = results[p]]
      /\ pc' = [pc EXCEPT ![p] = IF results[p] = {} THEN "answered" ELSE "claims"]
      /\ UNCHANGED <<stores, rotation, mixed, query, window, ring, current, held, processed,
                     round, results, known>>
  BY DEF SearchDone, Set, world
<1>2. Domains /\ UserInv(p)
  BY DEF QueryInv
<1>3. WorldInv'
  BY <1>1, SameRings
<1>4. Domains'
  BY <1>1, <1>2 DEF Domains
<1>5. /\ Keys' = Keys
      /\ \A k : Vouched(p, k)' = Vouched(p, k) /\ Relevant(p, k)' = Relevant(p, k)
  BY <1>1 DEF Keys, Vouched, Relevant, Shows, Content, Latest, Capturing, stores
<1>6. todo'[p] = results[p] /\ pc'[p] = IF results[p] = {} THEN "answered" ELSE "claims"
  BY <1>1, <1>2 DEF Domains
<1>7. HoldsRecord(p)'
  BY <1>1, <1>2, <1>5, <1>6 DEF UserInv, HoldsRecord
<1>8. ASSUME processed[p] < Limit, results[p] = {}, AllowExtract, NEW k \in known[p]
      PROVE  ~Relevant(p, k)
  BY <1>1, <1>2, <1>8 DEF UserInv, NothingMissed
<1>9. NothingMissed(p)'
  BY <1>1, <1>2, <1>5, <1>6, <1>8 DEF UserInv, NothingMissed
<1> QED  BY <1>1, <1>3, <1>4, <1>7, <1>9, OwnStep DEF UserInv

LEMMA ClaimInv ==
    ASSUME QueryInv, NEW p \in Queriers, Claim(p)
    PROVE  QueryInv'
<1>1. PICK id \in todo[p] :
        /\ todo' = [todo EXCEPT ![p] = todo[p] \ {id}]
        /\ pc' = [pc EXCEPT ![p] = IF todo[p] = {id} THEN "answered" ELSE "claims"]
  BY DEF Claim, Set
<1>2. /\ pc[p] = "claims"
      /\ UNCHANGED <<stores, rotation, mixed, query, window, ring, current, held, processed,
                     round, results, known>>
  BY DEF Claim, world
<1>3. Domains /\ UserInv(p)
  BY DEF QueryInv
<1>4. WorldInv'
  BY <1>2, SameRings
<1>5. Domains'
  BY <1>1, <1>2, <1>3 DEF Domains
<1>6. Keys' = Keys /\ \A k : Vouched(p, k)' = Vouched(p, k)
  BY <1>2 DEF Keys, Vouched, Capturing, stores
<1>7. todo'[p] = todo[p] \ {id} /\ pc'[p] \in {"answered", "claims"} /\ results[p] # {}
  BY <1>1, <1>2, <1>3 DEF Domains, UserInv, NothingMissed
<1>8. HoldsRecord(p)'
  BY <1>2, <1>3, <1>6, <1>7 DEF UserInv, HoldsRecord
<1>9. NothingMissed(p)'
  BY <1>2, <1>3, <1>6, <1>7 DEF UserInv, NothingMissed
<1> QED  BY <1>1, <1>2, <1>4, <1>5, <1>8, <1>9, OwnStep DEF UserInv

LEMMA ReadMediaInv ==
    ASSUME QueryInv, NEW p \in Queriers, ReadMedia(p)
    PROVE  QueryInv'
<1> DEFINE id == current[p]
<1>1. PICK text \in Readings(p, id) :
        LET n == IF Counted(text) THEN processed[p] + 1 ELSE processed[p]
        IN /\ IF text = NoText
              THEN /\ held' = Set(held, p, Absent) /\ current' = Set(current, p, Absent)
                   /\ pc' = Set(pc, p, "extract")
              ELSE /\ held' = Set(held, p, [held[p] EXCEPT !.text = text])
                   /\ pc' = Set(pc, p, "put")
                   /\ UNCHANGED current
           /\ processed' = Set(processed, p, n)
           /\ todo' = IF n >= Limit THEN Set(todo, p, {}) ELSE todo
  BY DEF ReadMedia
<1>2. /\ pc[p] = "media" /\ media[id] # Torn
      /\ UNCHANGED <<stores, rotation, mixed, query, window, ring, round, results, known>>
  BY DEF ReadMedia, world
<1>3. PICK n : n = IF Counted(text) THEN processed[p] + 1 ELSE processed[p]
  OBVIOUS
<1>4. /\ processed' = [processed EXCEPT ![p] = n]
      /\ todo' = IF n >= Limit THEN [todo EXCEPT ![p] = {}] ELSE todo
      /\ text = NoText => /\ held' = [held EXCEPT ![p] = Absent]
                          /\ current' = [current EXCEPT ![p] = Absent]
                          /\ pc' = [pc EXCEPT ![p] = "extract"]
      /\ text # NoText => /\ held' = [held EXCEPT ![p] = [held[p] EXCEPT !.text = text]]
                          /\ pc' = [pc EXCEPT ![p] = "put"] /\ current' = current
  BY <1>1, <1>3 DEF Set
<1>5. Domains /\ UserInv(p) /\ WorldInv
  BY DEF QueryInv
<1>6. WorldInv'
  BY <1>2, SameRings
<1>7. Domains'
  BY <1>2, <1>4, <1>5 DEF Domains
<1>8. /\ Keys' = Keys
      /\ \A k : HasText(k)' = HasText(k) /\ Vouched(p, k)' = Vouched(p, k)
                /\ Relevant(p, k)' = Relevant(p, k) /\ Capturing(k)' = Capturing(k)
                /\ Latest(k)' = Latest(k)
  BY <1>2 DEF Keys, HasText, Vouched, Relevant, Shows, Content, Latest, Capturing, stores
<1>9. \A k, r : Proper(k, r)' = Proper(k, r)
  BY <1>2, SameRecords
<1>10. PICK k, h : k = current[p] /\ h = held[p]
  OBVIOUS
<1>11. k \in Ids /\ k \in Keys /\ Proper(k, h) /\ (Capturing(k) => k \in mixed)
  BY <1>2, <1>5, <1>10 DEF UserInv, HoldsRecord, Keys
<1>12. k \notin mixed => Latest(k) = shot[k] /\ (k \in Filmed => media[k] = shot[k])
  BY <1>5, <1>11 DEF WorldInv, MediaInv, Latest
<1>13. n \in Nat /\ (n < Limit => processed[p] < Limit)
  <2>1. PICK a \in Nat : a = processed[p]
    BY <1>5 DEF UserInv, NothingMissed
  <2>2. CASE Counted(text)
    BY <1>3, <2>1, <2>2, QueryAssumption
  <2>3. CASE ~Counted(text)
    BY <1>3, <2>1, <2>3, QueryAssumption
  <2> QED  BY <2>2, <2>3
<1>14. processed'[p] = n /\ todo'[p] \subseteq todo[p] /\ (n < Limit => todo'[p] = todo[p])
  <2>1. n < Limit => ~(n >= Limit)
    BY <1>13, QueryAssumption
  <2> QED  BY <1>4, <1>5, <2>1 DEF Domains
<1>15. \A q \in Queriers \ {p} : todo'[q] = todo[q] /\ processed'[q] = processed[q]
  <2>1. CASE n >= Limit
    BY <1>4, <1>5, <2>1 DEF Domains
  <2>2. CASE ~(n >= Limit)
    BY <1>4, <1>5, <2>2 DEF Domains
  <2> QED  BY <2>1, <2>2
<1>16. CASE text = NoText
  <2>1. pc'[p] = "extract"
    BY <1>4, <1>5, <1>16 DEF Domains
  <2>2. HoldsRecord(p)'
    BY <1>2, <1>5, <1>8, <1>14, <2>1 DEF UserInv, HoldsRecord
  <2>3. ASSUME NEW j \in known[p] \cap Filmed, Relevant(p, j) PROVE j # k
    <3> SUFFICES ASSUME k \in known[p], k \in Filmed, Relevant(p, k) PROVE FALSE
      BY <2>3
    <3>1. ring[p] = rotation.key /\ Vouched(p, k)
      BY <1>5 DEF UserInv, NothingMissed
    <3>2. ~(ring[p] < rotation.key)
      <4>1. PICK a : a = rotation.key
        OBVIOUS
      <4>2. a \in Nat
        BY <1>5, <4>1 DEF WorldInv, KeysInv
      <4> QED  BY <3>1, <4>1, <4>2
    <3>3. media[k] = Latest(k) /\ shot[k] \in Nat /\ Latest(k) = shot[k]
      BY <1>5, <1>11, <1>12, <3>1 DEF Vouched, WorldInv, StoresInv
    <3>4. media[k] # Absent
      BY <3>3, TextAssumption
    <3>5. Extracted(k, Latest(k)) \in {Fails, NoText}
      BY <1>1, <1>10, <1>16, <3>2, <3>3, <3>4 DEF Readings
    <3> QED  BY <3>5 DEF Relevant, Shows, Content
  <2>4. ASSUME n < Limit, NEW j \in known[p] \cap Filmed, Relevant(p, j)
        PROVE  j \in todo'[p] \/ HasText(j)
    BY <1>2, <1>5, <1>10, <1>13, <1>14, <2>3, <2>4 DEF UserInv, NothingMissed
  <2>5. NothingMissed(p)'
    BY <1>2, <1>5, <1>8, <1>13, <1>14, <2>1, <2>4 DEF UserInv, NothingMissed
  <2>6. \A q \in Queriers \ {p} :
            /\ pc'[q] = pc[q] /\ query'[q] = query[q] /\ window'[q] = window[q]
            /\ ring'[q] = ring[q] /\ current'[q] = current[q] /\ held'[q] = held[q]
            /\ results'[q] = results[q] /\ round'[q] = round[q] /\ known'[q] = known[q]
    BY <1>2, <1>4, <1>5, <1>16 DEF Domains
  <2> QED  BY <1>2, <1>6, <1>7, <1>15, <2>2, <2>5, <2>6, OwnStep DEF UserInv
<1>17. CASE text # NoText
  <2>1. pc'[p] = "put" /\ current'[p] = k /\ held'[p] = [h EXCEPT !.text = text]
    BY <1>4, <1>5, <1>10, <1>17 DEF Domains
  <2>2. PICK m : m = media[k]
    OBVIOUS
  <2>3. m # Absent /\ Extracted(k, m) # Fails /\ text = Extracted(k, m)
    BY <1>1, <1>10, <1>17, <2>2 DEF Readings
  <2>4. m \in 1..shot[k] /\ k \in Filmed
    BY <1>2, <1>5, <1>10, <1>11, <2>2, <2>3 DEF WorldInv, MediaInv
  <2>5. text \in Text
    <3>1. PICK s \in Nat : s = shot[k] /\ s <= Shots(k)
      BY <1>5, <1>11 DEF WorldInv, StoresInv
    <3>2. m \in 1..s /\ Shots(k) \in Nat
      BY <1>11, <2>4, <3>1, QueryAssumption
    <3>3. m \in 1..Shots(k)
      BY <3>1, <3>2
    <3> QED  BY <2>3, <2>4, <3>3, TextAssumption
  <2>6. PICK g : g = [h EXCEPT !.text = text]
    OBVIOUS
  <2>7. g \in Own(k, shot[k]) /\ g.text = text
    BY <1>11, <2>3, <2>4, <2>5, <2>6 DEF Proper, Own
  <2>8. k \notin mixed => g \in Captured(k, Latest(k)) /\ m = Latest(k)
    <3> SUFFICES ASSUME k \notin mixed PROVE g \in Captured(k, Latest(k)) /\ m = Latest(k)
      OBVIOUS
    <3>1. h \in Captured(k, Latest(k)) /\ m = Latest(k)
      BY <1>11, <1>12, <2>2, <2>4 DEF Proper
    <3> QED  BY <2>3, <2>4, <2>5, <2>6, <3>1 DEF Captured
  <2>9. Proper(k, g)'
    BY <1>9, <2>7, <2>8 DEF Proper
  <2>10. HoldsRecord(p)'
    <3>1. k \notin mixed' => g.text = Extracted(k, Latest(k))
      BY <1>2, <2>3, <2>7, <2>8
    <3>2. Capturing(k) => k \in mixed'
      BY <1>2, <1>11
    <3>3. todo'[p] \subseteq Keys /\ results'[p] \subseteq Keys
      BY <1>2, <1>5, <1>14 DEF UserInv, HoldsRecord
    <3>4. held'[p] = g
      BY <2>1, <2>6
    <3>5. Capturing(k)' => k \in mixed'
      BY <1>8, <3>2
    <3>6. k \notin mixed' => g.text = Extracted(k, Latest(k)')
      BY <1>8, <3>1
    <3> QED  BY <1>8, <1>11, <2>1, <2>4, <2>9, <3>3, <3>4, <3>5, <3>6
             DEF HoldsRecord, Proper, Capturing, Latest
  <2>11. ASSUME n < Limit, NEW j \in known[p] \cap Filmed, Relevant(p, j)
         PROVE  j \in todo'[p] \/ HasText(j) \/ j = k
    BY <1>2, <1>5, <1>10, <1>13, <1>14, <2>11 DEF UserInv, NothingMissed
  <2>12. NothingMissed(p)'
    BY <1>2, <1>5, <1>8, <1>13, <1>14, <2>1, <2>11 DEF UserInv, NothingMissed
  <2>13. \A q \in Queriers \ {p} :
            /\ pc'[q] = pc[q] /\ query'[q] = query[q] /\ window'[q] = window[q]
            /\ ring'[q] = ring[q] /\ current'[q] = current[q] /\ held'[q] = held[q]
            /\ results'[q] = results[q] /\ round'[q] = round[q] /\ known'[q] = known[q]
    BY <1>2, <1>4, <1>5, <1>17 DEF Domains
  <2> QED  BY <1>2, <1>6, <1>7, <1>15, <2>10, <2>12, <2>13, OwnStep DEF UserInv
<1> QED  BY <1>16, <1>17

LEMMA ReadRecordInv ==
    ASSUME QueryInv, NEW p \in Queriers, ReadRecord(p)
    PROVE  QueryInv'
<1>1. PICK id \in todo[p] :
        /\ meta[id] # Torn /\ todo' = [todo EXCEPT ![p] = todo[p] \ {id}]
        /\ IF Within(Read(p, id), window[p]) /\ Read(p, id).text = NoText
           THEN /\ current' = [current EXCEPT ![p] = id]
                /\ held' = [held EXCEPT ![p] = Read(p, id)]
                /\ pc' = [pc EXCEPT ![p] = "media"]
                /\ IF Capturing(id) \/ sealed[id] > ring[p]
                   THEN mixed' = mixed \cup {id} /\ known' = Unvouched(id)
                   ELSE UNCHANGED <<mixed, known>>
           ELSE UNCHANGED <<current, held, pc, mixed, known>>
  BY DEF ReadRecord, Set
<1>2. /\ pc[p] = "extract"
      /\ UNCHANGED <<stores, rotation, query, window, ring, processed, round, results>>
  BY DEF ReadRecord, world
<1>3. Domains /\ UserInv(p) /\ WorldInv
  BY DEF QueryInv
<1>4. id \in Keys /\ id \in Ids /\ todo'[p] = todo[p] \ {id}
  BY <1>1, <1>3 DEF UserInv, HoldsRecord, Keys, Domains
<1>5. /\ Keys' = Keys
      /\ \A k : HasText(k)' = HasText(k) /\ Relevant(p, k)' = Relevant(p, k)
                /\ Capturing(k)' = Capturing(k) /\ Latest(k)' = Latest(k)
  BY <1>2 DEF Keys, HasText, Relevant, Shows, Content, Latest, Capturing, stores
<1>6. /\ mixed \subseteq mixed' /\ mixed' \subseteq mixed \cup {id}
      /\ DOMAIN known' = Queriers
      /\ \A q \in Queriers : known'[q] \subseteq known[q] /\ (id \in mixed' => known'[q] \subseteq known[q] \ {id} \/ id \in mixed)
  <2>1. CASE mixed' = mixed \cup {id} /\ known' = Unvouched(id)
    BY <2>1 DEF Unvouched
  <2>2. CASE mixed' = mixed /\ known' = known
    BY <1>3, <2>2 DEF Domains
  <2> QED  BY <1>1, <2>1, <2>2
<1>7. /\ Grows
      /\ \A k \in Ids : Steady(k)
      /\ \A q \in Queriers : \A k \in Ids : Extracting(q) /\ k = current[q] => Undisturbed(k)
      /\ \A k \in Ids : k = rotation.id => Undisturbed(k)
  BY <1>2, <1>5, <1>6, QuietStep DEF stores
<1>8. WorldInv'
  <2>1. StoresInv'
    BY <1>2, <1>3, <1>5, <1>7, StoresKept DEF WorldInv, StoresInv, stores
  <2>2. RotationInv'
    BY <1>2, <1>3, <1>5, <1>7, RotationKept
  <2>3. MediaInv'
    BY <1>2, <1>3, <1>5, <1>6 DEF WorldInv, MediaInv, stores
  <2>4. KeysInv' /\ CaptureInv'
    BY <1>2, <1>3, <1>5 DEF WorldInv, KeysInv, CaptureInv, stores
  <2> QED  BY <2>1, <2>2, <2>3, <2>4 DEF WorldInv
<1>9. \A q \in Queriers : \A k \in known'[q] : Calmly(k) /\ k \in known[q]
  <2> SUFFICES ASSUME NEW q \in Queriers, NEW k \in known'[q] PROVE Calmly(k) /\ k \in known[q]
    OBVIOUS
  <2>1. k \in known[q] /\ Vouched(q, k)
    BY <1>6, KnownVouched
  <2>2. k \notin mixed'
    BY <1>6, <2>1 DEF Vouched
  <2> QED  BY <1>2, <1>5, <2>1, <2>2 DEF Calmly, Mild, Vouched, stores
<1>10. Domains'
  <2>1. /\ DOMAIN current' = Queriers /\ DOMAIN held' = Queriers /\ DOMAIN pc' = Queriers
    BY <1>1, <1>3 DEF Domains
  <2> QED  BY <1>1, <1>2, <1>3, <1>6, <2>1 DEF Domains
<1>11. ASSUME NEW q \in Queriers, q # p PROVE UserInv(q)'
  <2>1. /\ pc'[q] = pc[q] /\ todo'[q] = todo[q] /\ current'[q] = current[q] /\ held'[q] = held[q]
        /\ query'[q] = query[q] /\ window'[q] = window[q] /\ ring'[q] = ring[q]
        /\ processed'[q] = processed[q] /\ round'[q] = round[q] /\ results'[q] = results[q]
    BY <1>1, <1>2, <1>3, <1>11 DEF Domains
  <2>2. \A k \in Ids : Extracting(q) /\ k = current[q] => Undisturbed(k)
    BY <1>7
  <2>3. known'[q] \subseteq known[q] /\ \A k \in known'[q] : Calmly(k)
    BY <1>9
  <2> QED  BY <1>2, <1>5, <1>7, <2>1, <2>2, <2>3, UserStays
<1>12. \A k \in known'[p] : Vouched(p, k)'
  <2> SUFFICES ASSUME NEW k \in known'[p] PROVE Vouched(p, k)'
    OBVIOUS
  <2>1. Calmly(k) /\ Vouched(p, k)
    BY <1>9, KnownVouched
  <2> QED  BY <1>2, <1>5, <2>1 DEF Calmly, Vouched, stores
<1>13. known'[p] # {} => ring'[p] = rotation'.key
  BY <1>2, <1>3, <1>9 DEF UserInv, NothingMissed
<1>14. ASSUME processed[p] < Limit, NEW k \in known'[p] \cap Filmed, Relevant(p, k)
       PROVE  k \in todo'[p] \/ HasText(k) \/ k = id
  BY <1>2, <1>3, <1>4, <1>9, <1>14 DEF UserInv, NothingMissed
<1>15. CASE Within(Read(p, id), window[p]) /\ Read(p, id).text = NoText
  <2>1. pc'[p] = "media" /\ current'[p] = id /\ held'[p] = Read(p, id)
    BY <1>1, <1>3, <1>15 DEF Domains
  <2>2. Capturing(id) \/ sealed[id] > ring[p] => id \in mixed'
    BY <1>1, <1>15
  <2>3. PICK r : r = Read(p, id)
    OBVIOUS
  <2>4. r \in Own(id, shot'[id]) /\ (id \notin mixed' => r \in Captured(id, Latest(id)'))
    <3>1. CASE sealed[id] > ring[p]
      <4>1. r = [ts |-> NoTime, text |-> NoText]
        BY <2>3, <3>1 DEF Read
      <4>2. PICK n \in Nat : n = shot[id] /\ n <= Shots(id)
        BY <1>3, <1>4 DEF WorldInv, StoresInv
      <4>3. r \in Own(id, n)
        BY <1>4, <4>1, <4>2, OwnIsRecord
      <4> QED  BY <1>2, <2>2, <3>1, <4>2, <4>3 DEF stores
    <3>2. CASE ~(sealed[id] > ring[p])
      <4>1. r = meta[id]
        BY <2>3, <3>2 DEF Read
      <4>2. Proper(id, r)
        BY <1>1, <1>3, <1>4, <4>1 DEF WorldInv, StoresInv, Readable, Keys
      <4> QED  BY <1>4, <1>7, <4>2, StillProper
    <3> QED  BY <3>1, <3>2
  <2>5. HoldsRecord(p)'
    <3>1. Capturing(id)' => id \in mixed'
      BY <1>5, <2>2
    <3>2. todo'[p] \subseteq Keys' /\ results'[p] \subseteq Keys'
      BY <1>2, <1>3, <1>4, <1>5 DEF UserInv, HoldsRecord
    <3> QED  BY <1>4, <1>5, <2>1, <2>3, <2>4, <3>1, <3>2 DEF HoldsRecord, Proper, Capturing, Latest
  <2>6. NothingMissed(p)'
    BY <1>2, <1>3, <1>5, <1>12, <1>13, <1>14, <2>1 DEF UserInv, NothingMissed
  <2> QED  BY <1>8, <1>10, <1>11, <2>5, <2>6 DEF QueryInv, UserInv
<1>16. CASE ~(Within(Read(p, id), window[p]) /\ Read(p, id).text = NoText)
  <2>1. UNCHANGED <<current, held, pc, mixed, known>>
    BY <1>1, <1>16
  <2>2. HoldsRecord(p)'
    BY <1>2, <1>3, <1>4, <1>5, <2>1 DEF UserInv, HoldsRecord
  <2>3. ASSUME id \in known[p], id \in Filmed, Relevant(p, id) PROVE HasText(id)
    BY <1>1, <1>16, <2>3, ReadVouched DEF HasText
  <2>4. NothingMissed(p)'
    BY <1>2, <1>3, <1>5, <1>12, <1>13, <1>14, <2>1, <2>3 DEF UserInv, NothingMissed
  <2> QED  BY <1>8, <1>10, <1>11, <2>2, <2>4 DEF QueryInv, UserInv
<1> QED  BY <1>15, <1>16

LEMMA TearRecordInv ==
    ASSUME QueryInv, NEW p \in Queriers, TearRecord(p)
    PROVE  QueryInv'
<1>1. /\ pc[p] = "put" /\ meta' = [meta EXCEPT ![current[p]] = Torn]
      /\ pc' = [pc EXCEPT ![p] = "write"]
      /\ UNCHANGED <<shot, media, sealed, capture, rotation, local, known, mixed>>
  BY DEF TearRecord, Set
<1>2. WorldInv /\ Domains /\ UserInv(p)
  BY DEF QueryInv
<1>3. PICK id \in Ids : id = current[p] /\ id \in Keys /\ id \in Filmed
  BY <1>1, <1>2 DEF UserInv, HoldsRecord, Keys
<1>4. DOMAIN meta' = Ids /\ meta'[id] = Torn /\ \A k \in Ids \ {id} : meta'[k] = meta[k]
  BY <1>1, <1>2, <1>3 DEF WorldInv, StoresInv
<1>5. Keys' = Keys
  BY <1>3, <1>4, TextAssumption DEF Keys
<1>6. \A k \in Ids : Latest(k)' = Latest(k) /\ Capturing(k)' = Capturing(k)
  BY <1>1 DEF Latest, Capturing
<1>7. /\ Grows
      /\ \A k \in Ids : Steady(k)
      /\ \A q \in Queriers : \A k \in Ids : Extracting(q) /\ k = current[q] => Undisturbed(k)
      /\ \A k \in Ids : k = rotation.id => Undisturbed(k)
  BY <1>1, <1>6, QuietStep
<1>8. WorldInv'
  <2>1. StoresInv'
    BY <1>1, <1>2, <1>4, <1>5, <1>7, StoresKept DEF WorldInv, StoresInv
  <2>2. RotationInv'
    BY <1>1, <1>2, <1>5, <1>7, RotationKept
  <2>3. MediaInv'
    BY <1>1, <1>2, <1>5, <1>6, QueryAssumption DEF WorldInv, MediaInv
  <2>4. KeysInv' /\ CaptureInv'
    BY <1>1, <1>2, <1>5 DEF WorldInv, KeysInv, CaptureInv, local
  <2> QED  BY <2>1, <2>2, <2>3, <2>4 DEF WorldInv
<1>9. ASSUME NEW q \in Queriers PROVE UserInv(q)'
  <2>1. \A k \in known[q] : Calmly(k)
    <3>1. \A k \in known[q] : k \in Ids /\ Vouched(q, k)
      BY KnownVouched
    <3> QED  BY <1>1, <1>3, <1>4, <1>6, <3>1 DEF Calmly, Mild, Vouched
  <2>2. \A k \in Ids : Extracting(q) /\ k = current[q] => Undisturbed(k)
    BY <1>7
  <2>3. pc'[q] = pc[q] \/ (pc[q] = "put" /\ pc'[q] = "write")
    BY <1>1, <1>2 DEF Domains
  <2> QED  BY <1>1, <1>5, <1>7, <2>1, <2>2, <2>3, UserStays DEF local
<1> QED  BY <1>1, <1>2, <1>8, <1>9 DEF QueryInv, Domains, local

LEMMA WriteRecordInv ==
    ASSUME QueryInv, NEW p \in Queriers, WriteRecord(p)
    PROVE  QueryInv'
<1>1. PICK v \in Written(meta[current[p]], held[p]) : meta' = [meta EXCEPT ![current[p]] = v]
  BY DEF WriteRecord, Back
<1>2. /\ pc[p] = "write" /\ sealed' = [sealed EXCEPT ![current[p]] = ring[p]]
      /\ held' = [held EXCEPT ![p] = Absent] /\ current' = [current EXCEPT ![p] = Absent]
      /\ pc' = [pc EXCEPT ![p] = "extract"]
      /\ UNCHANGED <<shot, media, capture, rotation, query, window, ring, todo, processed, round,
                     results, known, mixed>>
  BY DEF WriteRecord, Set
<1>3. WorldInv /\ Domains /\ UserInv(p)
  BY DEF QueryInv
<1>4. PICK id \in Ids : id = current[p] /\ id \in Keys /\ id \in Filmed
  BY <1>2, <1>3 DEF UserInv, HoldsRecord, Keys
<1>5. PICK h : h = held[p]
  OBVIOUS
<1>6. Proper(id, h) /\ (id \notin mixed => h.text = Extracted(id, Latest(id)))
  BY <1>2, <1>3, <1>4, <1>5 DEF UserInv, HoldsRecord
<1>7. (v = h \/ v = Torn) /\ DOMAIN meta' = Ids /\ meta'[id] = v
      /\ \A k \in Ids \ {id} : meta'[k] = meta[k]
  BY <1>1, <1>3, <1>4, <1>5, WrittenIs DEF WorldInv, StoresInv
<1>8. v # Absent
  <2>1. PICK n \in Nat : n = shot[id] /\ n <= Shots(id)
    BY <1>3 DEF WorldInv, StoresInv
  <2> QED  BY <1>6, <1>7, <2>1, OwnIsRecord DEF Proper
<1>9. Keys' = Keys
  BY <1>4, <1>7, <1>8 DEF Keys
<1>10. \A k \in Ids : Latest(k)' = Latest(k) /\ Capturing(k)' = Capturing(k)
  BY <1>2 DEF Latest, Capturing
<1>11. /\ Grows
       /\ \A k \in Ids : Steady(k)
       /\ \A q \in Queriers : \A k \in Ids : Extracting(q) /\ k = current[q] => Undisturbed(k)
       /\ \A k \in Ids : k = rotation.id => Undisturbed(k)
  BY <1>2, <1>10, QuietStep
<1>12. WorldInv'
  <2>1. StoresInv'
    <3>1. h \in Own(id, shot'[id]) /\ (id \notin mixed' => h \in Captured(id, Latest(id)'))
      BY <1>6, <1>11, StillProper
    <3>2. v = Torn \/ Proper(id, meta[id])'
      BY <1>7, <3>1 DEF Proper
    <3>3. DOMAIN sealed' = Ids
      BY <1>2, <1>3 DEF WorldInv, StoresInv
    <3> QED  BY <1>2, <1>3, <1>7, <1>9, <1>11, <3>2, <3>3, StoresKept DEF WorldInv, StoresInv
  <2>2. RotationInv'
    BY <1>2, <1>3, <1>9, <1>11, RotationKept
  <2>3. MediaInv'
    BY <1>2, <1>3, <1>9, <1>10, QueryAssumption DEF WorldInv, MediaInv
  <2>4. KeysInv'
    <3>1. \A k \in Ids : sealed'[k] = sealed[k] \/ sealed'[k] = ring[p]
      BY <1>2, <1>3 DEF WorldInv, StoresInv
    <3> QED  BY <1>2, <1>3, <3>1 DEF WorldInv, KeysInv
  <2>5. CaptureInv'
    BY <1>2, <1>3, <1>9 DEF WorldInv, CaptureInv
  <2> QED  BY <2>1, <2>2, <2>3, <2>4, <2>5 DEF WorldInv
<1>13. \A q \in Queriers : \A k \in known[q] : Calmly(k) /\ Vouched(q, k) /\ k \in Ids
  <2> SUFFICES ASSUME NEW q \in Queriers, NEW k \in known[q]
               PROVE  Calmly(k) /\ Vouched(q, k) /\ k \in Ids
    OBVIOUS
  <2>1. Vouched(q, k) /\ k \in Ids
    BY KnownVouched
  <2>2. Mild(k)
    BY <1>4, <1>6, <1>7, <2>1 DEF Mild, Vouched
  <2> QED  BY <1>2, <1>10, <2>1, <2>2 DEF Calmly, Vouched
<1>14. ASSUME NEW q \in Queriers, q # p PROVE UserInv(q)'
  <2>1. \A k \in Ids : Extracting(q) /\ k = current[q] => Undisturbed(k)
    BY <1>11
  <2>2. \A k \in known[q] : Calmly(k)
    BY <1>13
  <2> QED  BY <1>2, <1>9, <1>11, <1>14, <2>1, <2>2, UserStays
<1>15. Domains'
  BY <1>2, <1>3 DEF Domains
<1>16. pc'[p] = "extract"
  BY <1>2, <1>3 DEF Domains
<1>17. HoldsRecord(p)'
  BY <1>2, <1>3, <1>9, <1>16 DEF UserInv, HoldsRecord
<1>18. ASSUME NEW k \in known[p]
       PROVE  /\ Vouched(p, k)' /\ Relevant(p, k)' = Relevant(p, k)
              /\ k \in Filmed /\ (HasText(k) \/ k = id) => HasText(k)'
  <2>1. Calmly(k) /\ Vouched(p, k) /\ k \in Ids
    BY <1>13
  <2>2. k \notin Filmed => meta'[k] = meta[k]
    BY <2>1 DEF Calmly, Mild
  <2>3. Vouched(p, k)'
    BY <1>9, <2>1, <2>2 DEF Calmly, Vouched
  <2>4. Latest(k)' = Latest(k)
    BY <2>1 DEF Calmly
  <2>5. Content(k)' = Content(k)
    BY <2>2, <2>4 DEF Content
  <2>6. Relevant(p, k)' = Relevant(p, k)
    BY <1>2, <2>4, <2>5 DEF Relevant, Shows
  <2>7. k \in Filmed /\ HasText(k) => HasText(k)'
    BY <2>1, <2>4 DEF Calmly, Mild, HasText
  <2>8. k = id => HasText(k)'
    BY <1>6, <1>7, <2>1, <2>4 DEF HasText, Vouched
  <2> QED  BY <2>3, <2>6, <2>7, <2>8
<1>19. ASSUME processed[p] < Limit, NEW k \in known[p] \cap Filmed, Relevant(p, k)
       PROVE  k \in todo[p] \/ HasText(k) \/ k = id
  BY <1>2, <1>3, <1>4, <1>19 DEF UserInv, NothingMissed
<1>20. NothingMissed(p)'
  BY <1>2, <1>3, <1>16, <1>18, <1>19 DEF UserInv, NothingMissed
<1> QED  BY <1>12, <1>14, <1>15, <1>17, <1>20 DEF QueryInv, UserInv

----------------------------------------------------------------------------
(* The specification.                                                      *)

LEMMA QueryInit ==
    ASSUME Init
    PROVE  QueryInv
<1>1. \A id \in Ids : meta[id] = Absent /\ media[id] = Absent /\ sealed[id] = 0 /\ shot[id] = 0
  BY DEF Init
<1>2. Keys = {} /\ ~(\E id \in Ids : Readable(id))
  BY <1>1 DEF Keys, Readable
<1>3. StoresInv
  <2>1. \A id \in Ids : Shots(id) \in Nat /\ 0 <= Shots(id)
    BY QueryAssumption
  <2> QED  BY <1>1, <1>2, <2>1 DEF Init, StoresInv
<1>4. MediaInv
  BY <1>1, <1>2 DEF MediaInv
<1>5. KeysInv
  BY <1>1 DEF Init, KeysInv
<1>6. CaptureInv
  BY DEF Init, CaptureInv
<1>7. RotationInv
  BY DEF Init, RotationInv
<1>8. Domains
  BY DEF Init, Domains
<1>9. ASSUME NEW p \in Queriers PROVE UserInv(p)
  <2>1. pc[p] = "idle" /\ todo[p] = {} /\ results[p] = {} /\ known[p] = {} /\ processed[p] = 0
    BY DEF Init
  <2> QED  BY <2>1 DEF UserInv, HoldsRecord, NothingMissed
<1> QED  BY <1>3, <1>4, <1>5, <1>6, <1>7, <1>8, <1>9 DEF QueryInv, WorldInv

LEMMA QueryStep ==
    ASSUME QueryInv, [Next]_vars
    PROVE  QueryInv'
<1>1. CASE Surroundings
  BY <1>1, SurroundingsInv
<1>2. ASSUME NEW p \in Queriers, Run(p) PROVE QueryInv'
  <2>1. CASE Fail(p)
    BY <2>1, EndedInv DEF Fail, world
  <2> QED  BY <1>2, <2>1, SearchOneInv, ExtractOnDemandInv, ReadRecordInv, ReadMediaInv,
              TearRecordInv, WriteRecordInv, SearchAgainInv, SearchDoneInv, ClaimInv DEF Run
<1>3. ASSUME NEW p \in Queriers, Killed(p) PROVE QueryInv'
  BY <1>3, EndedInv DEF Killed
<1>4. ASSUME NEW p \in Queriers, NEW q \in Asks(p), Ask(p, q) PROVE QueryInv'
  BY <1>4, AskInv
<1>5. CASE UNCHANGED vars
  <2>1. UNCHANGED <<stores, rotation, mixed, pc, local, known>>
    BY <1>5 DEF vars, world
  <2>2. WorldInv'
    BY <2>1, SameRings DEF local
  <2>3. Keys' = Keys /\ \A k \in Ids : Latest(k)' = Latest(k) /\ Capturing(k)' = Capturing(k)
    BY <2>1 DEF stores, Keys, Latest, Capturing
  <2>4. /\ Grows
        /\ \A q \in Queriers : \A k \in Ids : Extracting(q) /\ k = current[q] => Undisturbed(k)
    BY <2>1, <2>3, QuietStep DEF stores
  <2>5. ASSUME NEW q \in Queriers
        PROVE  known'[q] \subseteq known[q] /\ \A k \in known'[q] : Calmly(k)
    BY <2>1, <2>3, KnownVouched DEF Calmly, Mild, Vouched, stores
  <2> QED  BY <2>1, <2>2, <2>3, <2>4, <2>5, WorldStep DEF QueryInv, Domains
<1> QED  BY <1>1, <1>2, <1>3, <1>4, <1>5 DEF Next

LEMMA QueryKept == Spec => []QueryInv
  BY QueryInit, QueryStep, PTL DEF Spec

\* However samplers, key rotations and any number of querying processes overtake
\* each other, capture an id anew and die: what can be read of a record is of that
\* id, and of its last capture unless a rewriting overlapped with a capture.
THEOREM RecordsStayCaptured == Spec => []CapturedFieldsKept
<1>1. ASSUME QueryInv PROVE CapturedFieldsKept
  <2> SUFFICES ASSUME NEW id \in Stored
               PROVE  /\ meta[id].ts \in {NoTime} \cup {At(id, n) : n \in 1..shot[id]}
                      /\ meta[id].text \in {NoText} \cup
                             IF id \in Filmed THEN {Extracted(id, n) : n \in 1..shot[id]}
                             ELSE Titles
                      /\ id \notin mixed =>
                           /\ meta[id].ts = At(id, Latest(id))
                           /\ id \in Filmed => meta[id].text \in {NoText, Extracted(id, Latest(id))}
    BY DEF CapturedFieldsKept
  <2>1. Proper(id, meta[id])
    BY <1>1, TextAssumption DEF QueryInv, WorldInv, StoresInv, Readable, Stored
  <2> QED  BY <2>1 DEF Proper, Own, Captured
<1> QED  BY <1>1, QueryKept, PTL

\* Finding nothing means that there is nothing: a query that extracted fewer records
\* than it may and finds none leaves out no record that was stored when it was
\* asked, for any number of processes that extract the same records meanwhile.
THEOREM NothingIsOverlooked == Spec => []NothingFoundNothingThere
<1>1. ASSUME QueryInv PROVE NothingFoundNothingThere
  <2> SUFFICES ASSUME NEW p \in Queriers, pc[p] = "answered", results[p] = {},
                      processed[p] < Limit, AllowExtract, NEW id \in known[p],
                      meta[id] \in Record, Within(meta[id], window[p]), Shows(id, query[p])
               PROVE  FALSE
    BY DEF NothingFoundNothingThere
  <2>1. ~Relevant(p, id)
    BY <1>1 DEF QueryInv, UserInv, NothingMissed
  <2>2. Relevant(p, id)
    BY <1>1, ReadVouched, TextAssumption
  <2> QED  BY <2>1, <2>2
<1> QED  BY <1>1, QueryKept, PTL

----------------------------------------------------------------------------
(* The windows of time phrases.                                            *)

LEMMA Quotient ==
    ASSUME NEW a \in Int
    PROVE  /\ a \div Day \in Int
           /\ (a \div Day) * Day <= a /\ a < (a \div Day) * Day + Day
  BY TimeAssumption

\* The days until n are over at the wall time n * Day.
LEMMA DayBegins ==
    ASSUME NEW a \in Int, NEW n \in Int
    PROVE  n <= a \div Day <=> n * Day <= a
<1>1. PICK q \in Int : q = a \div Day /\ q * Day <= a /\ a < q * Day + Day
  BY Quotient
<1>2. PICK m \in Int : m = n * Day
  BY TimeAssumption
<1>3. ASSUME n <= q PROVE m <= q * Day
  <2>1. (q - n) * Day >= 0 /\ (q - n) * Day = q * Day - n * Day
    BY <1>3, TimeAssumption
  <2> QED  BY <1>2, <2>1, TimeAssumption
<1>4. ASSUME ~(n <= q) PROVE q * Day + Day <= m
  <2>1. (n - (q + 1)) * Day >= 0 /\ (n - (q + 1)) * Day = n * Day - q * Day - Day
    BY <1>4, TimeAssumption
  <2> QED  BY <1>2, <2>1, TimeAssumption
<1>5. q * Day \in Int /\ Day \in Int
  BY TimeAssumption
<1> QED  BY <1>1, <1>2, <1>3, <1>4, <1>5

\* A day begins at the instant its midnight is taken to be, also where midnight is
\* skipped or comes twice.
LEMMA MidnightBeginsDay ==
    ASSUME NEW z \in Zones, NEW n \in Int, NEW t \in Int
    PROVE  /\ Instant(z, n * Day, 0) \in Int
           /\ Instant(z, n * Day, 0) <= t <=> n <= DateOf(z, t)
<1>1. PICK at \in Int, before \in Int, after \in Int :
        at = z.at /\ before = z.before /\ after = z.after
  BY TimeAssumption
<1>2. PICK m \in Int : m = n * Day
  BY TimeAssumption
<1>3. /\ ~(at + before < m /\ m < at + after)
      /\ ~(at + after < m /\ m < at + before)
  <2>1. /\ at + before < at + after => (at + after - 1) \div Day = (at + before) \div Day
        /\ at + after < at + before => (at + before - 1) \div Day = (at + after) \div Day
    BY <1>1, TimeAssumption
  <2>2. /\ n <= (at + before) \div Day <=> m <= at + before
        /\ n <= (at + after) \div Day <=> m <= at + after
        /\ n <= (at + before - 1) \div Day <=> m <= at + before - 1
        /\ n <= (at + after - 1) \div Day <=> m <= at + after - 1
    BY <1>2, DayBegins
  <2> QED  BY <2>1, <2>2
<1>4. PICK start \in Int :
        /\ start = Instant(z, m, 0)
        /\ start = IF (m - before < at) # (m - after >= at)
                   THEN IF m - before < at THEN m - before ELSE m - after
                   ELSE m - before
  BY <1>1 DEF Instant
<1>5. PICK wall \in Int : wall = Wall(z, t) /\ wall = t + (IF t < at THEN before ELSE after)
  BY <1>1 DEF Wall, Offset
<1>6. start <= t <=> m <= wall
  BY <1>3, <1>4, <1>5
<1>7. n <= DateOf(z, t) <=> m <= wall
  BY <1>2, <1>5, DayBegins DEF DateOf
<1> QED  BY <1>2, <1>4, <1>6, <1>7

LEMMA WindowIsDays ==
    ASSUME NEW z \in Zones, NEW first \in Int, NEW last \in Int, NEW w,
           w = Window(Instant(z, first * Day, 0), Instant(z, (last + 1) * Day, 0))
    PROVE  IsDays(w, z, first, last)
<1> SUFFICES ASSUME NEW t \in Instants
             PROVE  (w.start <= t /\ t < w.end) <=> DateOf(z, t) \in first..last
  BY DEF IsDays
<1>1. t \in Int
  BY TimeAssumption
<1>2. PICK a \in Int, b \in Int :
        /\ a = w.start /\ b = w.end
        /\ a <= t <=> first <= DateOf(z, t)
        /\ b <= t <=> last + 1 <= DateOf(z, t)
  BY <1>1, MidnightBeginsDay DEF Window
<1>3. Wall(z, t) \in Int
  BY <1>1, TimeAssumption DEF Wall, Offset
<1>4. DateOf(z, t) \in Int
  BY <1>3, Quotient DEF DateOf
<1> QED  BY <1>1, <1>2, <1>4

\* A text with one phrase, and what the parser makes of it.
Only(phrase, arg) == [p \in {phrase} |-> arg]

LEMMA PhraseHeard ==
    ASSUME NEW i \in 1..4, NEW arg
    PROVE  Heard(Only(Phrases[i], arg)) = i
<1>1. DOMAIN Phrases = 1..7
  BY DEF Phrases
<1>2. \A j, k \in 1..7 : Phrases[j] = Phrases[k] => j = k
  BY DEF Phrases
<1>3. DOMAIN Only(Phrases[i], arg) = {Phrases[i]}
  BY DEF Only
<1>4. \A k \in DOMAIN Phrases :
        (Phrases[k] \in {Phrases[i]} /\ \A j \in 1..(k - 1) : Phrases[j] \notin {Phrases[i]})
        <=> k = i
  BY <1>1, <1>2
<1> QED  BY <1>1, <1>3, <1>4 DEF Heard

LEMMA PhraseParsed ==
    ASSUME NEW arg, NEW now, NEW z
    PROVE  /\ Parse(Only("today", arg), now, z, 0)
                = Window(DaysAfter(z, now, 0), DaysAfter(z, now, 1))
           /\ Parse(Only("yesterday", arg), now, z, 0)
                = Window(DaysAfter(z, now, -1), DaysAfter(z, now, 0))
           /\ Parse(Only("tomorrow", arg), now, z, 0)
                = Window(DaysAfter(z, now, 1), DaysAfter(z, now, 2))
           /\ Parse(Only("between", arg), now, z, 0)
                = Window(Instant(z, arg[1] * Day, 0), Instant(z, (arg[2] + 1) * Day, 0))
<1>1. /\ Phrases[1] = "today" /\ Phrases[2] = "yesterday" /\ Phrases[3] = "tomorrow"
      /\ Phrases[4] = "between"
  BY DEF Phrases
<1>2. /\ Heard(Only("today", arg)) = 1 /\ Heard(Only("yesterday", arg)) = 2
      /\ Heard(Only("tomorrow", arg)) = 3 /\ Heard(Only("between", arg)) = 4
  <2>1. /\ Heard(Only(Phrases[1], arg)) = 1 /\ Heard(Only(Phrases[2], arg)) = 2
        /\ Heard(Only(Phrases[3], arg)) = 3 /\ Heard(Only(Phrases[4], arg)) = 4
    <3>1. 1 \in 1..4 /\ 2 \in 1..4 /\ 3 \in 1..4 /\ 4 \in 1..4
      OBVIOUS
    <3> QED  BY <3>1, PhraseHeard
  <2> QED  BY <1>1, <2>1
<1>3. \A x : DOMAIN Only(x, arg) # {} /\ Only(x, arg)[x] = arg
  BY DEF Only
<1>4. Parse(Only("today", arg), now, z, 0)
        = Window(DaysAfter(z, now, 0), DaysAfter(z, now, 1))
  BY <1>1, <1>2, <1>3 DEF Parse
<1>5. Parse(Only("yesterday", arg), now, z, 0)
        = Window(DaysAfter(z, now, -1), DaysAfter(z, now, 0))
  BY <1>1, <1>2, <1>3 DEF Parse
<1>6. Parse(Only("tomorrow", arg), now, z, 0)
        = Window(DaysAfter(z, now, 1), DaysAfter(z, now, 2))
  BY <1>1, <1>2, <1>3 DEF Parse
<1>7. Parse(Only("between", arg), now, z, 0)
        = Window(Instant(z, arg[1] * Day, 0), Instant(z, (arg[2] + 1) * Day, 0))
  BY <1>1, <1>2, <1>3 DEF Parse
<1> QED  BY <1>4, <1>5, <1>6, <1>7

LEMMA LocalDaysAlways ==
    ASSUME NEW z \in Zones, NEW now \in Instants
    PROVE  LocalDays(z, now)
<1> DEFINE parse(phrase, arg) == Parse(Only(phrase, arg), now, z, 0)
<1>1. PICK d \in Int : d = DateOf(z, now)
  <2>1. Wall(z, now) \in Int
    BY TimeAssumption DEF Wall, Offset
  <2> QED  BY <2>1, Quotient DEF DateOf
<1>2. ASSUME Fold(z, now) = 0, NEW n \in -1..2
      PROVE  DaysAfter(z, now, n) = Instant(z, (d + n) * Day, 0)
  <2>1. d * Day + n * Day = (d + n) * Day
    BY <1>1, TimeAssumption
  <2> QED  BY <1>1, <1>2, <2>1 DEF DaysAfter, Midnight
<1>3. /\ parse("today", 0) = Window(DaysAfter(z, now, 0), DaysAfter(z, now, 1))
      /\ parse("yesterday", 0) = Window(DaysAfter(z, now, -1), DaysAfter(z, now, 0))
      /\ parse("tomorrow", 0) = Window(DaysAfter(z, now, 1), DaysAfter(z, now, 2))
  BY PhraseParsed
<1>4. ASSUME Fold(z, now) = 0
      PROVE  /\ IsDays(parse("today", 0), z, d, d)
             /\ IsDays(parse("yesterday", 0), z, d - 1, d - 1)
             /\ IsDays(parse("tomorrow", 0), z, d + 1, d + 1)
  <2>1. /\ DaysAfter(z, now, -1) = Instant(z, (d - 1) * Day, 0)
        /\ DaysAfter(z, now, 0) = Instant(z, d * Day, 0)
        /\ DaysAfter(z, now, 1) = Instant(z, (d + 1) * Day, 0)
        /\ DaysAfter(z, now, 2) = Instant(z, (d + 2) * Day, 0)
    <3>1. d + -1 = d - 1 /\ d + 0 = d
      BY <1>1
    <3> QED  BY <1>2, <1>4, <3>1
  <2>2. d - 1 \in Int /\ d + 1 \in Int /\ d - 1 + 1 = d /\ d + 1 + 1 = d + 2
    BY <1>1
  <2>3. IsDays(parse("today", 0), z, d, d)
    <3>1. PICK w : w = parse("today", 0)
      OBVIOUS
    <3>2. w = Window(Instant(z, d * Day, 0), Instant(z, (d + 1) * Day, 0))
      BY <1>3, <2>1, <2>2, <3>1
    <3>3. IsDays(w, z, d, d)
      BY <1>1, <2>2, <3>2, WindowIsDays
    <3> QED  BY <3>1, <3>3
  <2>4. IsDays(parse("yesterday", 0), z, d - 1, d - 1)
    <3>1. PICK w : w = parse("yesterday", 0)
      OBVIOUS
    <3>2. w = Window(Instant(z, (d - 1) * Day, 0), Instant(z, (d - 1 + 1) * Day, 0))
      BY <1>3, <2>1, <2>2, <3>1
    <3>3. IsDays(w, z, d - 1, d - 1)
      BY <1>1, <2>2, <3>2, WindowIsDays
    <3> QED  BY <3>1, <3>3
  <2>5. IsDays(parse("tomorrow", 0), z, d + 1, d + 1)
    <3>1. PICK w : w = parse("tomorrow", 0)
      OBVIOUS
    <3>2. w = Window(Instant(z, (d + 1) * Day, 0), Instant(z, (d + 1 + 1) * Day, 0))
      BY <1>3, <2>1, <2>2, <3>1
    <3>3. IsDays(w, z, d + 1, d + 1)
      BY <1>1, <2>2, <3>2, WindowIsDays
    <3> QED  BY <3>1, <3>3
  <2> QED  BY <2>3, <2>4, <2>5
<1>5. ASSUME NEW n \in 0..2
      PROVE  IsDays(parse("between", <<d, d + n>>), z, d, d + n)
  <2>1. d + n \in Int /\ <<d, d + n>>[1] = d /\ <<d, d + n>>[2] = d + n
    BY <1>1
  <2>2. PICK arg : arg = <<d, d + n>> /\ arg[1] = d /\ arg[2] = d + n
    BY <2>1
  <2>3. PICK w : w = parse("between", arg)
    OBVIOUS
  <2>4. w = Window(Instant(z, d * Day, 0), Instant(z, (d + n + 1) * Day, 0))
    <3>1. parse("between", arg) = Window(Instant(z, arg[1] * Day, 0), Instant(z, (arg[2] + 1) * Day, 0))
      BY PhraseParsed
    <3> QED  BY <2>2, <2>3, <3>1
  <2>5. IsDays(w, z, d, d + n)
    BY <1>1, <2>1, <2>4, WindowIsDays
  <2> QED  BY <2>2, <2>3, <2>5
<1> QED  BY <1>1, <1>4, <1>5 DEF LocalDays, Only

\* In every zone whose clock changes leave midnights alone, and whenever the user
\* asks, the window of a phrase that names days is those days of the user's
\* calendar, of whatever length (time_advanced's parse).
THEOREM DaysAreTheUsers == Spec => []WindowsAreLocalDays
<1>1. WindowsAreLocalDays
  BY LocalDaysAlways DEF WindowsAreLocalDays, GoodHours
<1> QED  BY <1>1, PTL

=============================================================================
