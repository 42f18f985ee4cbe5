------------------------------- MODULE Query -------------------------------
(***************************************************************************)
(* Queries with on-demand extraction (autocapture_nx/kernel/query.py) over *)
(* a metadata and a media store that a sampler fills and a key rotation    *)
(* rewraps meanwhile, each in a process of its own, any of which may die.  *)
(* The time parser is TimeIntent; retrieval, answer builder and citation   *)
(* validator are the basic plugins.                                        *)
(*                                                                         *)
(* A file is rewritten in two steps, Torn in between, and reading a Torn   *)
(* file raises.  A text is the set of the queries whose wording it         *)
(* contains; a query is not empty.  Every `autocapture run` numbers from 0 *)
(* again and so captures the same ids anew.                                *)
(***************************************************************************)
EXTENDS TimeIntent, FiniteSets

CONSTANTS
    Ids,               \* record ids
    Filmed,            \* the segments; the others are window records
    Shots(_),          \* BOUND on how often an id is captured
    At(_, _),          \* the hour of a capture of an id, by its number
    Titles,            \* what a window record may say: texts, or NoText
    Vision(_, _), Ocr(_, _), \* what the engines read in a capture: a text, NoText or Fails
    Queriers,          \* processes that run queries
    Asks(_),           \* what each asks: queries [wording, said]
    Zone, Tie,         \* the user's time zone and dst_tie_breaker
    Limit,             \* records one query extracts (5 in the code)
    AllowExtract,      \* processing.on_query.allow_decode_extract
    MaxMishaps,        \* BOUND on records captured anew, key rotations and deaths
                       \* of other processes
    Rewrapped,         \* BOUND on the records a rotation gets to
    SamplerKeys,       \* BOUND on the keys a sampler may have
    Absent, Torn, NoText, NoTime, Fails

ASSUME QueryAssumption ==
    /\ Filmed \subseteq Ids /\ Absent \notin Ids
    /\ Limit \in Nat \ {0} /\ MaxMishaps \in Nat
    /\ 0 \in SamplerKeys /\ SamplerKeys \subseteq Nat
    /\ \A id \in Ids : Shots(id) \in Nat /\ \A n \in 1..Shots(id) : At(id, n) \in Int

VARIABLES
    clock,             \* the hour of the last capture
    shot,              \* captures of each id begun
    media,             \* by id: the number of the capture its frames are of
    meta, sealed,      \* by id: the record, and the number of the key it is encrypted with
    capture,           \* the sampler: [id, stage]
    rotation,          \* `keys rotate`: [key, todo, id, held, open]
    mishaps,           \* of the kinds that MaxMishaps bounds
    pc,                \* where each querier is
    query, window,     \* what it asks and where it looks
    ring,              \* the newest key it has
    todo,              \* records it has yet to look at
    current, held,     \* the record being extracted and its old contents
    processed,         \* texts this query extracted
    round,             \* which of the searches
    results,           \* what it found
    known,             \* history: the records an answer without results vouches for
    mixed              \* history: ids captured while someone rewrites them, or in part

local == <<query, window, ring, todo, current, held, processed, round, results>>
stores == <<clock, shot, media, meta, sealed, capture>>
world == <<stores, rotation, mishaps>>
vars == <<world, pc, local, known, mixed>>

Queries == UNION {Asks(p) : p \in Queriers}
Text == {NoText} \cup SUBSET {q.wording : q \in Queries}
Record == [ts : {NoTime} \cup Int, text : Text]
Stored == {id \in Ids : meta[id] \in Record}

\* EncryptedJSONStore.keys
Keys == {id \in Ids : meta[id] # Absent}

\* What extraction makes of a capture's media: vlm.extract, if it raises ocr.extract.
\* Engines hosted in a process of their own, that frames do not reach, are Fails.
Extracted(id, n) == IF Vision(id, n) = Fails THEN Ocr(id, n) ELSE Vision(id, n)

ASSUME TextAssumption ==
    /\ Titles \subseteq Text
    /\ \A id \in Filmed : \A n \in 1..Shots(id) : Extracted(id, n) \in Text \cup {Fails}
    /\ Absent \notin Record /\ Torn \notin Record /\ Absent # Torn
    /\ Absent \notin Nat /\ Torn \notin Nat /\ NoTime \notin Int

\* The capture that the record of id is of, unless it is mixed.
Capturing(id) == capture.stage # "idle" /\ capture.id = id
Latest(id) == IF Capturing(id) THEN shot[id] - 1 ELSE shot[id]

\* A record is being captured anew.
Recapturing == capture.stage # "idle" /\ shot[capture.id] > 1

\* Who read the record of id and will write it back.
Rewriting(id) == rotation.id = id \/ \E p \in Queriers : current[p] = id

\* No answer vouches for id any more.
Unvouched(id) == [p \in Queriers |-> known[p] \ {id}]

Resting == rotation.todo = {} /\ rotation.id = Absent

TypeOK ==
    /\ shot \in [Ids -> Nat]
    /\ \A id \in Ids : /\ media[id] \in {Absent, Torn} \cup 1..shot[id]
                       /\ meta[id] \in {Absent, Torn} \/ meta[id] \in Record
                       /\ sealed[id] \in 0..rotation.key
    /\ capture.stage \in {"idle", "media", "stored", "meta"}
    /\ rotation.key \in 0..mishaps /\ rotation.todo \subseteq Ids
    /\ mishaps \in 0..MaxMishaps /\ mixed \subseteq Ids
    /\ pc \in [Queriers -> {"idle", "search", "extract", "media", "put", "write",
                            "claims", "answered"}]
    /\ \A p \in Queriers : /\ todo[p] \subseteq Ids /\ results[p] \subseteq Ids
                           /\ processed[p] \in 0..Limit /\ round[p] \in 1..2

Init ==
    /\ clock \in {At(id, 1) : id \in Ids} /\ \A id \in Ids : clock <= At(id, 1)
    /\ shot = [id \in Ids |-> 0] /\ media = [id \in Ids |-> Absent]
    /\ meta = [id \in Ids |-> Absent] /\ sealed = [id \in Ids |-> 0]
    /\ capture = [id |-> Absent, stage |-> "idle"]
    /\ rotation = [key |-> 0, todo |-> {}, id |-> Absent, held |-> Absent, open |-> FALSE]
    /\ mishaps = 0 /\ mixed = {}
    /\ pc = [p \in Queriers |-> "idle"] /\ ring = [p \in Queriers |-> 0]
    /\ query = [p \in Queriers |-> Absent] /\ window = [p \in Queriers |-> None]
    /\ todo = [p \in Queriers |-> {}] /\ current = [p \in Queriers |-> Absent]
    /\ held = [p \in Queriers |-> Absent] /\ processed = [p \in Queriers |-> 0]
    /\ round = [p \in Queriers |-> 1] /\ results = [p \in Queriers |-> {}]
    /\ known = [p \in Queriers |-> {}]

----------------------------------------------------------------------------
(* The world around the queries.                                           *)

\* A sampler stores the media of the next segment, then its record, each in two
\* steps; of a window only the record.  Its key is the newest of when its process
\* began.
CaptureMedia ==
    /\ capture.stage = "idle"
    /\ \E id \in Ids :
         /\ shot[id] < Shots(id)
         /\ \A other \in Ids : shot[other] < Shots(other) =>
                At(id, shot[id] + 1) <= At(other, shot[other] + 1)
         /\ mishaps' = mishaps + (IF shot[id] = 0 THEN 0 ELSE 1) /\ mishaps' <= MaxMishaps
         /\ clock' = At(id, shot[id] + 1) /\ shot' = [shot EXCEPT ![id] = @ + 1]
         /\ capture' = [id |-> id, stage |-> IF id \in Filmed THEN "media" ELSE "stored"]
         /\ media' = [media EXCEPT ![id] = IF id \in Filmed THEN Torn ELSE Absent]
         /\ mixed' = IF Rewriting(id) THEN mixed \cup {id} ELSE mixed
         /\ known' = Unvouched(id)
    /\ UNCHANGED <<meta, sealed, rotation, pc, local>>

MediaStored ==
    /\ capture.stage = "media"
    /\ media' = [media EXCEPT ![capture.id] = shot[capture.id]]
    /\ capture' = [capture EXCEPT !.stage = "stored"]
    /\ UNCHANGED <<clock, shot, meta, sealed, rotation, mishaps, pc, local, known, mixed>>

CaptureRecord ==
    /\ capture.stage = "stored"
    /\ meta' = [meta EXCEPT ![capture.id] = Torn]
    /\ capture' = [capture EXCEPT !.stage = "meta"]
    /\ UNCHANGED <<clock, shot, media, sealed, rotation, mishaps, pc, local, known, mixed>>

\* The record as captured: that of a segment has no text yet.
Fresh(id) ==
    [ts : {At(id, shot[id])}, text : IF id \in Filmed THEN {NoText} ELSE Titles]

\* What a file may hold after value is written into it by one of two writers that
\* have it open: over a longer text of the other the end of that text stays.  A
\* record is longer with its text than without; others may be either.
Written(file, value) ==
    IF file \notin Record \/ file = value \/ (file.ts = value.ts /\ file.text = NoText)
    THEN {value}
    ELSE IF file.ts = value.ts /\ value.text = NoText THEN {Torn} ELSE {value, Torn}

\* Writing back what was read before the capture may still be to come.
RecordStored ==
    /\ capture.stage = "meta"
    /\ \E r \in Fresh(capture.id) : \E v \in Written(meta[capture.id], r) :
         meta' = [meta EXCEPT ![capture.id] = v]
    /\ \E key \in SamplerKeys \cap 0..rotation.key : sealed' = [sealed EXCEPT ![capture.id] = key]
    /\ mixed' = IF Rewriting(capture.id) THEN mixed \cup {capture.id} ELSE mixed \ {capture.id}
    /\ capture' = [id |-> Absent, stage |-> "idle"]
    /\ UNCHANGED <<clock, shot, media, rotation, mishaps, pc, local, known>>

\* A sampler is a daemon thread: the end of its process cuts it short.
SamplerKilled ==
    /\ capture.stage # "idle" /\ mishaps < MaxMishaps
    /\ mixed' = mixed \cup {capture.id}
    /\ capture' = [id |-> Absent, stage |-> "idle"]
    /\ mishaps' = mishaps + 1
    /\ UNCHANGED <<clock, shot, media, meta, sealed, rotation, pc, local, known>>

\* rotate_keys: a new key, then EncryptedJSONStore.rotate.  (The media follow; what
\* that changes for a query that began before is left open in Readings.)
RotateKeys ==
    /\ Resting /\ mishaps < MaxMishaps /\ mishaps' = mishaps + 1
    /\ rotation' = [rotation EXCEPT !.key = @ + 1, !.todo = Keys \cap Rewrapped]
    /\ known' = [p \in Queriers |-> {}]
    /\ UNCHANGED <<stores, pc, local, mixed>>

\* get and put of one record after the other.
RotateGet ==
    /\ rotation.id = Absent
    /\ \E id \in rotation.todo :
         /\ meta[id] # Torn
         /\ rotation' = [rotation EXCEPT !.id = id, !.held = meta[id], !.todo = @ \ {id}]
         /\ mixed' = IF Capturing(id) THEN mixed \cup {id} ELSE mixed
         /\ known' = Unvouched(id)
    /\ UNCHANGED <<stores, mishaps, pc, local>>

RotateTear ==
    /\ rotation.id # Absent /\ ~rotation.open
    /\ meta' = [meta EXCEPT ![rotation.id] = Torn]
    /\ rotation' = [rotation EXCEPT !.open = TRUE]
    /\ UNCHANGED <<clock, shot, media, sealed, capture, mishaps, pc, local, known, mixed>>

RotatePut ==
    /\ rotation.open
    /\ \E v \in Written(meta[rotation.id], rotation.held) :
         meta' = [meta EXCEPT ![rotation.id] = v]
    /\ sealed' = [sealed EXCEPT ![rotation.id] = rotation.key]
    /\ rotation' = [rotation EXCEPT !.id = Absent, !.held = Absent, !.open = FALSE]
    /\ UNCHANGED <<clock, shot, media, capture, mishaps, pc, local, known, mixed>>

RotationOver ==
    rotation' = [rotation EXCEPT !.todo = {}, !.id = Absent, !.held = Absent, !.open = FALSE]

\* Nothing catches what get raises of a Torn record.
RotateFails ==
    /\ rotation.id = Absent /\ \E id \in rotation.todo : meta[id] = Torn
    /\ RotationOver
    /\ UNCHANGED <<stores, mishaps, pc, local, known, mixed>>

RotationKilled ==
    /\ ~Resting
    /\ RotationOver
    /\ UNCHANGED <<stores, mishaps, pc, local, known, mixed>>

----------------------------------------------------------------------------
(* run_query.                                                              *)

Set(f, p, value) == [f EXCEPT ![p] = value]

\* A new query, in a process of its own that loads the keyring: the parser, then the
\* keys of the first search.  Earlier results are gone.
Ask(p, q) ==
    /\ pc[p] \in {"idle", "answered"}
    /\ query' = Set(query, p, q)
    /\ window' = Set(window, p, Parse(q.said, clock, Zone, Tie))
    /\ ring' = Set(ring, p, rotation.key)
    /\ known' = Set(known, p, {id \in Stored \ mixed : ~Capturing(id) /\ rotation.id # id})
    /\ todo' = Set(todo, p, Keys) /\ results' = Set(results, p, {}) /\ round' = Set(round, p, 1)
    /\ processed' = Set(processed, p, 0)
    /\ pc' = Set(pc, p, "search")
    /\ UNCHANGED <<world, current, held, mixed>>

Ended(p) ==
    /\ pc' = Set(pc, p, "idle") /\ query' = Set(query, p, Absent)
    /\ window' = Set(window, p, None) /\ ring' = Set(ring, p, 0)
    /\ todo' = Set(todo, p, {}) /\ current' = Set(current, p, Absent)
    /\ held' = Set(held, p, Absent) /\ processed' = Set(processed, p, 0)
    /\ round' = Set(round, p, 1) /\ results' = Set(results, p, {})
    /\ known' = Set(known, p, {})

\* Reading a Torn file: nothing catches what json.load raises.
Fail(p) ==
    /\ \/ pc[p] \in {"search", "extract", "claims"} /\ \E id \in todo[p] : meta[id] = Torn
       \/ pc[p] = "media" /\ media[current[p]] = Torn
    /\ Ended(p)
    /\ UNCHANGED <<world, mixed>>

\* Its process dies, in the middle of a write if it is at one.
Killed(p) ==
    /\ pc[p] \notin {"idle", "answered"} /\ mishaps < MaxMishaps
    /\ Ended(p)
    /\ mishaps' = mishaps + 1
    /\ UNCHANGED <<stores, rotation, mixed>>

\* EncryptedJSONStore.get with the caller's default, {}: a record encrypted with a key
\* that the process has not got is {}, without a time and a text.
Read(p, id) == IF sealed[id] > ring[p] THEN [ts |-> NoTime, text |-> NoText] ELSE meta[id]

Inside(t, w) == w.start <= t /\ t <= w.end

\* RetrievalStrategy.search of one record.  It compares times as strings, which
\* order as the instants do, all being isoformat in UTC; without one a record
\* passes.
Matches(r, q, w) ==
    /\ r.text # NoText /\ q.wording \in r.text
    /\ w = None \/ r.ts = NoTime \/ Inside(r.ts, w)

SearchOne(p) ==
    /\ pc[p] = "search"
    /\ \E id \in todo[p] :
         /\ meta[id] # Torn
         /\ todo' = Set(todo, p, todo[p] \ {id})
         /\ results' = Set(results, p, IF Matches(Read(p, id), query[p], window[p])
                                      THEN results[p] \cup {id} ELSE results[p])
    /\ UNCHANGED <<world, pc, query, window, ring, current, held, processed, round, known,
                   mixed>>

\* Nothing was found by the first search: extract_on_demand lists the keys.
ExtractOnDemand(p) ==
    /\ pc[p] = "search" /\ todo[p] = {}
    /\ results[p] = {} /\ round[p] = 1 /\ AllowExtract
    /\ todo' = Set(todo, p, Keys)
    /\ pc' = Set(pc, p, "extract")
    /\ UNCHANGED <<world, query, window, ring, current, held, processed, round, results,
                   known, mixed>>

\* _within_window compares instants, and a record without a time is in no window.
Within(r, w) == w = None \/ (r.ts # NoTime /\ Inside(r.ts, w))

ReadRecord(p) ==
    /\ pc[p] = "extract"
    /\ \E id \in todo[p] :
         /\ meta[id] # Torn
         /\ todo' = Set(todo, p, todo[p] \ {id})
         /\ IF Within(Read(p, id), window[p]) /\ Read(p, id).text = NoText
            THEN /\ current' = Set(current, p, id) /\ held' = Set(held, p, Read(p, id))
                 /\ pc' = Set(pc, p, "media")
                 /\ IF Capturing(id) \/ sealed[id] > ring[p]
                    THEN mixed' = mixed \cup {id} /\ known' = Unvouched(id)
                    ELSE UNCHANGED <<mixed, known>>
            ELSE UNCHANGED <<current, held, pc, mixed, known>>
    /\ UNCHANGED <<world, query, window, ring, processed, round, results>>

\* Mutation of Counted: a record that could not be read counts as well.
CountedAlways(text) == TRUE

\* processed counts the records that got a text.
Counted(text) == text # NoText

\* media.get and the engines.  Of a process that began before a rotation, whether the
\* media is rewrapped yet, so that it cannot read it, is left open.
Readings(p, id) ==
    (IF media[id] = Absent \/ Extracted(id, media[id]) = Fails
     THEN {NoText} ELSE {Extracted(id, media[id])})
    \cup (IF ring[p] < rotation.key THEN {NoText} ELSE {})

\* No media or no text, the next record; otherwise the record of before is to be put
\* back with its text.
ReadMedia(p) ==
    /\ pc[p] = "media" /\ media[current[p]] # Torn
    /\ \E text \in Readings(p, current[p]) :
       LET n == IF Counted(text) THEN processed[p] + 1 ELSE processed[p]
       IN /\ IF text = NoText
             THEN /\ held' = Set(held, p, Absent) /\ current' = Set(current, p, Absent)
                  /\ pc' = Set(pc, p, "extract")
             ELSE /\ held' = Set(held, p, [held[p] EXCEPT !.text = text])
                  /\ pc' = Set(pc, p, "put")
                  /\ UNCHANGED current
          /\ processed' = Set(processed, p, n)
          /\ todo' = IF n >= Limit THEN Set(todo, p, {}) ELSE todo
    /\ UNCHANGED <<world, query, window, ring, round, results, known, mixed>>

TearRecord(p) ==
    /\ pc[p] = "put"
    /\ meta' = [meta EXCEPT ![current[p]] = Torn]
    /\ pc' = Set(pc, p, "write")
    /\ UNCHANGED <<clock, shot, media, sealed, capture, rotation, mishaps, local, known, mixed>>

\* Mutation of Back: the record is stamped with the time of the extraction.
BackStamped(r) == [r EXCEPT !.ts = clock]

\* The record put back: as it was read, with its text.
Back(r) == r

WriteRecord(p) ==
    /\ pc[p] = "write"
    /\ \E v \in Written(meta[current[p]], Back(held[p])) :
         meta' = [meta EXCEPT ![current[p]] = v]
    /\ sealed' = [sealed EXCEPT ![current[p]] = ring[p]]
    /\ held' = Set(held, p, Absent) /\ current' = Set(current, p, Absent)
    /\ pc' = Set(pc, p, "extract")
    /\ UNCHANGED <<clock, shot, media, capture, rotation, mishaps, query, window, ring, todo,
                   processed, round, results, known, mixed>>

\* Mutation of SecondSearch: of the records the extraction left over.
SecondSearchOfRest(p) == todo[p]

\* All keys again.
SecondSearch(p) == Keys

\* All records looked at, or the limit reached (todo is empty then).
SearchAgain(p) ==
    /\ pc[p] = "extract" /\ todo[p] = {}
    /\ todo' = Set(todo, p, SecondSearch(p)) /\ results' = Set(results, p, {})
    /\ round' = Set(round, p, 2)
    /\ pc' = Set(pc, p, "search")
    /\ UNCHANGED <<world, query, window, ring, current, held, processed, known,
                   mixed>>

SearchDone(p) ==
    /\ pc[p] = "search" /\ todo[p] = {}
    /\ results[p] # {} \/ round[p] = 2 \/ ~AllowExtract
    /\ todo' = Set(todo, p, results[p])
    /\ pc' = Set(pc, p, IF results[p] = {} THEN "answered" ELSE "claims")
    /\ UNCHANGED <<world, query, window, ring, current, held, processed, round, results,
                   known, mixed>>

\* Each result is read once more: its text is the claim, cited from 0 to its end.
\* Every citation has its four fields, so that AnswerBuilder.build never raises.
Claim(p) ==
    /\ pc[p] = "claims"
    /\ \E id \in todo[p] :
         /\ meta[id] # Torn
         /\ todo' = Set(todo, p, todo[p] \ {id})
         /\ pc' = Set(pc, p, IF todo[p] = {id} THEN "answered" ELSE "claims")
    /\ UNCHANGED <<world, query, window, ring, current, held, processed, round, results,
                   known, mixed>>

----------------------------------------------------------------------------
Surroundings ==
    \/ CaptureMedia \/ MediaStored \/ CaptureRecord \/ RecordStored \/ SamplerKilled
    \/ RotateKeys \/ RotateGet \/ RotateTear \/ RotatePut \/ RotateFails \/ RotationKilled

Run(p) ==
    \/ Fail(p) \/ SearchOne(p) \/ ExtractOnDemand(p) \/ ReadRecord(p) \/ ReadMedia(p)
    \/ TearRecord(p) \/ WriteRecord(p) \/ SearchAgain(p) \/ SearchDone(p)
    \/ Claim(p)

Next ==
    \/ Surroundings
    \/ \E p \in Queriers : Run(p) \/ Killed(p) \/ \E q \in Asks(p) : Ask(p, q)

Spec == Init /\ [][Next]_vars

\* Queries without a time phrase.
Untimed == {q \in Queries : DOMAIN q.said = {}}

\* While its process lives, who writes a file goes on and a query runs on; and the user
\* keeps asking the untimed queries.
FairSpec ==
    /\ Spec
    /\ WF_vars(MediaStored \/ CaptureRecord \/ RecordStored)
    /\ WF_vars(RotateGet \/ RotateTear \/ RotatePut \/ RotateFails)
    /\ \A p \in Queriers : WF_vars(Run(p))
    /\ \A q \in Untimed : SF_vars(\E p \in Queriers : q \in Asks(p) /\ Ask(p, q))

----------------------------------------------------------------------------
(* Properties.                                                             *)

\* Whenever the user asks, from the last capture on, and wherever: a phrase that
\* names days gives the window of those days by the user's calendar ("DST
\* ambiguity selects wrong hour", docs/autocapture_nx_blueprint_final.md:1189).
WindowsAreLocalDays == \A now \in Instants : now >= clock => now \in GoodHours

\* A record that can be read never has a time or a text of another id.  It is its
\* last capture, with that capture's time and no text but its title or what that
\* capture's media shows, whichever process wrote it last and however old the
\* contents it had read (query.py:67-68 puts back what it read before extracting),
\* unless the capture overlapped with a rewriting of the record or was cut short.
CapturedFieldsKept ==
    \A id \in Stored :
        /\ meta[id].ts \in {NoTime} \cup {At(id, n) : n \in 1..shot[id]}
        /\ meta[id].text \in {NoText} \cup
               IF id \in Filmed THEN {Extracted(id, n) : n \in 1..shot[id]} ELSE Titles
        /\ id \notin mixed =>
             /\ meta[id].ts = At(id, Latest(id))
             /\ id \in Filmed => meta[id].text \in {NoText, Extracted(id, Latest(id))}

\* What a reader of the record, or of its media, would see.
Content(id) == IF id \in Filmed THEN Extracted(id, Latest(id)) ELSE meta[id].text
Shows(id, q) == Content(id) \notin {Fails, NoText} /\ q.wording \in Content(id)

\* Finding nothing means that there is nothing: when a query that extracted fewer
\* records than it may answers without a result, no record that was stored when
\* it was asked, in its window, shows the wording, however many others extract the
\* same records meanwhile.  (Of a record that is captured anew or rewrapped
\* meanwhile, an extracted text may be overwritten; and who began before a
\* rotation may not read what it rewraps.)
NothingFoundNothingThere ==
    \A p \in Queriers :
        pc[p] = "answered" /\ results[p] = {} /\ processed[p] < Limit /\ AllowExtract =>
            \A id \in known[p] : meta[id] \in Record /\ Within(meta[id], window[p])
                                => ~Shows(id, query[p])

\* A file that was truncated and that nobody writes any more, or whose writers left
\* the end of a longer text.
Orphaned ==
    \E id \in Ids :
        \/ meta[id] = Torn /\ ~(capture.stage = "meta" /\ capture.id = id)
             /\ ~(rotation.open /\ rotation.id = id)
             /\ \A p \in Queriers : ~(pc[p] = "write" /\ current[p] = id)
        \/ media[id] = Torn /\ ~(capture.stage = "media" /\ capture.id = id)

\* "Crash tolerance: on restart, journals and partially written segments are
\* recoverable" (docs/autocapture_nx_blueprint_final.md:610): a torn file is put
\* right some time.
TornIsRepaired == Orphaned ~> ~Orphaned

\* "Local evidence is stored as immutable 'atoms'. Derived artifacts are additive."
\* (docs/autocapture_nx_blueprint_final.md:518): a record that is stored is not
\* written again.
RecordsAreImmutable == [][\A id \in Stored : meta'[id] = meta[id]]_vars

\* Who keeps asking is answered: once a record that shows the wording is stored,
\* some query without a time window finds something, although each extracts few
\* records, many cannot be read, and keys are rotated, unless records are captured
\* anew or a file stays torn.
AskedAgainItIsFound ==
    \A q \in Untimed :
        (\E id \in Stored \ mixed : Shows(id, q))
            ~> \/ \E p \in Queriers : pc[p] = "answered" /\ query[p] = q /\ results[p] # {}
               \/ Recapturing \/ Orphaned

\* "queries must trigger targeted on-demand extraction so recent activity remains
\* searchable" (docs/autocapture_nx_blueprint_final.md:46): an answer has every
\* record that was stored when it was asked, in its window, and shows the wording.
RecentActivityIsFound ==
    \A p \in Queriers :
        pc[p] = "answered" /\ processed[p] < Limit /\ AllowExtract =>
            \A id \in known[p] : meta[id] \in Record /\ Within(meta[id], window[p])
                                => (Shows(id, query[p]) => id \in results[p])

============================================================================
