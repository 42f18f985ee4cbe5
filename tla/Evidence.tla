------------------------------ MODULE Evidence ------------------------------
(***************************************************************************)
(* `autocapture run`: the sampling threads that turn what happens on the   *)
(* screen, the audio devices and the window manager into stored evidence   *)
(* with a journal, a ledger and anchors, and the main thread that starts   *)
(* and stops them (cli.py cmd_run).                                        *)
(*                                                                         *)
(*   capture   plugins/builtin/capture_windows                             *)
(*   audio     plugins/builtin/audio_windows                               *)
(*   window    plugins/builtin/window_metadata_windows                     *)
(*                                                                         *)
(* A thread handles one sample at a time, by writing to the sinks of its   *)
(* Plan in order.  The process may die between any two writes, and inside  *)
(* one: the stores rewrite files in place.  A second process, `autocapture *)
(* keys rotate`, rewraps every stored file in place, one put after the     *)
(* other, and then appends to the same ledger and anchor files.            *)
(*                                                                         *)
(* Contents are abstracted to the process run ("boot") they come from; the *)
(* keys they are encrypted under are in Vault.                             *)
(* When a segment is full is up to the clock, so any moment will do.       *)
(***************************************************************************)
EXTENDS LedgerFile, FiniteSets

CONSTANTS
    RunProc, CliProc,  \* the processes of `run` and of `keys rotate`
    Overlap,           \* whether the two may be alive at the same time
    IOFaults,          \* whether a thread may die of an exception of its own
    Absent,            \* no file
    MaxBoots,          \* BOUND on the processes started in a behaviour
    MaxSamples         \* BOUND on the samples begun by one process

Samplers == {"capture", "audio", "window"}
Stores == {"media", "meta"}

ASSUME EvidenceAssumption ==
    /\ Procs = {RunProc, CliProc} /\ RunProc # CliProc
    /\ Overlap \in BOOLEAN /\ IOFaults \in BOOLEAN
    /\ MaxBoots \in Nat /\ MaxSamples \in Nat

Boots == 1..MaxBoots
\* A stored file: the boot its content is of, and the process that has truncated
\* it and not written it yet (0: it is whole).
File == [boot : Boots, torn : 0..MaxBoots]
Ids == Samplers \X (0..MaxSamples)
Job == [kind : {"sample", "critical"}, step : 0..5, open : BOOLEAN]
Event == [kind : {"sample", "critical"}, seq : Nat, boot : Boots]
Entry == [kind : {"sample", "critical", "rotation"}, seq : Nat, boot : Boots]

ASSUME AbsentAssumption == Absent \notin File

VARIABLES
    boots,             \* processes started so far
    main,              \* the main thread: [at, next, joining, boot]
    taken,             \* samples begun by this process (for the bound)
    phase,             \* [Samplers -> none, loop, job or dead]
    stop,              \* [Samplers -> the thread's stop Event is set]
    seq,               \* [Samplers -> the thread's sequence counter]
    job,               \* [Samplers -> [kind, step, open]: the sample being written]
    store,             \* [Stores -> [Samplers -> [sequence -> Absent or File]]]
    journal,           \* [Samplers -> its events of journal.ndjson, in file order]
    cli                \* the `keys rotate` process: [at, boot, todo, step, file, held]

threadVars == <<phase, stop, seq, job>>
vars == <<boots, main, taken, threadVars, store, journal, cli, ledgerVars>>

\* A sample, or a disk alert, about to go to the k-th sink of its plan.
At(kind, k) == [kind |-> kind, step |-> k, open |-> FALSE]
NoJob == At("sample", 0)

NoId == <<"capture", 0>>
NoCli == [at |-> "off", boot |-> 0, todo |-> {}, step |-> "next", file |-> NoId, held |-> 0]

TypeOK ==
    /\ LedgerTypeOK(Entry)
    /\ boots \in 0..MaxBoots
    /\ main \in [at : {"down", "starting", "running", "stopping"},
                 next : 1..3, joining : BOOLEAN, boot : 0..MaxBoots]
    /\ taken \in 0..MaxSamples
    /\ phase \in [Samplers -> {"none", "loop", "job", "dead"}]
    /\ stop \in [Samplers -> BOOLEAN]
    /\ seq \in [Samplers -> 0..MaxSamples]
    /\ job \in [Samplers -> Job]
    /\ store \in [Stores -> [Samplers -> [0..MaxSamples -> File \cup {Absent}]]]
    /\ journal \in [Samplers -> Seq(Event)]
    /\ cli \in [at : {"off", "open", "recorded"} \cup Stores, boot : 0..MaxBoots,
                todo : SUBSET Ids, step : {"next", "got", "open"},
                file : Ids, held : 0..MaxBoots]

Init ==
    /\ LedgerInit
    /\ boots = 0
    /\ main = [at |-> "down", next |-> 1, joining |-> FALSE, boot |-> 0]
    /\ taken = 0
    /\ phase = [t \in Samplers |-> "none"]
    /\ stop = [t \in Samplers |-> FALSE]
    /\ seq = [t \in Samplers |-> 0]
    /\ job = [t \in Samplers |-> NoJob]
    /\ store = [s \in Stores |-> [t \in Samplers |-> [n \in 0..MaxSamples |-> Absent]]]
    /\ journal = [t \in Samplers |-> << >>]
    /\ cli = NoCli

----------------------------------------------------------------------------
(* The sinks a sample goes through, in the order of the code.              *)

\* Mutation of Plan: the segment is recorded before it is stored.
PlanLedgerFirst(t, kind) ==
    CASE kind = "critical" -> <<"journal", "ledger", "anchor">>
      [] kind = "sample" /\ t = "capture" -> <<"journal", "ledger", "anchor", "media", "meta">>
      [] kind = "sample" /\ t = "audio" -> <<"journal", "media">>
      [] kind = "sample" /\ t = "window" -> <<"journal", "meta">>

\* Mutation of Plan: the segment is in the ledger before it is in the journal.
PlanJournalLast(t, kind) ==
    CASE kind = "critical" -> <<"journal", "ledger", "anchor">>
      [] kind = "sample" /\ t = "capture" -> <<"media", "meta", "ledger", "journal", "anchor">>
      [] kind = "sample" /\ t = "audio" -> <<"media", "journal">>
      [] kind = "sample" /\ t = "window" -> <<"journal", "meta">>

\* Mutation of Plan: segments are not anchored.
PlanUnanchored(t, kind) ==
    CASE kind = "critical" -> <<"journal", "ledger", "anchor">>
      [] kind = "sample" /\ t = "capture" -> <<"media", "meta", "journal", "ledger">>
      [] kind = "sample" /\ t = "audio" -> <<"media", "journal">>
      [] kind = "sample" /\ t = "window" -> <<"journal", "meta">>

Plan(t, kind) ==
    CASE kind = "critical" -> <<"journal", "ledger", "anchor">>
      [] kind = "sample" /\ t = "capture" -> <<"media", "meta", "journal", "ledger", "anchor">>
      [] kind = "sample" /\ t = "audio" -> <<"media", "journal">>
      [] kind = "sample" /\ t = "window" -> <<"journal", "meta">>

Sink(t) == Plan(t, job[t].kind)[job[t].step]

\* Types of the values in the payload of an event.  The disk event carries
\* free_gb = free / 1024**3, a float.
PayloadTypes(kind) == IF kind = "critical" THEN {"float", "integer"} ELSE {"string", "integer"}

\* canonical_json.dumps refuses floats; the journal and the ledger call it.
Canonical(kind) == "float" \notin PayloadTypes(kind)

\* The thread is over, and its locals with it (the kind of sample it was at is
\* kept for the properties).
ThreadEnds(t) ==
    /\ phase' = [phase EXCEPT ![t] = "dead"]
    /\ seq' = [seq EXCEPT ![t] = 0]
    /\ job' = [job EXCEPT ![t] = At(job[t].kind, 0)]

\* Mutation of Counted: the sample is counted twice.
CountedTwice(t) == seq[t] + 2
\* sequence += 1
Counted(t) == seq[t] + 1

\* The thread is done with a sink.  After the last one of a sample it counts
\* the sample and loops; after the last one of a disk alert it stops.
Advance(t) ==
    IF job[t].step < Len(Plan(t, job[t].kind))
    THEN /\ job' = [job EXCEPT ![t] = At(job[t].kind, job[t].step + 1)]
         /\ UNCHANGED <<phase, seq, stop>>
    ELSE IF job[t].kind = "sample"
    THEN /\ job' = [job EXCEPT ![t] = NoJob]
         /\ seq' = [seq EXCEPT ![t] = Counted(t)]
         /\ phase' = [phase EXCEPT ![t] = "loop"]
         /\ UNCHANGED stop
    ELSE /\ stop' = [stop EXCEPT ![t] = TRUE]
         /\ ThreadEnds(t)

Writing(t, sink) == phase[t] = "job" /\ Sink(t) = sink

----------------------------------------------------------------------------
(* The sampling threads.                                                   *)

\* A segment is full and the disk is not (capture), a block of audio arrives,
\* another window has the focus.
SampleDue(t) ==
    /\ phase[t] = "loop" /\ ~stop[t]
    /\ taken < MaxSamples
    /\ taken' = taken + 1
    /\ phase' = [phase EXCEPT ![t] = "job"]
    /\ job' = [job EXCEPT ![t] = At("sample", 1)]
    /\ UNCHANGED <<boots, main, stop, seq, store, journal, cli, ledgerVars>>

\* _check_disk finds less than critical_free_gb.
DiskCritical ==
    /\ phase["capture"] = "loop" /\ ~stop["capture"]
    /\ phase' = [phase EXCEPT !["capture"] = "job"]
    /\ job' = [job EXCEPT !["capture"] = At("critical", 1)]
    /\ UNCHANGED <<boots, main, taken, stop, seq, store, journal, cli, ledgerVars>>

\* The file of id <<t, n>> in store s is open for writing, by its sampler or by
\* the rotation.
SamplerAt(s, t, n) == Writing(t, s) /\ job[t].open /\ seq[t] = n
RotationAt(s, t, n) == cli.at = s /\ cli.step = "open" /\ cli.file = <<t, n>>

\* What torn may be after a write: with a second process at the file (p), what
\* the two write may end up mixed.
TornAfter(mixed, p) == IF mixed THEN {0, p} ELSE {0}

\* storage.media.put and storage.metadata.put: truncate, then write.
BeginPut(t, s) ==
    /\ Writing(t, s) /\ ~job[t].open
    /\ store' = [store EXCEPT ![s][t][seq[t]] = [boot |-> main.boot, torn |-> main.boot]]
    /\ job' = [job EXCEPT ![t].open = TRUE]
    /\ UNCHANGED <<boots, main, taken, phase, stop, seq, journal, cli, ledgerVars>>

EndPut(t, s) ==
    /\ Writing(t, s) /\ job[t].open
    /\ \E torn \in TornAfter(RotationAt(s, t, seq[t]), cli.boot) :
          store' = [store EXCEPT ![s][t][seq[t]] = [boot |-> main.boot, torn |-> torn]]
    /\ Advance(t)
    /\ UNCHANGED <<boots, main, taken, journal, cli, ledgerVars>>

\* The event and the entry of a sample carry its sequence; those of the disk
\* alert a literal 0.
Record(t) ==
    [kind |-> job[t].kind, seq |-> IF job[t].kind = "sample" THEN seq[t] ELSE 0,
     boot |-> main.boot]

\* JournalWriter.append.
JournalAppend(t) ==
    /\ Writing(t, "journal") /\ Canonical(job[t].kind)
    /\ journal' = [journal EXCEPT ![t] = Append(@, Record(t))]
    /\ Advance(t)
    /\ UNCHANGED <<boots, main, taken, store, cli, ledgerVars>>

AppendToLedger(t) ==
    /\ Writing(t, "ledger") /\ Canonical(job[t].kind)
    /\ LedgerAppend(RunProc, Record(t))
    /\ Advance(t)
    /\ UNCHANGED <<boots, main, taken, store, journal, cli>>

AnchorLedger(t) ==
    /\ Writing(t, "anchor")
    /\ AnchorHead(RunProc)
    /\ Advance(t)
    /\ UNCHANGED <<boots, main, taken, store, journal, cli>>

\* CanonicalJSONError, which nothing catches, ends the thread.
NotCanonical(t) ==
    /\ \E sink \in {"journal", "ledger"} : Writing(t, sink) /\ ~Canonical(job[t].kind)
    /\ ThreadEnds(t)
    /\ UNCHANGED <<boots, main, taken, stop, store, journal, cli, ledgerVars>>

\* The thread sees its stop flag.
Quit(t) ==
    /\ phase[t] = "loop" /\ stop[t]
    /\ ThreadEnds(t)
    /\ UNCHANGED <<boots, main, taken, stop, store, journal, cli, ledgerVars>>

\* Any other uncaught exception (a full disk, a device that went away).  In the
\* audio callback it ends the stream; the thread then only waits for its flag.
SamplerFails(t) ==
    /\ IOFaults
    /\ phase[t] \in {"loop", "job"}
    /\ ThreadEnds(t)
    /\ UNCHANGED <<boots, main, taken, stop, store, journal, cli, ledgerVars>>

Sampler(t) ==
    \/ SampleDue(t)
    \/ \E s \in Stores : BeginPut(t, s) \/ EndPut(t, s)
    \/ JournalAppend(t) \/ AppendToLedger(t) \/ AnchorLedger(t)
    \/ NotCanonical(t) \/ Quit(t) \/ SamplerFails(t)

----------------------------------------------------------------------------
(* cmd_run: boot, start the samplers in Order, wait, stop them in Order.   *)

Order == <<"capture", "audio", "window">>

\* The process ends and takes its daemon threads with it.
Gone ==
    /\ main' = [at |-> "down", next |-> 1, joining |-> FALSE, boot |-> 0]
    /\ taken' = 0
    /\ phase' = [t \in Samplers |-> "none"]
    /\ stop' = [t \in Samplers |-> FALSE]
    /\ seq' = [t \in Samplers |-> 0]
    /\ job' = [t \in Samplers |-> NoJob]

Boot ==
    /\ main.at = "down"
    /\ Overlap \/ cli.at = "off"
    /\ boots < MaxBoots
    /\ boots' = boots + 1
    /\ main' = [at |-> "starting", next |-> 1, joining |-> FALSE, boot |-> boots + 1]
    /\ OpenWriters(RunProc)
    /\ UNCHANGED <<taken, threadVars, store, journal, cli>>

\* start() of the next sampler: a new thread, whose sequence begins at 0.
StartSampler ==
    /\ main.at = "starting"
    /\ LET t == Order[main.next]
       IN /\ phase' = [phase EXCEPT ![t] = "loop"]
          /\ stop' = [stop EXCEPT ![t] = FALSE]
          /\ seq' = [seq EXCEPT ![t] = 0]
    /\ main' = IF main.next < 3
               THEN [main EXCEPT !.next = @ + 1]
               ELSE [main EXCEPT !.at = "running", !.next = 1]
    /\ UNCHANGED <<boots, taken, job, store, journal, cli, ledgerVars>>

\* Ctrl+C.
Interrupt ==
    /\ main.at = "running"
    /\ main' = [main EXCEPT !.at = "stopping"]
    /\ UNCHANGED <<boots, taken, threadVars, store, journal, cli, ledgerVars>>

\* stop(), first half: set the flag and wait for the thread.
SetStop ==
    /\ main.at = "stopping" /\ ~main.joining
    /\ stop' = [stop EXCEPT ![Order[main.next]] = TRUE]
    /\ main' = [main EXCEPT !.joining = TRUE]
    /\ UNCHANGED <<boots, taken, phase, seq, job, store, journal, cli, ledgerVars>>

\* What the wait for sampler t's thread may end on: its death, or five seconds.
\* Mutation of JoinReturns: join() without a timeout.
JoinForever(t) == phase[t] = "dead"
JoinReturns(t) == phase[t] = "dead" \/ phase[t] \in {"loop", "job"}

\* stop(), second half; after the last sampler the process exits.
Joined ==
    /\ main.at = "stopping" /\ main.joining
    /\ JoinReturns(Order[main.next])
    /\ IF main.next < 3
       THEN /\ main' = [main EXCEPT !.next = @ + 1, !.joining = FALSE]
            /\ UNCHANGED <<taken, threadVars>>
       ELSE Gone
    /\ UNCHANGED <<boots, store, journal, cli, ledgerVars>>

\* The process is killed, or start() of a later sampler raises and ends it.
Crash ==
    /\ main.at # "down"
    /\ Gone
    /\ UNCHANGED <<boots, store, journal, cli, ledgerVars>>

----------------------------------------------------------------------------
(* `autocapture keys rotate`: every file of the metadata store and then of *)
(* the media store is read and put back, and the ledger told.              *)

CliBoot ==
    /\ cli.at = "off"
    /\ Overlap \/ main.at = "down"
    /\ boots < MaxBoots
    /\ boots' = boots + 1
    /\ cli' = [NoCli EXCEPT !.at = "open", !.boot = boots + 1]
    /\ OpenWriters(CliProc)
    /\ UNCHANGED <<main, taken, threadVars, store, journal>>

CliDone == cli.todo = {} /\ cli.step = "next"

\* rotate of a store: the list of its files, in any order.
CliList(s) ==
    /\ cli.at = (IF s = "meta" THEN "open" ELSE "meta") /\ CliDone
    /\ cli' = [cli EXCEPT !.at = s,
                          !.todo = {k \in Ids : store[s][k[1]][k[2]] # Absent}]
    /\ UNCHANGED <<boots, main, taken, threadVars, store, journal, ledgerVars>>

\* get of the next file, which must be whole.
CliGet ==
    /\ cli.at \in Stores /\ cli.step = "next"
    /\ \E k \in cli.todo :
         /\ store[cli.at][k[1]][k[2]].torn = 0
         /\ cli' = [cli EXCEPT !.todo = @ \ {k}, !.step = "got", !.file = k,
                               !.held = store[cli.at][k[1]][k[2]].boot]
    /\ UNCHANGED <<boots, main, taken, threadVars, store, journal, ledgerVars>>

\* json.load raises at a file that is not; nothing catches it.
CliFails ==
    /\ cli.at \in Stores /\ cli.step = "next"
    /\ \E k \in cli.todo : store[cli.at][k[1]][k[2]].torn # 0
    /\ cli' = NoCli
    /\ UNCHANGED <<boots, main, taken, threadVars, store, journal, ledgerVars>>

\* put of what was read: truncate ...
CliTear ==
    /\ cli.at \in Stores /\ cli.step = "got"
    /\ store' = [store EXCEPT ![cli.at][cli.file[1]][cli.file[2]].torn = cli.boot]
    /\ cli' = [cli EXCEPT !.step = "open"]
    /\ UNCHANGED <<boots, main, taken, threadVars, journal, ledgerVars>>

\* ... and write.
CliPut ==
    /\ cli.at \in Stores /\ cli.step = "open"
    /\ LET t == cli.file[1]
           n == cli.file[2]
       IN \E torn \in TornAfter(SamplerAt(cli.at, t, n), main.boot) :
            store' = [store EXCEPT ![cli.at][t][n] = [boot |-> cli.held, torn |-> torn]]
    /\ cli' = [cli EXCEPT !.step = "next", !.file = NoId, !.held = 0]
    /\ UNCHANGED <<boots, main, taken, threadVars, journal, ledgerVars>>

\* Mutation of Rewrapped: the ledger is told when the last file is under way.
RewrappedAlmost == cli.at = "media" /\ cli.todo = {}
Rewrapped == cli.at = "media" /\ CliDone

CliRecord ==
    /\ Rewrapped
    /\ LedgerAppend(CliProc, [kind |-> "rotation", seq |-> 0, boot |-> cli.boot])
    /\ cli' = [cli EXCEPT !.at = "recorded"]
    /\ UNCHANGED <<boots, main, taken, threadVars, store, journal>>

CliAnchor ==
    /\ cli.at = "recorded"
    /\ AnchorHead(CliProc)
    /\ cli' = NoCli
    /\ UNCHANGED <<boots, main, taken, threadVars, store, journal>>

\* The process is killed, in a put or between two.
CliCrash ==
    /\ cli.at # "off"
    /\ cli' = NoCli
    /\ UNCHANGED <<boots, main, taken, threadVars, store, journal, ledgerVars>>

Rotation ==
    \/ CliBoot \/ \E s \in Stores : CliList(s)
    \/ CliGet \/ CliFails \/ CliTear \/ CliPut
    \/ CliRecord \/ CliAnchor \/ CliCrash

----------------------------------------------------------------------------

Stopping == SetStop \/ Joined

Next ==
    \/ \E t \in Samplers : Sampler(t)
    \/ DiskCritical
    \/ Boot \/ StartSampler \/ Interrupt \/ Stopping \/ Crash
    \/ Rotation

Spec == Init /\ [][Next]_vars

\* The main thread runs, and its joins time out.  Nothing is assumed of the
\* samplers, which may hang in a device call.
FairSpec == Spec /\ WF_vars(Stopping)

----------------------------------------------------------------------------
(* Properties.                                                             *)

\* The file of sample n of t in store s is of boot b or a later one (a later boot
\* reuses the id), and no write of boot b is unfinished in it.
Holds(s, t, n, b) ==
    LET f == store[s][t][n]
    IN f # Absent /\ f.boot >= b /\ f.torn # b

\* A file that is cut off is the last its writer wrote: the sampler went on to no
\* event after it, the rotation to no other file and not to the ledger.
LastWrite(s, t, n) ==
    LET p == store[s][t][n].torn
        same(r, u, m) == store[r][u][m] # Absent /\ store[r][u][m].torn = p
    IN IF p = store[s][t][n].boot
       THEN \A i \in DOMAIN journal[t] : journal[t][i].boot = p =>
              journal[t][i].seq < n \/ (t = "window" /\ journal[t][i].seq = n)
       ELSE /\ \A i \in DOMAIN ledger : ledger[i].body.boot # p
            /\ \A r \in Stores, u \in Samplers : \A m \in 0..MaxSamples :
                 same(r, u, m) => r = s /\ u = t /\ m = n

\* Nothing but the death of a later writer in the middle of a write damages what
\* was stored, and each does so to one file at most.
Kept(s, t, n, b) ==
    Holds(s, t, n, b) /\ (store[s][t][n].torn # 0 => LastWrite(s, t, n))

\* A ledger entry never cites evidence that was not there: its media and its
\* metadata were stored in full before the entry was written (_flush_segment),
\* and only a later process that dies in a put (the next run's of the same id, a
\* rotation's) can have cut one of them off since.
LedgerCitesStoredEvidence ==
    \A i \in DOMAIN ledger :
        LET e == ledger[i].body
        IN e.kind = "sample" => \A s \in Stores : Kept(s, "capture", e.seq, e.boot)

\* An event of the journal is backed by what its thread stores: by all of it
\* once the thread has gone on to its next sample, and by what comes before the
\* journal in its plan from the start.  The window sampler journals first: the
\* last event of a boot may lack its record for good.
JournalBackedByEvidence ==
    \A t \in Samplers : \A i \in DOMAIN journal[t] :
        LET e == journal[t][i]
            goneOn == \E j \in DOMAIN journal[t] : j > i /\ journal[t][j].boot = e.boot
        IN e.kind = "sample" =>
             \A s \in Stores :
                 \/ t = "audio" /\ s = "meta"
                 \/ t = "window" /\ s = "media"
                 \/ t = "window" /\ s = "meta" /\ ~goneOn
                 \/ Kept(s, t, e.seq, e.boot)

\* A reader of the journal can tell that no sample is missing: those of one
\* thread in one boot are numbered 0, 1, 2, ...
JournalGapless ==
    \A t \in Samplers : \A i \in DOMAIN journal[t] :
        LET e == journal[t][i]
            before == {j \in 1..(i - 1) : journal[t][j].boot = e.boot /\ journal[t][j].kind = "sample"}
        IN e.kind = "sample" => e.seq = Cardinality(before)

\* The ledger and the journal agree: what the ledger has, the journal had before
\* it, and an event the ledger does not have is the last one of its boot.
LedgerFollowsJournal ==
    LET capture == journal["capture"]
        inLedger(e) == \E i \in DOMAIN ledger : ledger[i].body = e
    IN /\ \A i \in DOMAIN ledger : ledger[i].body.kind # "rotation" =>
              \E j \in DOMAIN capture : capture[j] = ledger[i].body
       /\ \A j \in DOMAIN capture : inLedger(capture[j]) \/
              \A k \in DOMAIN capture : k > j => capture[k].boot # capture[j].boot

\* Only the last line a process wrote before it ended can lack its anchor.
UnanchoredOnlyAtTheEnd ==
    \A i \in DOMAIN ledger :
        (\E a \in DOMAIN anchors : anchors[a].head = i) \/
        \A j \in DOMAIN ledger : j > i => ledger[j].body.boot # ledger[i].body.boot

\* Ctrl+C ends the process, whatever the samplers do.
StopTerminates == main.at = "stopping" ~> main.at = "down"

\* "[views] do not mutate or remove local evidence" (docs/
\* autocapture_nx_blueprint_final.md:248): evidence once stored stays as it is.
EvidenceNeverOverwritten ==
    [][\A s \in Stores, t \in Samplers : \A n \in 0..MaxSamples :
          (store[s][t][n] # Absent /\ store[s][t][n].torn = 0)
              => store'[s][t][n] = store[s][t][n]]_vars

\* "Local evidence is stored as immutable atoms" (docs/
\* autocapture_nx_blueprint_final.md:518): what the ledger cites is whole.
CitedEvidenceIsWhole ==
    \A i \in DOMAIN ledger :
        LET e == ledger[i].body
        IN e.kind = "sample" => \A s \in Stores : store[s]["capture"][e.seq].torn = 0

\* "Capture never stops silently" (docs/autocapture_nx_blueprint_final.md:25): a
\* capture thread that ended on a full disk has left the disk.critical event.
CriticalStopIsRecorded ==
    (phase["capture"] = "dead" /\ job["capture"].kind = "critical") =>
        \E j \in DOMAIN journal["capture"] :
            /\ journal["capture"][j].kind = "critical"
            /\ journal["capture"][j].boot = main.boot

============================================================================
