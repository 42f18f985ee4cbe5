--------------------------- MODULE EvidenceProofs ---------------------------
(***************************************************************************)
(* For any number of boots and samples, and crashes anywhere: journal,     *)
(* ledger and anchors agree on what was captured, with one process of a    *)
(* kind or two at once.  With one at a time (~Overlap) the stores have it, *)
(* whatever rotations have put back in place; and there is one chain.      *)
(***************************************************************************)
EXTENDS Evidence, LedgerLines, FiniteSetTheorems, TLAPS

\* The stores a sampler writes, and its place in the plan of the journal.
Keeps(t) == IF t = "capture" THEN Stores ELSE IF t = "audio" THEN {"media"} ELSE {"meta"}
JournalStep(t) == IF t = "capture" THEN 3 ELSE IF t = "audio" THEN 2 ELSE 1

Live(t) == phase[t] \in {"loop", "job"}
Sampling(t) == phase[t] = "job" /\ job[t].kind = "sample"
Journaled(t) == Sampling(t) /\ job[t].step > JournalStep(t)

InLedger(e) == \E i \in DOMAIN ledger : ledger[i].body = e
Anchored(i) == \E a \in DOMAIN anchors : anchors[a].head = i

LastOfBoot(t, i) == \A j \in DOMAIN journal[t] : j > i => journal[t][j].boot # journal[t][i].boot
LastLine(i) == \A j \in DOMAIN ledger : j > i => ledger[j].body.boot # ledger[i].body.boot

\* Events of t of the process that is up, and of one boot before the i-th.
OfBoot(t) == {j \in DOMAIN journal[t] : journal[t][j].boot = main.boot}
Earlier(t, i) == {j \in 1..(i - 1) : journal[t][j].boot = journal[t][i].boot
                                     /\ journal[t][j].kind = "sample"}

\* All that t stores of its i-th event is there.  (A rotation beside a run may
\* put back what it read before.)
StoredAll(t, i) ==
    ~Overlap => \A s \in Keeps(t) : Holds(s, t, journal[t][i].seq, journal[t][i].boot)

\* The thread is done with its i-th event.
Complete(t, i) == StoredAll(t, i) /\ (t = "capture" => InLedger(journal[t][i]))

EventsInv(t) ==
    \A i \in DOMAIN journal[t] :
        /\ journal[t][i].kind = "sample" /\ journal[t][i].seq \in 0..MaxSamples
        /\ journal[t][i].boot <= boots
        /\ main.at # "down" => journal[t][i].boot <= main.boot
        /\ cli.at # "off" => journal[t][i].boot # cli.boot
        /\ t # "window" => StoredAll(t, i)
        /\ Complete(t, i) \/ LastOfBoot(t, i)
        /\ journal[t][i].seq = Cardinality(Earlier(t, i))

FilesInv(t) ==
    ~Overlap => \A s \in Stores : \A n \in 0..MaxSamples :
        store[s][t][n] # Absent =>
            /\ store[s][t][n].boot <= boots
            /\ main.at # "down" => store[s][t][n].boot <= main.boot

\* The events of the process that is up, and the counter that numbers them.
CountInv(t) ==
    /\ OfBoot(t) # {} => phase[t] # "none"
    /\ Live(t) => Cardinality(OfBoot(t)) = IF Journaled(t) THEN seq[t] + 1 ELSE seq[t]
    /\ Live(t) => \A i \in OfBoot(t) :
         \/ journal[t][i].seq < seq[t] /\ Complete(t, i)
         \/ Journaled(t) /\ journal[t][i].seq = seq[t] /\ LastOfBoot(t, i)

\* A sink the sample has been through has it.
Passed(t, k) ==
    LET sink == Plan(t, "sample")[k]
    IN /\ sink \in Stores /\ ~Overlap => store[sink][t][seq[t]] = [boot |-> main.boot, torn |-> 0]
       /\ sink = "journal" => \E i \in DOMAIN journal[t] : journal[t][i] = Record(t)
       /\ sink = "ledger" => InLedger(Record(t))

JobInv(t) ==
    /\ Live(t) => main.at # "down" /\ seq[t] <= taken
    /\ phase[t] = "job" /\ job[t].kind = "critical" =>
         t = "capture" /\ job[t].step = 1 /\ ~job[t].open
    /\ Sampling(t) =>
         /\ seq[t] < taken
         /\ job[t].step \in 1..Len(Plan(t, "sample"))
         /\ \A k \in 1..(job[t].step - 1) : Passed(t, k)

ThreadInv(t) == EventsInv(t) /\ FilesInv(t) /\ CountInv(t) /\ JobInv(t)

MainInv ==
    /\ main.at = "down" => main.boot = 0 /\ \A t \in Samplers : phase[t] = "none"
    /\ main.at # "down" => main.boot \in 1..boots
    /\ main.at = "starting" => \A k \in main.next..3 : phase[Order[k]] = "none"
    /\ cli.at # "off" => cli.boot \in 1..boots /\ cli.boot # main.boot

\* The rotation is at files that are there, and writes back what they hold.
CliInv ==
    /\ cli.at \in Stores => \A k \in cli.todo : store[cli.at][k[1]][k[2]] # Absent
    /\ cli.step # "next" =>
         /\ cli.at \in Stores /\ cli.held \in Boots
         /\ store[cli.at][cli.file[1]][cli.file[2]] # Absent
         /\ ~Overlap => store[cli.at][cli.file[1]][cli.file[2]].boot = cli.held
    /\ ~Overlap => main.at = "down" \/ cli.at = "off"

\* The rotation has not told the ledger yet.
Unrecorded == cli.at \in {"open"} \cup Stores

\* Lines of the process that is up: anchored, but for the one at hand.
LinesInv ==
    /\ \A i \in DOMAIN ledger :
         /\ ledger[i].body.boot <= boots
         /\ ledger[i].body.kind # "rotation" =>
              \E j \in DOMAIN journal["capture"] : journal["capture"][j] = ledger[i].body
         /\ Unrecorded => ledger[i].body.boot # cli.boot
         /\ Anchored(i) \/ LastLine(i)
    /\ \A i \in DOMAIN ledger : ledger[i].body.boot = main.boot =>
         /\ phase["capture"] # "none"
         /\ Live("capture") =>
              \/ Anchored(i)
              \/ Sampling("capture") /\ job["capture"].step = 5 /\ head[RunProc] = i

EvidenceInv ==
    /\ TypeOK /\ MainInv /\ CliInv /\ LinesInv
    /\ \A t \in Samplers : ThreadInv(t)

----------------------------------------------------------------------------
(* The plans, and what a step does to a thread.                            *)

LEMMA Plans ==
    /\ Plan("capture", "sample") = <<"media", "meta", "journal", "ledger", "anchor">>
    /\ Plan("audio", "sample") = <<"media", "journal">>
    /\ Plan("window", "sample") = <<"journal", "meta">>
    /\ \A t : Plan(t, "critical") = <<"journal", "ledger", "anchor">>
  BY DEF Plan

\* Which sink stands where, for each sampler.
LEMMA Sinks ==
    ASSUME NEW t \in Samplers
    PROVE  LET plan == Plan(t, "sample")
           IN /\ Len(plan) = (IF t = "capture" THEN 5 ELSE 2)
              /\ JournalStep(t) \in 1..Len(plan)
              /\ \A k \in 1..Len(plan) :
                   /\ plan[k] \in Stores \cup {"journal", "ledger", "anchor"}
                   /\ plan[k] = "journal" <=> k = JournalStep(t)
                   /\ plan[k] = "ledger" <=> t = "capture" /\ k = 4
                   /\ plan[k] = "anchor" <=> t = "capture" /\ k = 5
                   /\ plan[k] \in Stores => plan[k] \in Keeps(t)
                   /\ plan[k] \in Stores /\ k > JournalStep(t) => t = "window"
                   /\ \A j \in 1..Len(plan) : plan[k] = plan[j] => k = j
              /\ \A s \in Keeps(t) : s \in Stores /\ \E k \in 1..Len(plan) :
                   plan[k] = s /\ (t # "window" => k < JournalStep(t))
<1>1. CASE t = "capture"
  <2>1. /\ Plan(t, "sample") = <<"media", "meta", "journal", "ledger", "anchor">>
        /\ Len(Plan(t, "sample")) = 5 /\ JournalStep(t) = 3 /\ Keeps(t) = {"media", "meta"}
    BY <1>1, Plans DEF JournalStep, Keeps, Stores
  <2> QED  BY <1>1, <2>1 DEF Stores
<1>2. CASE t = "audio"
  <2>1. /\ Plan(t, "sample") = <<"media", "journal">>
        /\ Len(Plan(t, "sample")) = 2 /\ JournalStep(t) = 2 /\ Keeps(t) = {"media"}
    BY <1>2, Plans DEF JournalStep, Keeps
  <2> QED  BY <1>2, <2>1 DEF Stores
<1>3. CASE t = "window"
  <2>1. /\ Plan(t, "sample") = <<"journal", "meta">>
        /\ Len(Plan(t, "sample")) = 2 /\ JournalStep(t) = 1 /\ Keeps(t) = {"meta"}
    BY <1>3, Plans DEF JournalStep, Keeps
  <2> QED  BY <1>3, <2>1 DEF Stores
<1> QED  BY <1>1, <1>2, <1>3 DEF Samplers

\* What the two kinds of payload are made of.
LEMMA Kinds == Canonical("sample") /\ ~Canonical("critical")
  BY DEF Canonical, PayloadTypes

\* A sampler that gets through with a sink is at a sample.
LEMMA AtSink ==
    ASSUME TypeOK, NEW t \in Samplers, JobInv(t), NEW sink, Writing(t, sink),
           sink \in Stores \cup {"anchor"} \/ Canonical(job[t].kind)
    PROVE  /\ Sampling(t) /\ Live(t)
           /\ job[t].step \in 1..Len(Plan(t, "sample"))
           /\ Plan(t, "sample")[job[t].step] = sink
           /\ Sink(t) = sink
<1>1. job[t].kind \in {"sample", "critical"}
  BY DEF TypeOK, Job
<1>2. job[t].kind # "critical"
  <2> SUFFICES ASSUME job[t].kind = "critical"
               PROVE  FALSE
    OBVIOUS
  <2>1. job[t].step = 1
    BY DEF JobInv, Writing
  <2>2. sink = "journal"
    BY <2>1, Plans DEF Writing, Sink
  <2> QED  BY <2>2, Kinds DEF Stores
<1> QED  BY <1>1, <1>2 DEF Writing, Sampling, Live, JobInv, Sink

\* What the model makes of jobs and files.
LEMMA JobsAt ==
    /\ \A kind, k : At(kind, k).kind = kind /\ At(kind, k).step = k /\ At(kind, k).open = FALSE
    /\ \A kind \in {"sample", "critical"}, k \in 0..5 : At(kind, k) \in Job
    /\ NoJob.kind = "sample" /\ NoJob \in Job
<1>1. FALSE \in BOOLEAN /\ 0 \in 0..5
  OBVIOUS
<1>2. \A kind, k : At(kind, k).kind = kind /\ At(kind, k).step = k /\ At(kind, k).open = FALSE
  BY Zenon DEF At
<1>3. \A kind \in {"sample", "critical"}, k \in 0..5 : At(kind, k) \in Job
  BY <1>1, Zenon DEF At, Job
<1> QED  BY <1>1, <1>2, <1>3, Zenon DEF NoJob

LEMMA OpenSet ==
    ASSUME NEW j \in Job, NEW b
    PROVE  LET o == [j EXCEPT !.open = b]
           IN o.kind = j.kind /\ o.step = j.step /\ o.open = b /\ (b \in BOOLEAN => o \in Job)
  BY DEF Job

LEMMA Opened ==
    ASSUME NEW j \in Job
    PROVE  LET o == [j EXCEPT !.open = TRUE]
           IN o.kind = j.kind /\ o.step = j.step /\ o.open = TRUE /\ o \in Job
<1>1. TRUE \in BOOLEAN
  OBVIOUS
<1> QED  BY <1>1, OpenSet, Zenon

\* A stored file, and what the stores may hold.
LEMMA FileAt ==
    ASSUME TypeOK, NEW s \in Stores, NEW t \in Samplers, NEW n \in 0..MaxSamples,
           store[s][t][n] # Absent
    PROVE  /\ store[s][t][n] \in File /\ store[s][t][n].boot \in Boots
           /\ store[s][t][n].boot \in Nat /\ store[s][t][n].torn \in 0..MaxBoots
<1>1. store[s] \in [Samplers -> [0..MaxSamples -> File \cup {Absent}]]
  BY DEF TypeOK
<1>2. store[s][t] \in [0..MaxSamples -> File \cup {Absent}]
  BY <1>1
<1>3. store[s][t][n] \in File
  BY <1>2
<1> QED  BY <1>3 DEF File, Boots

\* How Advance moves a sample: to the next sink, or to the next sample.
LEMMA Advances ==
    ASSUME TypeOK, NEW t \in Samplers, JobInv(t), Sampling(t), Advance(t)
    PROVE  /\ phase' \in [Samplers -> {"none", "loop", "job", "dead"}]
           /\ job' \in [Samplers -> Job]
           /\ seq' \in [Samplers -> 0..MaxSamples]
           /\ stop' = stop
           /\ \A u \in Samplers \ {t} :
                phase'[u] = phase[u] /\ job'[u] = job[u] /\ seq'[u] = seq[u]
           /\ \/ /\ job[t].step < Len(Plan(t, "sample"))
                 /\ phase' = phase /\ seq' = seq
                 /\ job'[t] = At("sample", job[t].step + 1)
              \/ /\ job[t].step = Len(Plan(t, "sample"))
                 /\ phase'[t] = "loop" /\ seq'[t] = seq[t] + 1
<1>1. /\ job[t].kind = "sample"
      /\ seq[t] < taken /\ taken \in 0..MaxSamples /\ MaxSamples \in Nat
      /\ seq[t] \in 0..MaxSamples
  BY EvidenceAssumption DEF JobInv, Sampling, TypeOK
<1>2. PICK n \in 1..5 : Len(Plan(t, "sample")) = n
  BY Sinks
<1>3. PICK k \in 1..n : job[t].step = k
  BY <1>2 DEF JobInv
<1>4. /\ job \in [Samplers -> Job] /\ seq \in [Samplers -> 0..MaxSamples]
      /\ phase \in [Samplers -> {"none", "loop", "job", "dead"}]
  BY DEF TypeOK
<1>5. CASE k < n
  <2>1. job' = [job EXCEPT ![t] = At("sample", k + 1)] /\ UNCHANGED <<phase, seq, stop>>
    BY <1>1, <1>2, <1>3, <1>5 DEF Advance
  <2>2. At("sample", k + 1) \in Job
    BY <1>5, JobsAt
  <2> QED  BY <1>2, <1>3, <1>4, <1>5, <2>1, <2>2
<1>6. CASE ~(k < n)
  <2>1. /\ job' = [job EXCEPT ![t] = NoJob] /\ seq' = [seq EXCEPT ![t] = seq[t] + 1]
        /\ phase' = [phase EXCEPT ![t] = "loop"] /\ stop' = stop
    BY <1>1, <1>2, <1>3, <1>6 DEF Advance, Counted
  <2>2. seq[t] + 1 \in 0..MaxSamples
    BY <1>1
  <2>3. k = n
    BY <1>6
  <2> QED  BY <1>2, <1>3, <1>4, <2>1, <2>2, <2>3, JobsAt
<1> QED  BY <1>5, <1>6

----------------------------------------------------------------------------
(* What a step keeps of a thread it does not move.                         *)

LEMMA EventTypes ==
    ASSUME TypeOK, NEW t \in Samplers
    PROVE  /\ journal[t] \in Seq(Event)
           /\ Len(journal[t]) \in Nat /\ DOMAIN journal[t] = 1..Len(journal[t])
           /\ \A i \in DOMAIN journal[t] :
                /\ journal[t][i] \in Event
                /\ journal[t][i].kind \in {"sample", "critical"}
                /\ journal[t][i].seq \in Nat /\ journal[t][i].boot \in Boots
<1>1. journal[t] \in Seq(Event)
  BY DEF TypeOK
<1>2. \A i \in DOMAIN journal[t] : journal[t][i] \in Event
  BY <1>1
<1>3. \A e \in Event : e.kind \in {"sample", "critical"} /\ e.seq \in Nat /\ e.boot \in Boots
  BY DEF Event
<1> QED  BY <1>1, <1>2, <1>3

LEMMA EventsStay ==
    ASSUME TypeOK, NEW t \in Samplers, EventsInv(t), journal'[t] = journal[t],
           \A i \in DOMAIN journal[t] : StoredAll(t, i) => StoredAll(t, i)',
           \A e : InLedger(e) => InLedger(e)',
           boots' \in Nat, boots <= boots',
           main'.at # "down" => (main.at # "down" /\ main'.boot = main.boot) \/ main'.boot = boots',
           cli'.at # "off" => (cli.at # "off" /\ cli'.boot = cli.boot) \/ cli'.boot = boots + 1
    PROVE  EventsInv(t)'
<1> SUFFICES ASSUME NEW i \in DOMAIN journal[t]
             PROVE  /\ journal[t][i].kind = "sample" /\ journal[t][i].seq \in 0..MaxSamples
                    /\ journal[t][i].boot <= boots'
                    /\ main'.at # "down" => journal[t][i].boot <= main'.boot
                    /\ cli'.at # "off" => journal[t][i].boot # cli'.boot
                    /\ t # "window" => StoredAll(t, i)'
                    /\ Complete(t, i)' \/ LastOfBoot(t, i)'
                    /\ journal[t][i].seq = Cardinality(Earlier(t, i))'
  BY DEF EventsInv
<1>1. journal[t][i].boot \in Nat /\ boots \in Nat /\ journal[t][i].seq \in 0..MaxSamples
  BY EventTypes DEF TypeOK, EventsInv, Boots
<1>2. StoredAll(t, i) => StoredAll(t, i)'
  OBVIOUS
<1>3. Complete(t, i) => Complete(t, i)'
  BY <1>2 DEF Complete
<1>4. LastOfBoot(t, i) <=> LastOfBoot(t, i)'
  BY DEF LastOfBoot
<1>5. Earlier(t, i)' = Earlier(t, i)
  BY DEF Earlier
<1>6. Cardinality(Earlier(t, i))' = Cardinality(Earlier(t, i))
  BY <1>5
<1> QED  BY <1>1, <1>2, <1>3, <1>4, <1>6 DEF EventsInv

LEMMA FilesStay ==
    ASSUME TypeOK, NEW t \in Samplers, FilesInv(t),
           \A s \in Stores : store'[s][t] = store[s][t],
           boots' \in Nat, boots <= boots',
           main'.at # "down" => (main.at # "down" /\ main'.boot = main.boot) \/ main'.boot = boots'
    PROVE  FilesInv(t)'
<1> SUFFICES ASSUME NEW s \in Stores, NEW n \in 0..MaxSamples, store[s][t][n] # Absent, ~Overlap
             PROVE  /\ store[s][t][n].boot <= boots'
                    /\ main'.at # "down" => store[s][t][n].boot <= main'.boot
  BY DEF FilesInv
<1>1. store[s][t][n].boot \in Nat /\ boots \in Nat
  BY FileAt DEF TypeOK
<1> QED  BY <1>1 DEF FilesInv

\* Where the files of a thread stay, what it stored stays.
LEMMA StoredStays ==
    ASSUME NEW t \in Samplers, \A s \in Stores : store'[s][t] = store[s][t],
           NEW i, journal'[t][i] = journal[t][i]
    PROVE  StoredAll(t, i)' <=> StoredAll(t, i)
<1>1. \A s \in Stores : \A n, b : Holds(s, t, n, b)' = Holds(s, t, n, b)
  BY DEF Holds
<1>2. Keeps(t) \subseteq Stores
  BY DEF Keeps, Stores
<1> QED  BY <1>1, <1>2 DEF StoredAll

\* A thread that is not moved, or is over; its files may only be rewrapped.
LEMMA ThreadKept ==
    ASSUME TypeOK, NEW t \in Samplers, ThreadInv(t), journal'[t] = journal[t],
           \A i \in DOMAIN journal[t] : StoredAll(t, i) => StoredAll(t, i)',
           FilesInv(t)',
           Live(t)' => Overlap \/ \A s \in Stores : store'[s][t] = store[s][t],
           \A e : InLedger(e) => InLedger(e)',
           boots' \in Nat, boots <= boots',
           main'.at # "down" => (main.at # "down" /\ main'.boot = main.boot) \/ main'.boot = boots',
           cli'.at # "off" => (cli.at # "off" /\ cli'.boot = cli.boot) \/ cli'.boot = boots + 1,
           phase'[t] = "none" => \A i \in DOMAIN journal[t] : journal[t][i].boot # main'.boot,
           Live(t)' => /\ phase'[t] = phase[t] /\ seq'[t] = seq[t] /\ job'[t] = job[t]
                       /\ main'.at # "down" /\ main'.boot = main.boot
                       /\ taken' \in Nat /\ taken <= taken'
    PROVE  ThreadInv(t)'
<1>3. EventsInv(t)'
  BY EventsStay DEF ThreadInv
<1>4. FilesInv(t)'
  OBVIOUS
<1>5. CASE ~Live(t)'
  <2>1. CountInv(t)'
    BY <1>5 DEF CountInv, OfBoot
  <2>2. JobInv(t)'
    BY <1>5 DEF JobInv, Live, Sampling
  <2> QED  BY <1>3, <1>4, <2>1, <2>2 DEF ThreadInv
<1>6. CASE Live(t)'
  <2>1. /\ Live(t) /\ (Sampling(t)' <=> Sampling(t)) /\ (Journaled(t)' <=> Journaled(t))
        /\ phase[t] \in {"loop", "job"} /\ taken \in Nat /\ seq[t] \in Nat
    BY <1>6, EvidenceAssumption DEF Live, Sampling, Journaled, TypeOK
  <2>2. OfBoot(t)' = OfBoot(t)
    BY <1>6 DEF OfBoot
  <2>3. \A i \in DOMAIN journal[t] :
          (Complete(t, i) => Complete(t, i)') /\ (LastOfBoot(t, i) <=> LastOfBoot(t, i)')
    BY DEF Complete, LastOfBoot
  <2>4. CountInv(t)'
    <3>1. OfBoot(t)' # {} => phase'[t] # "none"
      BY <1>6, <2>1
    <3>2. Cardinality(OfBoot(t))' = IF Journaled(t)' THEN seq'[t] + 1 ELSE seq'[t]
      BY <1>6, <2>1, <2>2 DEF CountInv, ThreadInv
    <3>3. ASSUME NEW i \in OfBoot(t)
          PROVE  \/ journal'[t][i].seq < seq'[t] /\ Complete(t, i)'
                 \/ Journaled(t)' /\ journal'[t][i].seq = seq'[t] /\ LastOfBoot(t, i)'
      BY <1>6, <2>1, <2>3 DEF CountInv, ThreadInv, OfBoot
    <3> QED  BY <2>2, <3>1, <3>2, <3>3 DEF CountInv
  <2>5. JobInv(t)'
    <3>1. \A k : Passed(t, k) => Passed(t, k)'
      BY <1>6 DEF Passed, Record
    <3>2. /\ main'.at # "down" /\ seq'[t] <= taken'
          /\ Sampling(t) => seq'[t] < taken'
      BY <1>6, <2>1 DEF JobInv, ThreadInv
    <3> QED  BY <1>6, <2>1, <3>1, <3>2 DEF JobInv, ThreadInv
  <2> QED  BY <1>3, <1>4, <2>4, <2>5 DEF ThreadInv
<1> QED  BY <1>5, <1>6

LEMMA ThreadStays ==
    ASSUME TypeOK, NEW t \in Samplers, ThreadInv(t), journal'[t] = journal[t],
           \A s \in Stores : store'[s][t] = store[s][t],
           \A e : InLedger(e) => InLedger(e)',
           boots' \in Nat, boots <= boots',
           main'.at # "down" => (main.at # "down" /\ main'.boot = main.boot) \/ main'.boot = boots',
           cli'.at # "off" => (cli.at # "off" /\ cli'.boot = cli.boot) \/ cli'.boot = boots + 1,
           phase'[t] = "none" => \A i \in DOMAIN journal[t] : journal[t][i].boot # main'.boot,
           Live(t)' => /\ phase'[t] = phase[t] /\ seq'[t] = seq[t] /\ job'[t] = job[t]
                       /\ main'.at # "down" /\ main'.boot = main.boot
                       /\ taken' \in Nat /\ taken <= taken'
    PROVE  ThreadInv(t)'
<1>1. \A i \in DOMAIN journal[t] : StoredAll(t, i) => StoredAll(t, i)'
  BY StoredStays
<1>2. FilesInv(t)'
  BY FilesStay DEF ThreadInv
<1> QED  BY <1>1, <1>2, ThreadKept

----------------------------------------------------------------------------
(* What a step keeps of the main thread and of the provenance files.       *)

LEMMA ElementOf ==
    ASSUME NEW S, NEW q \in Seq(S), NEW i \in DOMAIN q
    PROVE  q[i] \in S
  OBVIOUS

LEMMA LineTypes ==
    ASSUME TypeOK, NEW i \in DOMAIN ledger
    PROVE  /\ ledger[i].body \in Entry
           /\ ledger[i].body.kind \in {"sample", "critical", "rotation"}
           /\ ledger[i].body.boot \in Boots /\ ledger[i].body.seq \in Nat
<1>1. ledger \in Seq([body : Entry, prev : Nat])
  BY DEF TypeOK, LedgerTypeOK
<1>2. ledger[i] \in [body : Entry, prev : Nat]
  BY <1>1, ElementOf
<1>3. ledger[i].body \in Entry
  BY <1>2
<1> QED  BY <1>3 DEF Entry

LEMMA MainStays ==
    ASSUME TypeOK, MainInv, UNCHANGED <<main, boots, cli>>,
           \A u \in Samplers : phase[u] = "none" => phase'[u] = "none"
    PROVE  MainInv'
<1>1. \A k \in 1..3 : Order[k] \in Samplers
  BY DEF Order, Samplers
<1>2. \A k \in main.next..3 : k \in 1..3
  BY DEF TypeOK
<1>3. ASSUME main.at = "starting", NEW k \in main.next..3
      PROVE  phase'[Order[k]] = "none"
  BY <1>1, <1>2, <1>3 DEF MainInv
<1> QED  BY <1>3 DEF MainInv

\* The lines of a ledger that a step leaves alone.
LEMMA LinesStay ==
    ASSUME TypeOK, LinesInv, ledger' = ledger, anchors' = anchors,
           boots' \in Nat, boots <= boots',
           \A j \in DOMAIN journal["capture"] :
               j \in DOMAIN journal'["capture"] /\ journal'["capture"][j] = journal["capture"][j],
           Unrecorded' => \/ cli' = cli \/ cli'.boot = boots + 1
                          \/ Unrecorded /\ cli'.boot = cli.boot,
           \/ \A i \in DOMAIN ledger : ledger[i].body.boot # main'.boot
           \/ /\ main'.boot = main.boot /\ head'[RunProc] = head[RunProc]
              /\ phase["capture"] # "none" => phase'["capture"] # "none"
              /\ Live("capture")' =>
                   /\ Live("capture")
                   /\ Sampling("capture") /\ job["capture"].step = 5 =>
                        Sampling("capture")' /\ job'["capture"].step = 5
    PROVE  LinesInv'
<1>1. ASSUME NEW i \in DOMAIN ledger
      PROVE  ledger[i].body.boot \in Nat /\ boots \in Nat
  BY LineTypes DEF TypeOK, Boots
<1>2. ASSUME NEW i \in DOMAIN ledger
      PROVE  /\ ledger[i].body.boot <= boots'
             /\ ledger[i].body.kind # "rotation" =>
                  \E j \in DOMAIN journal'["capture"] : journal'["capture"][j] = ledger[i].body
             /\ Unrecorded' => ledger[i].body.boot # cli'.boot
             /\ Anchored(i)' \/ LastLine(i)'
  BY <1>1 DEF LinesInv, Anchored, LastLine, Unrecorded
<1>3. ASSUME NEW i \in DOMAIN ledger, ledger[i].body.boot = main'.boot
      PROVE  /\ phase'["capture"] # "none"
             /\ Live("capture")' =>
                  \/ Anchored(i)'
                  \/ Sampling("capture")' /\ job'["capture"].step = 5 /\ head'[RunProc] = i
  BY <1>3 DEF LinesInv, Anchored
<1> QED  BY <1>2, <1>3 DEF LinesInv

\* A step of sampler t's own.
LEMMA SamplerStep ==
    ASSUME EvidenceInv, NEW t \in Samplers, Live(t), TypeOK', ThreadInv(t)', LinesInv',
           UNCHANGED <<boots, main, cli>>, taken <= taken',
           \A u \in Samplers \ {t} :
               /\ phase'[u] = phase[u] /\ seq'[u] = seq[u] /\ job'[u] = job[u]
               /\ journal'[u] = journal[u]
               /\ \A s \in Stores : store'[s][u] = store[s][u],
           \A s \in Stores, n \in 0..MaxSamples : store[s][t][n] # Absent => store'[s][t][n] # Absent,
           \A e : InLedger(e) => InLedger(e)'
    PROVE  EvidenceInv'
<1>1. \A u \in Samplers : phase[u] = "none" => phase'[u] = "none"
  BY DEF Live
<1>2. MainInv'
  BY <1>1, MainStays DEF EvidenceInv
<1>3. ASSUME NEW u \in Samplers \ {t}
      PROVE  ThreadInv(u)'
  <2>1. /\ TypeOK /\ ThreadInv(u) /\ boots' \in Nat /\ boots <= boots' /\ taken' \in Nat
    BY EvidenceAssumption DEF EvidenceInv, TypeOK
  <2>2. Live(u)' => Live(u) /\ main'.at # "down" /\ main.at # "down"
    BY <1>3 DEF Live, ThreadInv, JobInv, EvidenceInv
  <2>3. phase'[u] = "none" => \A i \in DOMAIN journal[u] : journal[u][i].boot # main'.boot
    BY <1>3, <2>1 DEF ThreadInv, CountInv, OfBoot
  <2>4. main'.at # "down" => main.at # "down" /\ main'.boot = main.boot
    OBVIOUS
  <2>5. cli'.at # "off" => cli.at # "off" /\ cli'.boot = cli.boot
    OBVIOUS
  <2> QED  BY <1>3, <2>1, <2>2, <2>3, <2>4, <2>5, ThreadStays
<1>4. CliInv'
  <2>1. \A s \in Stores, u \in Samplers, n \in 0..MaxSamples :
          store[s][u][n] # Absent => store'[s][u][n] # Absent
    OBVIOUS
  <2>2. main.at # "down" /\ CliInv /\ main' = main /\ cli' = cli
    BY DEF EvidenceInv, ThreadInv, JobInv
  <2>3. ~Overlap => cli.at = "off" /\ cli.step = "next"
    BY <2>2 DEF CliInv, Stores
  <2>4. /\ \A k \in cli.todo : k[1] \in Samplers /\ k[2] \in 0..MaxSamples
        /\ cli.file[1] \in Samplers /\ cli.file[2] \in 0..MaxSamples
    BY DEF EvidenceInv, TypeOK, Ids
  <2> QED  BY <2>1, <2>2, <2>3, <2>4 DEF CliInv
<1> QED  BY <1>2, <1>3, <1>4 DEF EvidenceInv

----------------------------------------------------------------------------
(* What Advance makes of the job and of the count.                         *)

LEMMA AdvancedJob ==
    ASSUME TypeOK, NEW t \in Samplers, JobInv(t), Sampling(t), Advance(t),
           main' = main, taken' = taken,
           job[t].step < Len(Plan(t, "sample")) => \A k \in 1..job[t].step : Passed(t, k)'
    PROVE  JobInv(t)'
<1>1. /\ job[t].step \in 1..Len(Plan(t, "sample")) /\ main.at # "down"
      /\ seq[t] < taken /\ seq[t] \in Nat /\ taken \in Nat
  BY EvidenceAssumption DEF JobInv, Sampling, Live, TypeOK
<1>2. PICK n \in 1..5 : Len(Plan(t, "sample")) = n
  BY Sinks
<1>3. PICK k \in 1..n : job[t].step = k
  BY <1>1, <1>2
<1>4. CASE k < n
  <2>1. /\ phase' = phase /\ seq' = seq
        /\ job'[t].kind = "sample" /\ job'[t].step = k + 1 /\ job'[t].open = FALSE
    BY <1>2, <1>3, <1>4, Advances, JobsAt
  <2>2. \A m \in 1..(job'[t].step - 1) : Passed(t, m)'
    BY <1>2, <1>3, <1>4, <2>1
  <2>3. job'[t].step \in 1..Len(Plan(t, "sample"))
    BY <1>2, <1>4, <2>1
  <2> QED  BY <1>1, <2>1, <2>2, <2>3 DEF JobInv, Live, Sampling
<1>5. CASE ~(k < n)
  <2>1. phase'[t] = "loop" /\ seq'[t] = seq[t] + 1
    BY <1>2, <1>3, <1>5, Advances
  <2> QED  BY <1>1, <2>1 DEF JobInv, Live, Sampling
<1> QED  BY <1>4, <1>5

LEMMA AdvancedCount ==
    ASSUME TypeOK, NEW t \in Samplers, JobInv(t), Sampling(t), Advance(t), main' = main,
           Cardinality(OfBoot(t)') = IF job[t].step >= JournalStep(t) THEN seq[t] + 1 ELSE seq[t],
           \A i \in OfBoot(t)' : journal'[t][i].seq \in Nat,
           \A i \in OfBoot(t)' :
               \/ journal'[t][i].seq < seq[t] /\ Complete(t, i)'
               \/ /\ job[t].step >= JournalStep(t)
                  /\ journal'[t][i].seq = seq[t] /\ LastOfBoot(t, i)'
                  /\ job[t].step = Len(Plan(t, "sample")) => Complete(t, i)'
    PROVE  CountInv(t)'
<1>1. PICK n \in 1..5 : Len(Plan(t, "sample")) = n
  BY Sinks
<1>2. PICK k \in 1..n : job[t].step = k
  BY <1>1 DEF JobInv
<1>3. PICK j \in 1..n : JournalStep(t) = j
  BY <1>1, Sinks
<1>4. seq[t] \in Nat /\ seq'[t] \in Nat
  BY Advances, EvidenceAssumption DEF TypeOK
<1>5. CASE k < n
  <2>1. /\ phase' = phase /\ seq' = seq
        /\ job'[t].kind = "sample" /\ job'[t].step = k + 1
    BY <1>1, <1>2, <1>5, Advances, JobsAt
  <2>2. /\ phase'[t] # "none" /\ (Journaled(t)' <=> k >= j)
    BY <1>3, <2>1 DEF Journaled, Sampling
  <2> QED  BY <1>1, <1>2, <1>3, <2>1, <2>2 DEF CountInv
<1>6. CASE ~(k < n)
  <2>1. phase'[t] = "loop" /\ seq'[t] = seq[t] + 1 /\ k = n /\ k >= j
    BY <1>1, <1>2, <1>3, <1>6, Advances
  <2>2. phase'[t] # "none" /\ ~Journaled(t)'
    BY <2>1 DEF Journaled, Sampling
  <2>3. Cardinality(OfBoot(t)') = seq'[t]
    BY <1>2, <1>3, <2>1
  <2>4. ASSUME NEW i \in OfBoot(t)'
        PROVE  journal'[t][i].seq < seq'[t] /\ Complete(t, i)'
    BY <1>1, <1>2, <1>4, <2>1
  <2> QED  BY <2>2, <2>3, <2>4 DEF CountInv
<1> QED  BY <1>5, <1>6

\* A thread that goes on, with its count as it was.
LEMMA CountStays ==
    ASSUME NEW t \in Samplers, CountInv(t), Live(t), Live(t)', Journaled(t)' <=> Journaled(t),
           journal'[t] = journal[t], seq'[t] = seq[t], main'.boot = main.boot,
           \A i \in OfBoot(t) : journal[t][i].seq < seq[t] /\ Complete(t, i) => Complete(t, i)'
    PROVE  CountInv(t)'
<1>1. OfBoot(t)' = OfBoot(t)
  BY DEF OfBoot
<1>2. \A i \in OfBoot(t) : LastOfBoot(t, i) <=> LastOfBoot(t, i)'
  BY DEF LastOfBoot
<1>3. phase'[t] # "none"
  BY DEF Live
<1>4. Cardinality(OfBoot(t))' = IF Journaled(t)' THEN seq'[t] + 1 ELSE seq'[t]
  BY <1>1 DEF CountInv
<1> QED  BY <1>1, <1>2, <1>3, <1>4 DEF CountInv

----------------------------------------------------------------------------
(* The steps of a sampling thread.                                         *)

LEMMA SampleDueInv ==
    ASSUME EvidenceInv, NEW t \in Samplers, SampleDue(t)
    PROVE  EvidenceInv'
<1>1. /\ TypeOK /\ ThreadInv(t) /\ LinesInv /\ MainInv
      /\ Live(t) /\ ~Sampling(t) /\ phase[t] = "loop" /\ phase'[t] = "job"
      /\ job'[t] = At("sample", 1) /\ At("sample", 1) \in Job
      /\ UNCHANGED <<boots, main, stop, seq, store, journal, cli, ledger, anchors, head, anchorSeq>>
      /\ taken' = taken + 1 /\ taken \in Nat /\ taken < MaxSamples /\ MaxSamples \in Nat
      /\ boots \in Nat /\ main.boot \in Nat /\ seq[t] \in Nat
  BY EvidenceAssumption, JobsAt DEF SampleDue, EvidenceInv, TypeOK, Live, Sampling, ledgerVars
<1>2. job'[t].kind = "sample" /\ job'[t].step = 1 /\ job'[t].open = FALSE
  BY <1>1, JobsAt
<1>3. \A u \in Samplers \ {t} : phase'[u] = phase[u] /\ job'[u] = job[u]
  BY DEF SampleDue, EvidenceInv, TypeOK
<1>4. TypeOK'
  <2>1. phase' \in [Samplers -> {"none", "loop", "job", "dead"}]
    BY <1>1 DEF TypeOK, SampleDue
  <2>2. job' \in [Samplers -> Job]
    BY <1>1 DEF TypeOK, SampleDue
  <2>3. taken' \in 0..MaxSamples
    BY <1>1
  <2> QED  BY <1>1, <2>1, <2>2, <2>3 DEF TypeOK, LedgerTypeOK
<1>5. Live(t)' /\ Sampling(t)' /\ ~Journaled(t)' /\ ~Journaled(t)
  <2>1. 1 <= JournalStep(t)
    BY DEF JournalStep
  <2> QED  BY <1>1, <1>2, <2>1 DEF Live, Sampling, Journaled, JournalStep
<1>6. ThreadInv(t)'
  <2>1. EventsInv(t)'
    BY <1>1, StoredStays, EventsStay DEF ThreadInv, InLedger
  <2>2. FilesInv(t)'
    BY <1>1, FilesStay DEF ThreadInv
  <2>3. CountInv(t)'
    BY <1>1, <1>5, StoredStays, CountStays DEF ThreadInv, Complete, InLedger
  <2>4. JobInv(t)'
    <3>1. 1 \in 1..Len(Plan(t, "sample"))
      BY Sinks
    <3>2. main.at # "down" /\ seq[t] <= taken
      BY <1>1 DEF ThreadInv, JobInv
    <3> QED  BY <1>1, <1>2, <3>1, <3>2 DEF JobInv, Live, Sampling
  <2> QED  BY <2>1, <2>2, <2>3, <2>4 DEF ThreadInv
<1>7. LinesInv'
  <2>1. phase'["capture"] = "none" <=> phase["capture"] = "none"
    BY <1>1, <1>3 DEF Samplers
  <2>2. Live("capture")' => Live("capture")
    BY <1>1, <1>3 DEF Samplers, Live
  <2>3. Sampling("capture") => Sampling("capture")' /\ job'["capture"] = job["capture"]
    BY <1>1, <1>3 DEF Samplers, Sampling
  <2> QED  BY <1>1, <2>1, <2>2, <2>3, LinesStay
<1> QED  BY <1>1, <1>3, <1>4, <1>6, <1>7, SamplerStep DEF InLedger

LEMMA DiskCriticalInv ==
    ASSUME EvidenceInv, DiskCritical
    PROVE  EvidenceInv'
<1> DEFINE t == "capture"
<1>1. /\ t \in Samplers
      /\ TypeOK /\ ThreadInv(t) /\ LinesInv /\ MainInv
      /\ Live(t) /\ ~Sampling(t) /\ phase[t] = "loop" /\ phase'[t] = "job"
      /\ job'[t] = At("critical", 1) /\ At("critical", 1) \in Job
      /\ UNCHANGED <<boots, main, taken, stop, seq, store, journal, cli, ledger, anchors, head, anchorSeq>>
      /\ taken \in Nat /\ boots \in Nat /\ main.boot \in Nat
  BY EvidenceAssumption, JobsAt
     DEF DiskCritical, EvidenceInv, TypeOK, Live, Sampling, ledgerVars, Samplers
<1>2. job'[t].kind = "critical" /\ job'[t].step = 1 /\ job'[t].open = FALSE
  BY <1>1, JobsAt
<1>3. \A u \in Samplers \ {t} : phase'[u] = phase[u] /\ job'[u] = job[u]
  BY DEF DiskCritical, EvidenceInv, TypeOK
<1>4. TypeOK'
  <2>1. phase' \in [Samplers -> {"none", "loop", "job", "dead"}] /\ job' \in [Samplers -> Job]
    BY <1>1 DEF TypeOK, DiskCritical
  <2> QED  BY <1>1, <2>1 DEF TypeOK, LedgerTypeOK
<1>5. Live(t)' /\ ~Sampling(t)' /\ ~Journaled(t)' /\ ~Journaled(t)
  BY <1>1, <1>2 DEF Live, Sampling, Journaled
<1>6. ThreadInv(t)'
  <2>1. EventsInv(t)'
    BY <1>1, StoredStays, EventsStay DEF ThreadInv, InLedger
  <2>2. FilesInv(t)'
    BY <1>1, FilesStay DEF ThreadInv
  <2>3. CountInv(t)'
    BY <1>1, <1>5, StoredStays, CountStays DEF ThreadInv, Complete, InLedger
  <2>4. JobInv(t)'
    <3>1. main.at # "down" /\ seq[t] <= taken
      BY <1>1 DEF ThreadInv, JobInv
    <3> QED  BY <1>1, <1>2, <1>5, <3>1 DEF JobInv, Live, Sampling
  <2> QED  BY <2>1, <2>2, <2>3, <2>4 DEF ThreadInv
<1>7. LinesInv'
  BY <1>1, LinesStay
<1> QED  BY <1>1, <1>3, <1>4, <1>6, <1>7, SamplerStep DEF InLedger

\* The thread dies: nothing is promised of it any more.
LEMMA ThreadEndsInv ==
    ASSUME EvidenceInv, NEW t \in Samplers, Live(t), ThreadEnds(t),
           UNCHANGED <<boots, main, taken, stop, store, journal, cli, ledgerVars>>
    PROVE  EvidenceInv'
<1>1. /\ TypeOK /\ ThreadInv(t) /\ LinesInv /\ MainInv
      /\ phase'[t] = "dead" /\ boots \in Nat /\ main.boot \in Nat /\ taken \in Nat
      /\ UNCHANGED <<boots, main, taken, stop, store, journal, cli, ledger, anchors, head, anchorSeq>>
  BY EvidenceAssumption DEF EvidenceInv, TypeOK, ThreadEnds, ledgerVars
<1>2. \A u \in Samplers \ {t} :
        phase'[u] = phase[u] /\ seq'[u] = seq[u] /\ job'[u] = job[u]
  BY DEF ThreadEnds, EvidenceInv, TypeOK
<1>3. TypeOK'
  <2>1. phase' \in [Samplers -> {"none", "loop", "job", "dead"}]
    BY <1>1 DEF TypeOK, ThreadEnds
  <2>2. job' \in [Samplers -> Job]
    <3>1. job[t].kind \in {"sample", "critical"}
      BY <1>1 DEF TypeOK, Job
    <3>2. At(job[t].kind, 0) \in Job
      BY <3>1, JobsAt
    <3> QED  BY <1>1, <3>2 DEF TypeOK, ThreadEnds
  <2>3. seq' \in [Samplers -> 0..MaxSamples]
    BY <1>1, EvidenceAssumption DEF TypeOK, ThreadEnds
  <2> QED  BY <1>1, <2>1, <2>2, <2>3 DEF TypeOK, LedgerTypeOK
<1>4. ThreadInv(t)'
  <2>1. ~Live(t)'
    BY <1>1 DEF Live
  <2> QED  BY <1>1, <2>1, ThreadStays DEF InLedger, ThreadInv, JobInv
<1>5. LinesInv'
  <2>1. Live("capture")' =>
          Live("capture") /\ (Sampling("capture") => Sampling("capture")')
          /\ job'["capture"] = job["capture"]
    BY <1>1, <1>2 DEF Samplers, Live, Sampling
  <2>2. phase["capture"] # "none" => phase'["capture"] # "none"
    BY <1>1, <1>2 DEF Samplers
  <2> QED  BY <1>1, <2>1, <2>2, LinesStay
<1> QED  BY <1>1, <1>2, <1>3, <1>4, <1>5, SamplerStep DEF InLedger

\* One file of the stores is written.
Puts(s, t, n, f) == store' = [store EXCEPT ![s][t][n] = f]

LEMMA StoreSet ==
    ASSUME TypeOK, NEW s \in Stores, NEW t \in Samplers, NEW n \in 0..MaxSamples, NEW f \in File,
           Puts(s, t, n, f)
    PROVE  /\ store' \in [Stores -> [Samplers -> [0..MaxSamples -> File \cup {Absent}]]]
           /\ store'[s][t][n] = f
           /\ \A r \in Stores, u \in Samplers : r # s \/ u # t => store'[r][u] = store[r][u]
           /\ \A m \in 0..MaxSamples : m # n => store'[s][t][m] = store[s][t][m]
<1>1. store \in [Stores -> [Samplers -> [0..MaxSamples -> File \cup {Absent}]]]
  BY DEF TypeOK
<1>2. store[s] \in [Samplers -> [0..MaxSamples -> File \cup {Absent}]]
  BY <1>1
<1>3. store[s][t] \in [0..MaxSamples -> File \cup {Absent}]
  BY <1>2
<1>4. PICK g : g = [store[s][t] EXCEPT ![n] = f]
  OBVIOUS
<1>5. /\ g \in [0..MaxSamples -> File \cup {Absent}] /\ g[n] = f
      /\ \A m \in 0..MaxSamples : m # n => g[m] = store[s][t][m]
  BY <1>3, <1>4
<1>6. PICK h : h = [store[s] EXCEPT ![t] = g]
  OBVIOUS
<1>7. /\ h \in [Samplers -> [0..MaxSamples -> File \cup {Absent}]] /\ h[t] = g
      /\ \A u \in Samplers : u # t => h[u] = store[s][u]
  BY <1>2, <1>5, <1>6
<1>8. store' = [store EXCEPT ![s] = h]
  BY <1>4, <1>6 DEF Puts
<1>9. /\ store' \in [Stores -> [Samplers -> [0..MaxSamples -> File \cup {Absent}]]] /\ store'[s] = h
      /\ \A r \in Stores : r # s => store'[r] = store[r]
  BY <1>1, <1>7, <1>8
<1> QED  BY <1>5, <1>7, <1>9

LEMMA StorePut ==
    ASSUME TypeOK, NEW s \in Stores, NEW t \in Samplers, NEW n \in 0..MaxSamples, NEW f \in File,
           Puts(s, t, n, f)
    PROVE  \A r \in Stores, u \in Samplers, m \in 0..MaxSamples :
             /\ store'[r][u][m] = IF r = s /\ u = t /\ m = n THEN f ELSE store[r][u][m]
             /\ store[r][u][m] # Absent => store'[r][u][m] # Absent
<1> SUFFICES ASSUME NEW r \in Stores, NEW u \in Samplers, NEW m \in 0..MaxSamples
             PROVE  /\ store'[r][u][m] = IF r = s /\ u = t /\ m = n THEN f ELSE store[r][u][m]
                    /\ store[r][u][m] # Absent => store'[r][u][m] # Absent
  OBVIOUS
<1>1. CASE r = s /\ u = t /\ m = n
  <2>1. store'[s][t][n] = f
    BY StoreSet
  <2> QED  BY <1>1, <2>1, AbsentAssumption
<1>2. CASE ~(r = s /\ u = t /\ m = n)
  <2>1. store'[r][u][m] = store[r][u][m]
    BY <1>2, StoreSet
  <2> QED  BY <1>2, <2>1
<1> QED  BY <1>1, <1>2

\* A file that the process that is up begins, or finishes, holds what earlier
\* boots stored.
LEMMA Rewritten ==
    ASSUME TypeOK, NEW s \in Stores, NEW t \in Samplers, NEW n \in 0..MaxSamples, NEW f \in File,
           FilesInv(t), ~Overlap, main.at # "down", Puts(s, t, n, f), f.boot = main.boot,
           f.torn \in {0, main.boot}, main.boot \in Boots
    PROVE  \A r \in Stores, m \in 0..MaxSamples, b \in Nat :
             Holds(r, t, m, b) /\ b # 0 /\ (r = s /\ m = n => b # main.boot \/ f.torn = 0)
               => Holds(r, t, m, b)'
<1> SUFFICES ASSUME NEW r \in Stores, NEW m \in 0..MaxSamples, NEW b \in Nat, b # 0,
                    Holds(r, t, m, b), r = s /\ m = n => b # main.boot \/ f.torn = 0
             PROVE  Holds(r, t, m, b)'
  OBVIOUS
<1>1. CASE r = s /\ m = n
  <2>1. store'[r][t][m] = f /\ f # Absent
    <3>1. store'[s][t][n] = f
      BY StoreSet
    <3> QED  BY <1>1, <3>1, AbsentAssumption
  <2>2. store[r][t][m] # Absent /\ store[r][t][m].boot >= b
    BY DEF Holds
  <2>3. store[r][t][m].boot \in Nat /\ main.boot \in Nat
    BY <2>2, FileAt DEF Boots
  <2>4. store[r][t][m].boot <= main.boot
    BY <2>2 DEF FilesInv
  <2>5. f.boot >= b /\ f.torn # b
    BY <1>1, <2>2, <2>3, <2>4
  <2> QED  BY <2>1, <2>5 DEF Holds
<1>2. CASE ~(r = s /\ m = n)
  <2>1. store'[r][t][m] = store[r][t][m]
    BY <1>2, StoreSet
  <2> QED  BY <2>1 DEF Holds
<1> QED  BY <1>1, <1>2

LEMMA RewrittenFiles ==
    ASSUME TypeOK, NEW s \in Stores, NEW t \in Samplers, NEW n \in 0..MaxSamples, NEW f \in File,
           FilesInv(t), main.at # "down", MainInv, UNCHANGED <<boots, main>>,
           Puts(s, t, n, f), f.boot = main.boot
    PROVE  FilesInv(t)'
<1> SUFFICES ASSUME NEW r \in Stores, NEW m \in 0..MaxSamples, store'[r][t][m] # Absent, ~Overlap
             PROVE  store'[r][t][m].boot <= boots /\ store'[r][t][m].boot <= main.boot
  BY DEF FilesInv
<1>1. CASE r = s /\ m = n
  <2>1. store'[r][t][m] = f
    <3>1. store'[s][t][n] = f
      BY StoreSet
    <3> QED  BY <1>1, <3>1
  <2>2. main.boot <= boots /\ main.boot \in Nat
    BY DEF MainInv, TypeOK
  <2> QED  BY <2>1, <2>2
<1>2. CASE ~(r = s /\ m = n)
  BY <1>2, StoreSet DEF FilesInv
<1> QED  BY <1>1, <1>2

\* Where a sample stands that is at a store.
LEMMA AtStore ==
    ASSUME EvidenceInv, NEW t \in Samplers, NEW s \in Stores, Writing(t, s)
    PROVE  /\ TypeOK /\ ThreadInv(t) /\ LinesInv /\ MainInv
           /\ Sampling(t) /\ Live(t) /\ main.at # "down"
           /\ job[t].step \in 1..Len(Plan(t, "sample"))
           /\ Plan(t, "sample")[job[t].step] = s /\ Sink(t) = s
           /\ s \in Keeps(t) /\ job[t].step # JournalStep(t)
           /\ Journaled(t) => t = "window" /\ Keeps(t) = {s}
           /\ seq[t] \in 0..MaxSamples /\ seq[t] < taken /\ taken \in Nat
           /\ boots \in Nat /\ main.boot \in Boots
<1>1. TypeOK /\ ThreadInv(t) /\ LinesInv /\ MainInv /\ JobInv(t)
  BY DEF EvidenceInv, ThreadInv
<1>2. /\ Sampling(t) /\ Live(t)
      /\ job[t].step \in 1..Len(Plan(t, "sample"))
      /\ Plan(t, "sample")[job[t].step] = s /\ Sink(t) = s
  BY <1>1, AtSink
<1>3. /\ main.at # "down" /\ seq[t] < taken /\ main.boot \in 1..boots
      /\ seq[t] \in 0..MaxSamples /\ taken \in Nat /\ boots \in Nat /\ boots <= MaxBoots
  BY <1>1, <1>2, EvidenceAssumption DEF JobInv, MainInv, TypeOK
<1>4. main.boot \in Boots
  BY <1>3, EvidenceAssumption DEF Boots
<1>5. s \in Keeps(t) /\ job[t].step # JournalStep(t)
  BY <1>2, Sinks DEF Stores
<1>6. ASSUME Journaled(t)
      PROVE  t = "window" /\ Keeps(t) = {s}
  <2>1. t = "window"
    BY <1>2, <1>6, Sinks DEF Journaled
  <2> QED  BY <1>5, <2>1 DEF Keeps
<1> QED  BY <1>1, <1>2, <1>3, <1>4, <1>5, <1>6

LEMMA BeginPutInv ==
    ASSUME EvidenceInv, NEW t \in Samplers, NEW s \in Stores, BeginPut(t, s)
    PROVE  EvidenceInv'
<1> DEFINE n == seq[t]
<1>1. /\ TypeOK /\ ThreadInv(t) /\ LinesInv /\ MainInv
      /\ Sampling(t) /\ Live(t) /\ main.at # "down"
      /\ job[t].step \in 1..Len(Plan(t, "sample"))
      /\ Plan(t, "sample")[job[t].step] = s /\ Sink(t) = s
      /\ n \in 0..MaxSamples /\ n < taken /\ boots \in Nat /\ main.boot \in Boots
  BY AtStore DEF BeginPut
<1>2. Journaled(t) => t = "window"
  BY AtStore DEF BeginPut
<1>3. PICK f \in File : f = [boot |-> main.boot, torn |-> main.boot]
  <2>1. main.boot \in 0..MaxBoots
    BY <1>1 DEF Boots
  <2> QED  BY <1>1, <2>1 DEF File
<1>4. f.boot = main.boot /\ f.torn = main.boot /\ f # Absent
  BY <1>3, AbsentAssumption
<1>5. /\ Puts(s, t, n, f)
      /\ job' = [job EXCEPT ![t] = [job[t] EXCEPT !.open = TRUE]]
      /\ UNCHANGED <<boots, main, taken, phase, stop, seq, journal, cli, ledger, anchors, head, anchorSeq>>
  BY <1>3 DEF BeginPut, Puts, ledgerVars
<1>6. PICK o \in Job : /\ o = [job[t] EXCEPT !.open = TRUE]
                       /\ o.kind = job[t].kind /\ o.step = job[t].step
  <2>1. job[t] \in Job
    BY <1>1 DEF TypeOK
  <2> QED  BY <2>1, Opened
<1>7. job' \in [Samplers -> Job] /\ job'[t] = o /\ \A u \in Samplers \ {t} : job'[u] = job[u]
  BY <1>1, <1>5, <1>6 DEF TypeOK
<1>8. Sampling(t)' /\ Live(t)' /\ job'[t].step = job[t].step /\ job'[t].kind = "sample"
      /\ (Journaled(t)' <=> Journaled(t))
  BY <1>1, <1>5, <1>6, <1>7 DEF Sampling, Live, Journaled
<1>9. TypeOK'
  <2>1. store' \in [Stores -> [Samplers -> [0..MaxSamples -> File \cup {Absent}]]]
    BY <1>1, <1>5, StoreSet
  <2> QED  BY <1>1, <1>5, <1>7, <2>1 DEF TypeOK, LedgerTypeOK
<1>10. ASSUME NEW i \in DOMAIN journal[t],
              ~(journal[t][i].boot = main.boot /\ journal[t][i].seq = n)
       PROVE  /\ StoredAll(t, i) => StoredAll(t, i)'
              /\ Complete(t, i) => Complete(t, i)'
  <2>1. /\ journal[t][i].boot \in Nat /\ journal[t][i].boot # 0
        /\ journal[t][i].seq \in 0..MaxSamples
    BY <1>1, EventTypes DEF ThreadInv, EventsInv, Boots
  <2>2. FilesInv(t) /\ Keeps(t) \subseteq Stores
    BY <1>1 DEF ThreadInv, Keeps, Stores
  <2>3. ~Overlap => \A r \in Stores : Holds(r, t, journal[t][i].seq, journal[t][i].boot)
                            => Holds(r, t, journal[t][i].seq, journal[t][i].boot)'
    BY <1>1, <1>4, <1>5, <1>10, <2>1, <2>2, Rewritten
  <2>4. journal'[t][i] = journal[t][i]
    BY <1>5
  <2>5. StoredAll(t, i) => StoredAll(t, i)'
    BY <2>2, <2>3, <2>4 DEF StoredAll
  <2> QED  BY <1>5, <2>4, <2>5 DEF Complete, InLedger
<1>11. ASSUME NEW i \in DOMAIN journal[t], journal[t][i].boot = main.boot, journal[t][i].seq = n
       PROVE  t = "window" /\ LastOfBoot(t, i)
  <2>1. CountInv(t) /\ i \in OfBoot(t) /\ n \in Nat
    BY <1>1, <1>11 DEF ThreadInv, OfBoot
  <2> QED  BY <1>1, <1>2, <1>11, <2>1 DEF CountInv
<1>12. ThreadInv(t)'
  <2>1. EventsInv(t)'
    <3> SUFFICES ASSUME NEW i \in DOMAIN journal[t]
                 PROVE  /\ journal[t][i].kind = "sample" /\ journal[t][i].seq \in 0..MaxSamples
                        /\ journal[t][i].boot <= boots
                        /\ main.at # "down" => journal[t][i].boot <= main.boot
                        /\ cli.at # "off" => journal[t][i].boot # cli.boot
                        /\ t # "window" => StoredAll(t, i)'
                        /\ Complete(t, i)' \/ LastOfBoot(t, i)'
                        /\ journal[t][i].seq = Cardinality(Earlier(t, i))'
      BY <1>5 DEF EventsInv
    <3>1. EventsInv(t)
      BY <1>1 DEF ThreadInv
    <3>2. (LastOfBoot(t, i) <=> LastOfBoot(t, i)') /\ Earlier(t, i)' = Earlier(t, i)
      BY <1>5 DEF LastOfBoot, Earlier
    <3>3. t # "window" => StoredAll(t, i)'
      BY <1>10, <1>11, <3>1 DEF EventsInv
    <3>4. Complete(t, i)' \/ LastOfBoot(t, i)'
      BY <1>10, <1>11, <3>1, <3>2 DEF EventsInv
    <3>5. journal[t][i].seq = Cardinality(Earlier(t, i))'
      BY <3>1, <3>2 DEF EventsInv
    <3> QED  BY <3>1, <3>3, <3>4, <3>5 DEF EventsInv
  <2>2. FilesInv(t)'
    BY <1>1, <1>4, <1>5, RewrittenFiles DEF ThreadInv
  <2>3. CountInv(t)'
    <3>1. \A i \in OfBoot(t) : journal[t][i].seq < n /\ Complete(t, i) => Complete(t, i)'
      BY <1>1, <1>10 DEF OfBoot
    <3> QED  BY <1>1, <1>5, <1>8, <3>1, CountStays DEF ThreadInv
  <2>4. JobInv(t)'
    <3>1. ASSUME NEW k \in 1..(job[t].step - 1), Passed(t, k)
          PROVE  Passed(t, k)'
      <4>1. k \in 1..Len(Plan(t, "sample")) /\ k # job[t].step
        <5>1. PICK m \in 1..5 : Len(Plan(t, "sample")) = m
          BY Sinks
        <5>2. PICK st \in 1..m : job[t].step = st
          BY <1>1, <5>1
        <5> QED  BY <3>1, <5>1, <5>2
      <4>2. Plan(t, "sample")[k] # s
        BY <1>1, <4>1, Sinks
      <4>3. Plan(t, "sample")[k] \in Stores =>
              store'[Plan(t, "sample")[k]][t] = store[Plan(t, "sample")[k]][t]
        BY <1>1, <1>5, <4>2, StoreSet
      <4>4. Record(t)' = Record(t)
        BY <1>1, <1>5, <1>8 DEF Record, Sampling
      <4> QED  BY <1>5, <3>1, <4>3, <4>4 DEF Passed, InLedger
    <3>2. /\ \A k \in 1..(job[t].step - 1) : Passed(t, k)
          /\ seq[t] <= taken
      BY <1>1 DEF ThreadInv, JobInv
    <3> QED  BY <1>1, <1>5, <1>8, <3>1, <3>2 DEF JobInv
  <2> QED  BY <2>1, <2>2, <2>3, <2>4 DEF ThreadInv
<1>13. LinesInv'
  <2>1. /\ Live("capture")' => Live("capture")
        /\ Sampling("capture") /\ job["capture"].step = 5 =>
             Sampling("capture")' /\ job'["capture"].step = 5
    BY <1>5, <1>7, <1>8 DEF Live, Sampling, Samplers
  <2> QED  BY <1>1, <1>5, <2>1, LinesStay
<1>14. \A u \in Samplers \ {t}, r \in Stores : store'[r][u] = store[r][u]
  BY <1>1, <1>5, StoreSet
<1>15. taken <= taken' /\ \A e : InLedger(e) => InLedger(e)'
  BY <1>1, <1>5 DEF InLedger, TypeOK
<1>16. \A u \in Samplers \ {t} :
         /\ phase'[u] = phase[u] /\ seq'[u] = seq[u] /\ job'[u] = job[u] /\ journal'[u] = journal[u]
         /\ \A r \in Stores : store'[r][u] = store[r][u]
  BY <1>5, <1>7, <1>14
<1>17. UNCHANGED <<boots, main, cli>>
  BY <1>5
<1>18. \A r \in Stores, m \in 0..MaxSamples : store[r][t][m] # Absent => store'[r][t][m] # Absent
  BY <1>1, <1>4, <1>5, StorePut
<1> QED  BY <1>1, <1>9, <1>12, <1>13, <1>15, <1>16, <1>17, <1>18, SamplerStep

\* Before the anchor, Advance does not disturb what LinesInv says of capture.
LEMMA AdvancedLines ==
    ASSUME TypeOK, NEW t \in Samplers, JobInv(t), Sampling(t), Advance(t),
           ~(t = "capture" /\ job[t].step = 5)
    PROVE  /\ phase["capture"] # "none" => phase'["capture"] # "none"
           /\ Live("capture")' => Live("capture")
           /\ Sampling("capture") /\ job["capture"].step = 5 =>
                Sampling("capture")' /\ job'["capture"].step = 5
<1>1. phase'[t] # "none" /\ phase[t] = "job"
  BY Advances DEF Sampling
<1>2. "capture" # t => phase'["capture"] = phase["capture"] /\ job'["capture"] = job["capture"]
  BY Advances DEF Samplers
<1> QED  BY <1>1, <1>2 DEF Live, Sampling

\* The place of a sample, as a number.
LEMMA StepIs ==
    ASSUME NEW t \in Samplers, job[t].step \in 1..Len(Plan(t, "sample"))
    PROVE  \E n \in 1..5, k \in 1..5, j \in 1..5 :
             /\ Len(Plan(t, "sample")) = n /\ job[t].step = k /\ JournalStep(t) = j
             /\ k <= n /\ j <= n
<1>1. PICK n \in 1..5 : Len(Plan(t, "sample")) = n
  BY Sinks
<1>2. PICK k \in 1..n : job[t].step = k
  BY <1>1
<1>3. PICK j \in 1..n : JournalStep(t) = j
  BY <1>1, Sinks
<1>4. n \in 1..5 /\ k \in 1..5 /\ j \in 1..5 /\ k <= n /\ j <= n
  OBVIOUS
<1> QED  BY <1>1, <1>2, <1>3, <1>4, Zenon

\* What a sample has been through stays so while it advances.
LEMMA PassedStays ==
    ASSUME TypeOK, NEW t \in Samplers, JobInv(t), Sampling(t), Advance(t), main' = main,
           job[t].step < Len(Plan(t, "sample")), NEW k, Passed(t, k),
           Plan(t, "sample")[k] \in Stores =>
             store'[Plan(t, "sample")[k]][t][seq[t]] = store[Plan(t, "sample")[k]][t][seq[t]],
           \A i \in DOMAIN journal[t] : i \in DOMAIN journal'[t] /\ journal'[t][i] = journal[t][i],
           \A e : InLedger(e) => InLedger(e)'
    PROVE  Passed(t, k)'
<1>1. PICK n, p, j \in 1..5 : Len(Plan(t, "sample")) = n /\ job[t].step = p
  BY StepIs DEF JobInv
<1>2. p < n
  BY <1>1
<1>3. seq'[t] = seq[t] /\ job'[t].kind = "sample"
  BY <1>1, <1>2, Advances, JobsAt
<1>4. Record(t)' = Record(t)
  BY <1>3 DEF Record, Sampling
<1> QED  BY <1>3, <1>4 DEF Passed

LEMMA EndPutInv ==
    ASSUME EvidenceInv, NEW t \in Samplers, NEW s \in Stores, EndPut(t, s)
    PROVE  EvidenceInv'
<1> DEFINE n == seq[t]
<1>1. /\ TypeOK /\ ThreadInv(t) /\ LinesInv /\ MainInv
      /\ Sampling(t) /\ Live(t) /\ main.at # "down"
      /\ job[t].step \in 1..Len(Plan(t, "sample"))
      /\ Plan(t, "sample")[job[t].step] = s /\ Sink(t) = s
      /\ n \in 0..MaxSamples /\ n < taken /\ boots \in Nat /\ main.boot \in Boots
      /\ job[t].step # JournalStep(t) /\ taken \in Nat
  BY AtStore DEF EndPut
<1>2. Journaled(t) => t = "window" /\ Keeps(t) = {s}
  BY AtStore DEF EndPut
<1>3. PICK p, m, j \in 1..5 :
        Len(Plan(t, "sample")) = m /\ job[t].step = p /\ JournalStep(t) = j /\ p <= m
  BY <1>1, StepIs
<1>4. PICK torn \in {0, cli.boot} :
        /\ store' = [store EXCEPT ![s][t][n] = [boot |-> main.boot, torn |-> torn]]
        /\ torn # 0 => RotationAt(s, t, n)
  BY DEF EndPut, TornAfter
<1>5. /\ [boot |-> main.boot, torn |-> torn] \in File
      /\ ~Overlap => torn = 0
  <2>1. torn \in 0..MaxBoots
    BY <1>1, EvidenceAssumption DEF TypeOK
  <2>2. ~Overlap => cli.at = "off"
    BY <1>1 DEF EvidenceInv, CliInv
  <2>3. ~Overlap => torn = 0
    BY <1>4, <2>2 DEF RotationAt, Stores
  <2> QED  BY <1>1, <2>1, <2>3 DEF File
<1>6. /\ Advance(t)
      /\ UNCHANGED <<boots, main, taken, journal, cli, ledger, anchors, head, anchorSeq>>
  BY DEF EndPut, ledgerVars
<1>7. PICK f \in File : /\ Puts(s, t, n, f)
                        /\ f = [boot |-> main.boot, torn |-> torn] /\ f.boot = main.boot /\ f.torn = torn
  BY <1>4, <1>5 DEF Puts
<1>8. JobInv(t) /\ EventsInv(t) /\ FilesInv(t) /\ CountInv(t)
  BY <1>1 DEF ThreadInv
<1>9. /\ phase' \in [Samplers -> {"none", "loop", "job", "dead"}]
      /\ job' \in [Samplers -> Job] /\ seq' \in [Samplers -> 0..MaxSamples] /\ stop' = stop
      /\ \A u \in Samplers \ {t} :
           phase'[u] = phase[u] /\ job'[u] = job[u] /\ seq'[u] = seq[u]
  BY <1>1, <1>6, <1>8, Advances
<1>10. TypeOK'
  <2>1. store' \in [Stores -> [Samplers -> [0..MaxSamples -> File \cup {Absent}]]]
    BY <1>1, <1>7, StoreSet
  <2> QED  BY <1>1, <1>6, <1>9, <2>1 DEF TypeOK, LedgerTypeOK
<1>11. ~Overlap => \A r \in Stores, q \in 0..MaxSamples, b \in Nat :
         Holds(r, t, q, b) /\ b # 0 => Holds(r, t, q, b)'
  BY <1>1, <1>5, <1>7, <1>8, Rewritten
<1>12. \A e : InLedger(e) <=> InLedger(e)'
  BY <1>6 DEF InLedger
<1>13. Keeps(t) \subseteq Stores
  BY DEF Keeps, Stores
<1>14. ASSUME NEW i \in DOMAIN journal[t]
       PROVE  /\ (StoredAll(t, i) => StoredAll(t, i)') /\ (Complete(t, i) => Complete(t, i)')
              /\ (LastOfBoot(t, i) <=> LastOfBoot(t, i)')
              /\ journal[t][i].boot \in Nat /\ journal[t][i].seq \in Nat
  <2>1. /\ journal[t][i].boot \in Nat /\ journal[t][i].boot # 0
        /\ journal[t][i].seq \in 0..MaxSamples
    BY <1>1, <1>8, EventTypes DEF EventsInv, Boots
  <2>2. StoredAll(t, i) => StoredAll(t, i)'
    BY <1>6, <1>11, <1>13, <2>1 DEF StoredAll
  <2> QED  BY <1>6, <1>12, <2>1, <2>2 DEF Complete, LastOfBoot
<1>15. store'[s][t][n] = f
  BY <1>1, <1>7, StoreSet
<1>16. ThreadInv(t)'
  <2>1. EventsInv(t)'
    <3>1. ASSUME NEW i \in DOMAIN journal[t]
          PROVE  Cardinality(Earlier(t, i))' = Cardinality(Earlier(t, i))
      <4>1. Earlier(t, i)' = Earlier(t, i)
        BY <1>6 DEF Earlier
      <4> QED  BY <4>1
    <3> QED  BY <1>6, <1>8, <1>14, <3>1 DEF EventsInv
  <2>2. FilesInv(t)'
    BY <1>1, <1>6, <1>7, <1>8, RewrittenFiles
  <2>3. CountInv(t)'
    <3>1. OfBoot(t)' = OfBoot(t)
      BY <1>6 DEF OfBoot
    <3>2. Journaled(t) <=> p >= j
      BY <1>1, <1>3 DEF Journaled
    <3>3. Cardinality(OfBoot(t)') = IF job[t].step >= JournalStep(t) THEN seq[t] + 1 ELSE seq[t]
      BY <1>1, <1>3, <1>8, <3>1, <3>2 DEF CountInv
    <3>4. ASSUME NEW i \in OfBoot(t), Journaled(t), journal[t][i].seq = n
          PROVE  Complete(t, i)'
      <4>1. journal'[t][i].seq = n /\ journal'[t][i].boot = main.boot
        BY <1>6, <3>4 DEF OfBoot
      <4>2. ~Overlap => Holds(s, t, journal[t][i].seq, journal[t][i].boot)'
        <5>1. f # Absent /\ main.boot \in Nat /\ main.boot # 0
          BY <1>1, AbsentAssumption DEF Boots
        <5>2. store'[s][t][journal'[t][i].seq] = f
          BY <1>15, <4>1
        <5>3. f.boot >= journal'[t][i].boot /\ (~Overlap => f.torn # journal'[t][i].boot)
          BY <1>5, <1>7, <4>1, <5>1
        <5> QED  BY <5>1, <5>2, <5>3, Zenon DEF Holds
      <4>3. StoredAll(t, i)'
        BY <1>2, <3>4, <4>2 DEF StoredAll
      <4> QED  BY <1>2, <3>4, <4>3 DEF Complete
    <3>5. ASSUME NEW i \in OfBoot(t)
          PROVE  /\ journal'[t][i].seq \in Nat
                 /\ \/ journal'[t][i].seq < seq[t] /\ Complete(t, i)'
                    \/ /\ job[t].step >= JournalStep(t)
                       /\ journal'[t][i].seq = seq[t] /\ LastOfBoot(t, i)'
                       /\ job[t].step = Len(Plan(t, "sample")) => Complete(t, i)'
      <4>1. i \in DOMAIN journal[t]
        BY DEF OfBoot
      <4> QED  BY <1>1, <1>3, <1>6, <1>8, <1>14, <3>2, <3>4, <4>1 DEF CountInv
    <3> QED  BY <1>1, <1>6, <1>8, <3>1, <3>3, <3>5, AdvancedCount
  <2>4. JobInv(t)'
    <3>1. ASSUME p < m, NEW k \in 1..p
          PROVE  Passed(t, k)'
      <4>1. k \in 1..Len(Plan(t, "sample"))
        BY <1>3
      <4>2. CASE k = p
        <5>1. seq'[t] = n
          BY <1>1, <1>3, <1>6, <1>8, <3>1, Advances
        <5> QED  BY <1>1, <1>3, <1>5, <1>6, <1>7, <1>15, <4>2, <5>1 DEF Passed, Stores
      <4>3. CASE k # p
        <5>1. Passed(t, k) /\ Plan(t, "sample")[k] # s
          BY <1>1, <1>3, <1>8, <4>1, <4>3, Sinks DEF JobInv
        <5>2. Plan(t, "sample")[k] \in Stores =>
                store'[Plan(t, "sample")[k]][t] = store[Plan(t, "sample")[k]][t]
          BY <1>1, <1>7, <5>1, StoreSet
        <5> QED  BY <1>1, <1>3, <1>6, <1>8, <1>12, <3>1, <5>1, <5>2, PassedStays
      <4> QED  BY <4>2, <4>3
    <3>2. job[t].step < Len(Plan(t, "sample")) => \A k \in 1..job[t].step : Passed(t, k)'
      BY <1>3, <3>1
    <3> QED  BY <1>1, <1>6, <1>8, <3>2, AdvancedJob
  <2> QED  BY <2>1, <2>2, <2>3, <2>4 DEF ThreadInv
<1>17. LinesInv'
  <2>1. ~(t = "capture" /\ job[t].step = 5)
    BY <1>1, Sinks DEF Stores
  <2> QED  BY <1>1, <1>6, <1>8, <2>1, AdvancedLines, LinesStay
<1>18. \A u \in Samplers \ {t} :
         /\ phase'[u] = phase[u] /\ seq'[u] = seq[u] /\ job'[u] = job[u] /\ journal'[u] = journal[u]
         /\ \A r \in Stores : store'[r][u] = store[r][u]
  BY <1>1, <1>6, <1>7, <1>9, StoreSet
<1>19. UNCHANGED <<boots, main, cli>> /\ taken <= taken'
  BY <1>1, <1>6
<1>20. \A r \in Stores, q \in 0..MaxSamples : store[r][t][q] # Absent => store'[r][t][q] # Absent
  BY <1>1, <1>7, StorePut
<1> QED  BY <1>1, <1>10, <1>12, <1>16, <1>17, <1>18, <1>19, <1>20, SamplerStep

\* The thread of a step that records the sample at hand.
LEMMA AtRecord ==
    ASSUME EvidenceInv, NEW t \in Samplers, NEW sink \in {"journal", "ledger", "anchor"},
           Writing(t, sink), sink = "anchor" \/ Canonical(job[t].kind)
    PROVE  /\ TypeOK /\ ThreadInv(t) /\ LinesInv /\ MainInv
           /\ EventsInv(t) /\ FilesInv(t) /\ CountInv(t) /\ JobInv(t)
           /\ Sampling(t) /\ Live(t) /\ main.at # "down"
           /\ job[t].step \in 1..Len(Plan(t, "sample"))
           /\ Plan(t, "sample")[job[t].step] = sink
           /\ seq[t] \in 0..MaxSamples /\ seq[t] < taken /\ taken \in Nat
           /\ boots \in Nat /\ main.boot \in Boots /\ main.boot <= boots
           /\ Record(t) = [kind |-> "sample", seq |-> seq[t], boot |-> main.boot]
           /\ Record(t) \in Event /\ Record(t) \in Entry
<1>1. TypeOK /\ ThreadInv(t) /\ LinesInv /\ MainInv /\ JobInv(t)
  BY DEF EvidenceInv, ThreadInv
<1>2. /\ Sampling(t) /\ Live(t)
      /\ job[t].step \in 1..Len(Plan(t, "sample"))
      /\ Plan(t, "sample")[job[t].step] = sink
  BY <1>1, AtSink
<1>3. /\ main.at # "down" /\ seq[t] < taken /\ main.boot \in 1..boots
      /\ seq[t] \in 0..MaxSamples /\ taken \in Nat /\ boots \in Nat /\ boots <= MaxBoots
  BY <1>1, <1>2, EvidenceAssumption DEF JobInv, MainInv, TypeOK
<1>4. main.boot \in Boots /\ seq[t] \in Nat
  BY <1>3, EvidenceAssumption DEF Boots
<1>5. Record(t) = [kind |-> "sample", seq |-> seq[t], boot |-> main.boot]
  BY <1>2 DEF Record, Sampling
<1>6. Record(t) \in Event /\ Record(t) \in Entry
  BY <1>4, <1>5 DEF Event, Entry
<1> QED  BY <1>1, <1>2, <1>3, <1>4, <1>5, <1>6 DEF ThreadInv

\* What a sampler stores before its journal event is in the files when it is due.
LEMMA StoredBefore ==
    ASSUME TypeOK, NEW t \in Samplers, JobInv(t), Sampling(t), t # "window",
           job[t].step >= JournalStep(t), main.boot \in Boots, ~Overlap
    PROVE  \A s \in Keeps(t) : Holds(s, t, seq[t], main.boot)
<1> SUFFICES ASSUME NEW s \in Keeps(t)
             PROVE  Holds(s, t, seq[t], main.boot)
  OBVIOUS
<1>1. PICK n, p, j \in 1..5 :
        Len(Plan(t, "sample")) = n /\ job[t].step = p /\ JournalStep(t) = j /\ p <= n
  BY StepIs DEF JobInv
<1>2. PICK k \in 1..n : Plan(t, "sample")[k] = s /\ s \in Stores /\ k < j
  BY <1>1, Sinks
<1>3. k \in 1..(job[t].step - 1)
  BY <1>1, <1>2
<1>4. Passed(t, k)
  BY <1>3 DEF JobInv
<1>5. store[s][t][seq[t]] = [boot |-> main.boot, torn |-> 0]
  BY <1>2, <1>4 DEF Passed
<1>6. main.boot \in Nat /\ main.boot # 0 /\ [boot |-> main.boot, torn |-> 0] \in File
  BY EvidenceAssumption DEF File, Boots
<1>7. PICK f \in File : f = store[s][t][seq[t]] /\ f.boot = main.boot /\ f.torn = 0
  BY <1>5, <1>6
<1> QED  BY <1>6, <1>7, AbsentAssumption DEF Holds

LEMMA JournalAppendInv ==
    ASSUME EvidenceInv, NEW t \in Samplers, JournalAppend(t)
    PROVE  EvidenceInv'
<1> DEFINE n == seq[t]
<1>1. /\ TypeOK /\ ThreadInv(t) /\ LinesInv /\ MainInv
      /\ EventsInv(t) /\ FilesInv(t) /\ CountInv(t) /\ JobInv(t)
      /\ Sampling(t) /\ Live(t) /\ main.at # "down"
      /\ job[t].step \in 1..Len(Plan(t, "sample"))
      /\ Plan(t, "sample")[job[t].step] = "journal"
      /\ n \in 0..MaxSamples /\ n < taken /\ taken \in Nat
      /\ boots \in Nat /\ main.boot \in Boots /\ main.boot <= boots
  BY AtRecord DEF JournalAppend
<1>2. PICK e \in Event : /\ e = Record(t)
                         /\ e.kind = "sample" /\ e.seq = n /\ e.boot = main.boot
  <2>1. /\ Record(t) \in Event
        /\ Record(t) = [kind |-> "sample", seq |-> n, boot |-> main.boot]
    BY AtRecord DEF JournalAppend
  <2> QED  BY <2>1
<1>3. /\ journal' = [journal EXCEPT ![t] = Append(journal[t], e)]
      /\ Advance(t)
      /\ UNCHANGED <<boots, main, taken, store, cli, ledger, anchors, head, anchorSeq>>
  BY <1>2 DEF JournalAppend, ledgerVars
<1>4. PICK p, m, j \in 1..5 :
        /\ Len(Plan(t, "sample")) = m /\ job[t].step = p /\ JournalStep(t) = j /\ p <= m
        /\ p = j
  BY <1>1, StepIs, Sinks
<1>5. /\ phase' \in [Samplers -> {"none", "loop", "job", "dead"}]
      /\ job' \in [Samplers -> Job] /\ seq' \in [Samplers -> 0..MaxSamples] /\ stop' = stop
      /\ \A u \in Samplers \ {t} :
           phase'[u] = phase[u] /\ job'[u] = job[u] /\ seq'[u] = seq[u]
  BY <1>1, <1>3, Advances
<1>6. /\ journal[t] \in Seq(Event) /\ Len(journal[t]) \in Nat
      /\ DOMAIN journal[t] = 1..Len(journal[t])
      /\ \A i \in DOMAIN journal[t] : journal[t][i].boot \in Boots /\ journal[t][i].seq \in Nat
  BY <1>1, EventTypes
<1>0. PICK last : last = Len(journal[t]) + 1
  OBVIOUS
<1>7. /\ journal' \in [Samplers -> Seq(Event)]
      /\ journal'[t] = Append(journal[t], e)
      /\ \A u \in Samplers \ {t} : journal'[u] = journal[u]
  <2>1. journal \in [Samplers -> Seq(Event)]
    BY <1>1 DEF TypeOK
  <2>2. Append(journal[t], e) \in Seq(Event)
    BY <1>6
  <2> QED  BY <1>3, <2>1, <2>2
<1>8. /\ DOMAIN journal'[t] = 1..last /\ journal'[t][last] = e
      /\ \A i \in 1..Len(journal[t]) : journal'[t][i] = journal[t][i]
  BY <1>0, <1>6, <1>7
<1>9. TypeOK'
  BY <1>1, <1>3, <1>5, <1>7 DEF TypeOK, LedgerTypeOK
<1>10. ~Journaled(t)
  BY <1>4 DEF Journaled
<1>11. ASSUME NEW i \in DOMAIN journal[t]
       PROVE  /\ StoredAll(t, i)' <=> StoredAll(t, i)
              /\ Complete(t, i)' <=> Complete(t, i)
              /\ LastOfBoot(t, i) /\ journal[t][i].boot # main.boot => LastOfBoot(t, i)'
              /\ journal[t][i].boot = main.boot => i \in OfBoot(t) /\ Complete(t, i)
              /\ Earlier(t, i)' = Earlier(t, i)
  <2>1. journal'[t][i] = journal[t][i] /\ i \in 1..Len(journal[t])
    BY <1>0, <1>6, <1>8
  <2>2. StoredAll(t, i)' <=> StoredAll(t, i)
    BY <1>3, <2>1, StoredStays
  <2>3. Complete(t, i)' <=> Complete(t, i)
    BY <1>3, <2>1, <2>2 DEF Complete, InLedger
  <2>4. LastOfBoot(t, i) /\ journal[t][i].boot # main.boot => LastOfBoot(t, i)'
    BY <1>2, <1>0, <1>6, <1>8, <2>1 DEF LastOfBoot
  <2>5. journal[t][i].boot = main.boot => i \in OfBoot(t) /\ Complete(t, i)
    BY <1>1, <1>10 DEF CountInv, OfBoot
  <2>6. \A k \in 1..(i - 1) : journal'[t][k] = journal[t][k]
    BY <1>0, <1>6, <1>8, <2>1
  <2>7. Earlier(t, i)' = Earlier(t, i)
    BY <2>1, <2>6 DEF Earlier
  <2> QED  BY <2>2, <2>3, <2>4, <2>5, <2>7
<1>12. /\ OfBoot(t)' = OfBoot(t) \cup {last} /\ last \notin OfBoot(t)
       /\ IsFiniteSet(OfBoot(t)) /\ Cardinality(OfBoot(t)) = n
       /\ Cardinality(OfBoot(t)') = n + 1
  <2>1. OfBoot(t)' = OfBoot(t) \cup {last} /\ last \notin OfBoot(t)
    BY <1>2, <1>3, <1>0, <1>6, <1>8 DEF OfBoot
  <2>2. IsFiniteSet(OfBoot(t))
    <3>1. IsFiniteSet(1..Len(journal[t]))
      BY <1>6, FS_Interval
    <3> QED  BY <1>6, <3>1, FS_Subset DEF OfBoot
  <2>3. Cardinality(OfBoot(t)) = n
    BY <1>1, <1>10 DEF CountInv
  <2>4. Cardinality(OfBoot(t) \cup {last}) = Cardinality(OfBoot(t)) + 1
    BY <2>1, <2>2, FS_AddElement
  <2> QED  BY <2>1, <2>2, <2>3, <2>4
<1>13. Earlier(t, last)' = OfBoot(t)
  <2>1. \A k \in 1..Len(journal[t]) : journal'[t][k] = journal[t][k] /\ journal[t][k].kind = "sample"
    BY <1>1, <1>0, <1>6, <1>8 DEF EventsInv
  <2>2. 1..(last - 1) = 1..Len(journal[t])
    BY <1>0, <1>6
  <2> QED  BY <1>2, <1>0, <1>6, <1>8, <2>1, <2>2 DEF Earlier, OfBoot
<1>14. t # "window" => StoredAll(t, last)'
  <2> SUFFICES ASSUME t # "window", ~Overlap
               PROVE  StoredAll(t, last)'
    BY DEF StoredAll
  <2>1. ASSUME NEW s \in Keeps(t)
        PROVE  Holds(s, t, n, main.boot)
    BY <1>1, <1>4, StoredBefore
  <2>2. ASSUME NEW s \in Keeps(t), NEW q, NEW b
        PROVE  Holds(s, t, q, b)' <=> Holds(s, t, q, b)
    BY <1>3 DEF Holds
  <2>3. journal'[t][last].seq = n /\ journal'[t][last].boot = main.boot
    BY <1>2, <1>8
  <2> QED  BY <2>1, <2>2, <2>3 DEF StoredAll
<1>15. LastOfBoot(t, last)'
  BY <1>0, <1>6, <1>8 DEF LastOfBoot
<1>16. ThreadInv(t)'
  <2>1. EventsInv(t)'
    <3>1. ASSUME NEW i \in DOMAIN journal[t]
          PROVE  /\ journal'[t][i].kind = "sample" /\ journal'[t][i].seq \in 0..MaxSamples
                 /\ journal'[t][i].boot <= boots
                 /\ main.at # "down" => journal'[t][i].boot <= main.boot
                 /\ cli.at # "off" => journal'[t][i].boot # cli.boot
                 /\ t # "window" => StoredAll(t, i)'
                 /\ Complete(t, i)' \/ LastOfBoot(t, i)'
                 /\ journal'[t][i].seq = Cardinality(Earlier(t, i)')
      <4>1. journal'[t][i] = journal[t][i]
        BY <1>0, <1>6, <1>8
      <4>2. Cardinality(Earlier(t, i)') = Cardinality(Earlier(t, i))
        BY <1>11
      <4> QED  BY <1>1, <1>11, <4>1, <4>2 DEF EventsInv
    <3>2. /\ journal'[t][last].kind = "sample" /\ journal'[t][last].seq \in 0..MaxSamples
          /\ journal'[t][last].boot <= boots
          /\ main.at # "down" => journal'[t][last].boot <= main.boot
          /\ cli.at # "off" => journal'[t][last].boot # cli.boot
          /\ t # "window" => StoredAll(t, last)'
          /\ Complete(t, last)' \/ LastOfBoot(t, last)'
          /\ journal'[t][last].seq = Cardinality(Earlier(t, last)')
      <4>1. main.boot <= main.boot /\ (cli.at # "off" => main.boot # cli.boot)
        BY <1>1 DEF Boots, MainInv
      <4>2. Cardinality(Earlier(t, last)') = n
        BY <1>12, <1>13
      <4> QED  BY <1>1, <1>2, <1>8, <1>14, <1>15, <4>1, <4>2
    <3>3. \A i \in DOMAIN journal'[t] : i \in DOMAIN journal[t] \/ i = last
      BY <1>0, <1>6, <1>8
    <3> QED  BY <1>3, <3>1, <3>2, <3>3 DEF EventsInv
  <2>2. FilesInv(t)'
    BY <1>1, <1>3, FilesStay
  <2>3. CountInv(t)'
    <3>1. Cardinality(OfBoot(t)') = IF job[t].step >= JournalStep(t) THEN seq[t] + 1 ELSE seq[t]
      BY <1>4, <1>12
    <3>2. ASSUME NEW i \in OfBoot(t)
          PROVE  /\ journal'[t][i].seq \in Nat
                 /\ journal'[t][i].seq < seq[t] /\ Complete(t, i)'
      <4>1. i \in DOMAIN journal[t] /\ journal'[t][i] = journal[t][i]
        BY <1>0, <1>6, <1>8 DEF OfBoot
      <4> QED  BY <1>1, <1>6, <1>10, <1>11, <4>1 DEF CountInv
    <3>3. /\ journal'[t][last].seq \in Nat
          /\ job[t].step >= JournalStep(t)
          /\ journal'[t][last].seq = seq[t] /\ LastOfBoot(t, last)'
          /\ job[t].step = Len(Plan(t, "sample")) => Complete(t, last)'
      <4>1. p = m => t # "window" /\ t # "capture"
        BY <1>4, Sinks DEF JournalStep
      <4> QED  BY <1>1, <1>2, <1>4, <1>8, <1>14, <1>15, <4>1 DEF Complete
    <3> QED  BY <1>1, <1>3, <1>12, <3>1, <3>2, <3>3, AdvancedCount
  <2>4. JobInv(t)'
    <3>1. ASSUME p < m, NEW k \in 1..p
          PROVE  Passed(t, k)'
      <4>1. k \in 1..Len(Plan(t, "sample"))
        BY <1>4
      <4>2. CASE k = p
        <5>1. Record(t)' = e
          BY <1>1, <1>2, <1>3, <1>4, <3>1, Advances, JobsAt DEF Record
        <5>2. journal'[t][last] = Record(t)' /\ last \in DOMAIN journal'[t]
          BY <1>0, <1>6, <1>8, <5>1
        <5> QED  BY <1>1, <1>4, <4>2, <5>2 DEF Passed, Stores
      <4>3. CASE k # p
        <5>1. Passed(t, k)
          BY <1>1, <1>4, <4>3 DEF JobInv
        <5>2. \A i \in DOMAIN journal[t] : i \in DOMAIN journal'[t] /\ journal'[t][i] = journal[t][i]
          BY <1>0, <1>6, <1>8
        <5> QED  BY <1>1, <1>3, <1>4, <3>1, <5>1, <5>2, PassedStays DEF InLedger
      <4> QED  BY <4>2, <4>3
    <3>2. job[t].step < Len(Plan(t, "sample")) => \A k \in 1..job[t].step : Passed(t, k)'
      BY <1>4, <3>1
    <3> QED  BY <1>1, <1>3, <3>2, AdvancedJob
  <2> QED  BY <2>1, <2>2, <2>3, <2>4 DEF ThreadInv
<1>17. LinesInv'
  <2>1. ~(t = "capture" /\ job[t].step = 5)
    BY <1>1, Sinks
  <2>2. \A i \in DOMAIN journal["capture"] :
          i \in DOMAIN journal'["capture"] /\ journal'["capture"][i] = journal["capture"][i]
    <3>1. \A i \in DOMAIN journal[t] : i \in DOMAIN journal'[t] /\ journal'[t][i] = journal[t][i]
      BY <1>0, <1>6, <1>8
    <3>2. t # "capture" => journal'["capture"] = journal["capture"]
      BY <1>7 DEF Samplers
    <3> QED  BY <3>1, <3>2
  <2> QED  BY <1>1, <1>3, <2>1, <2>2, AdvancedLines, LinesStay
<1>18. \A u \in Samplers \ {t} :
         /\ phase'[u] = phase[u] /\ seq'[u] = seq[u] /\ job'[u] = job[u] /\ journal'[u] = journal[u]
         /\ \A r \in Stores : store'[r][u] = store[r][u]
  BY <1>3, <1>5, <1>7
<1>19. UNCHANGED <<boots, main, cli>> /\ taken <= taken' /\ \A d : InLedger(d) => InLedger(d)'
  BY <1>1, <1>3 DEF InLedger
<1>20. \A r \in Stores, q \in 0..MaxSamples : store[r][t][q] # Absent => store'[r][t][q] # Absent
  BY <1>3
<1> QED  BY <1>1, <1>9, <1>16, <1>17, <1>18, <1>19, <1>20, SamplerStep

\* A process adds a line to the ledger.
LEMMA LedgerGrows ==
    ASSUME TypeOK, NEW p \in Procs, NEW e \in Entry, LedgerAppend(p, e)
    PROVE  /\ LedgerTypeOK(Entry)'
           /\ UNCHANGED <<anchors, anchorSeq>>
           /\ Len(ledger) \in Nat /\ DOMAIN ledger = 1..Len(ledger)
           /\ DOMAIN ledger' = 1..(Len(ledger) + 1)
           /\ ledger'[Len(ledger) + 1].body = e
           /\ \A i \in DOMAIN ledger : ledger'[i] = ledger[i]
           /\ head'[p] = Len(ledger) + 1
           /\ \A q \in Procs \ {p} : head'[q] = head[q]
           /\ \A d : InLedger(d) => InLedger(d)'
           /\ InLedger(e)'
<1>1. /\ ledger \in Seq([body : Entry, prev : Nat]) /\ head \in [Procs -> Nat]
      /\ anchors \in Seq([seq : Nat, head : Nat]) /\ anchorSeq \in [Procs -> Nat]
  BY DEF TypeOK, LedgerTypeOK
<1>2. PICK line : line = [body |-> e, prev |-> head[p]]
  OBVIOUS
<1>3. line \in [body : Entry, prev : Nat] /\ line.body = e
  BY <1>1, <1>2
<1>4. /\ ledger' = Append(ledger, line)
      /\ head' = [head EXCEPT ![p] = Len(ledger) + 1]
      /\ UNCHANGED <<anchors, anchorSeq>>
  BY <1>2 DEF LedgerAppend
<1>5. PICK S : S = [body : Entry, prev : Nat]
  OBVIOUS
<1>6. ledger \in Seq(S) /\ line \in S
  BY <1>1, <1>3, <1>5
<1>7. /\ ledger' \in Seq(S) /\ Len(ledger) \in Nat /\ DOMAIN ledger = 1..Len(ledger)
      /\ DOMAIN ledger' = 1..(Len(ledger) + 1)
      /\ ledger'[Len(ledger) + 1] = line
      /\ \A i \in DOMAIN ledger : ledger'[i] = ledger[i]
  BY <1>4, <1>6
<1>8. /\ head' \in [Procs -> Nat] /\ head'[p] = Len(ledger) + 1
      /\ \A q \in Procs \ {p} : head'[q] = head[q]
  BY <1>1, <1>4, <1>7
<1>9. LedgerTypeOK(Entry)'
  BY <1>1, <1>4, <1>5, <1>7, <1>8 DEF LedgerTypeOK
<1>10. \A d : InLedger(d) => InLedger(d)'
  BY <1>7 DEF InLedger
<1>11. InLedger(e)'
  BY <1>3, <1>7 DEF InLedger
<1> QED  BY <1>3, <1>4, <1>7, <1>8, <1>9, <1>10, <1>11

\* It may, if the lines of its boot are anchored.
LEMMA LinesGrow ==
    ASSUME TypeOK, LinesInv, NEW p \in Procs, NEW e \in Entry, LedgerAppend(p, e),
           UNCHANGED boots, journal'["capture"] = journal["capture"], e.boot <= boots,
           e.kind # "rotation" => \E j \in DOMAIN journal["capture"] : journal["capture"][j] = e,
           Unrecorded' => cli' = cli /\ e.boot # cli.boot,
           \A i \in DOMAIN ledger : ledger[i].body.boot = e.boot => Anchored(i)
    PROVE  \A i \in DOMAIN ledger' :
             /\ ledger'[i].body.boot <= boots'
             /\ ledger'[i].body.kind # "rotation" =>
                  \E j \in DOMAIN journal'["capture"] : journal'["capture"][j] = ledger'[i].body
             /\ Unrecorded' => ledger'[i].body.boot # cli'.boot
             /\ Anchored(i)' \/ LastLine(i)'
<1>0. PICK last : last = Len(ledger) + 1
  OBVIOUS
<1>1. /\ Len(ledger) \in Nat /\ DOMAIN ledger = 1..Len(ledger) /\ DOMAIN ledger' = 1..last
      /\ ledger'[last].body = e /\ \A i \in DOMAIN ledger : ledger'[i] = ledger[i]
      /\ anchors' = anchors
  BY <1>0, LedgerGrows
<1>2. \A i : Anchored(i) => Anchored(i)'
  BY <1>1 DEF Anchored
<1>3. ASSUME NEW i \in DOMAIN ledger
      PROVE  Anchored(i)' \/ LastLine(i)'
  <2>1. CASE ledger[i].body.boot = e.boot
    BY <1>2, <2>1
  <2>2. CASE ledger[i].body.boot # e.boot
    <3>1. Anchored(i) \/ LastLine(i)
      BY DEF LinesInv
    <3>2. LastLine(i) => LastLine(i)'
      <4> SUFFICES ASSUME LastLine(i), NEW j \in DOMAIN ledger', j > i
                   PROVE  ledger'[j].body.boot # ledger'[i].body.boot
        BY DEF LastLine
      <4>1. j \in DOMAIN ledger \/ j = last
        BY <1>0, <1>1
      <4> QED  BY <1>1, <2>2, <4>1 DEF LastLine
    <3> QED  BY <1>2, <3>1, <3>2
  <2> QED  BY <2>1, <2>2
<1>4. LastLine(last)'
  BY <1>0, <1>1 DEF LastLine
<1>5. \A i \in DOMAIN ledger' : i \in DOMAIN ledger \/ i = last
  BY <1>0, <1>1
<1> QED  BY <1>1, <1>3, <1>4, <1>5 DEF LinesInv, Unrecorded

\* A process anchors the head it remembers.
LEMMA AnchorsGrow ==
    ASSUME TypeOK, NEW p \in Procs, AnchorHead(p)
    PROVE  /\ LedgerTypeOK(Entry)'
           /\ UNCHANGED <<ledger, head>>
           /\ \A i : Anchored(i) => Anchored(i)'
           /\ \A i : i = head[p] => Anchored(i)'
<1>1. /\ ledger \in Seq([body : Entry, prev : Nat]) /\ head \in [Procs -> Nat]
      /\ anchors \in Seq([seq : Nat, head : Nat]) /\ anchorSeq \in [Procs -> Nat]
  BY DEF TypeOK, LedgerTypeOK
<1>2. PICK line : line = [seq |-> anchorSeq[p], head |-> head[p]]
  OBVIOUS
<1>3. line \in [seq : Nat, head : Nat] /\ line.head = head[p]
  BY <1>1, <1>2
<1>4. /\ anchors' = Append(anchors, line)
      /\ anchorSeq' = [anchorSeq EXCEPT ![p] = anchorSeq[p] + 1]
      /\ UNCHANGED <<ledger, head>>
  BY <1>2 DEF AnchorHead
<1>5. PICK S : S = [seq : Nat, head : Nat]
  OBVIOUS
<1>6. anchors \in Seq(S) /\ line \in S
  BY <1>1, <1>3, <1>5
<1>7. /\ anchors' \in Seq(S) /\ Len(anchors) \in Nat /\ DOMAIN anchors = 1..Len(anchors)
      /\ DOMAIN anchors' = 1..(Len(anchors) + 1)
      /\ anchors'[Len(anchors) + 1] = line
      /\ \A i \in DOMAIN anchors : anchors'[i] = anchors[i]
  BY <1>4, <1>6
<1>8. anchorSeq' \in [Procs -> Nat]
  BY <1>1, <1>4
<1>9. LedgerTypeOK(Entry)'
  BY <1>1, <1>4, <1>5, <1>7, <1>8 DEF LedgerTypeOK
<1>10. \A i : Anchored(i) => Anchored(i)'
  BY <1>7 DEF Anchored
<1>11. \A i : i = head[p] => Anchored(i)'
  BY <1>3, <1>7 DEF Anchored
<1> QED  BY <1>4, <1>9, <1>10, <1>11

\* Both provenance steps: the events and the files of the thread stay, the
\* sample moves on.
LEMMA ProvenanceStep ==
    ASSUME EvidenceInv, NEW t \in Samplers, NEW sink \in {"ledger", "anchor"},
           Writing(t, sink), sink = "anchor" \/ Canonical(job[t].kind), Advance(t),
           UNCHANGED <<boots, main, taken, store, journal, cli>>,
           LedgerTypeOK(Entry)', LinesInv',
           \A d : InLedger(d) => InLedger(d)',
           sink = "ledger" => InLedger(Record(t))'
    PROVE  EvidenceInv'
<1>1. /\ TypeOK /\ ThreadInv(t) /\ LinesInv /\ MainInv
      /\ EventsInv(t) /\ FilesInv(t) /\ CountInv(t) /\ JobInv(t)
      /\ Sampling(t) /\ Live(t) /\ main.at # "down"
      /\ job[t].step \in 1..Len(Plan(t, "sample"))
      /\ Plan(t, "sample")[job[t].step] = sink
      /\ seq[t] \in 0..MaxSamples /\ seq[t] < taken /\ taken \in Nat
      /\ boots \in Nat /\ main.boot \in Boots /\ main.boot <= boots
      /\ Record(t) = [kind |-> "sample", seq |-> seq[t], boot |-> main.boot]
  BY AtRecord
<1>2. PICK p, m, j \in 1..5 :
        /\ Len(Plan(t, "sample")) = m /\ job[t].step = p /\ JournalStep(t) = j /\ p <= m
  BY <1>1, StepIs
<1>3. /\ t = "capture" /\ j = 3 /\ m = 5
      /\ (sink = "ledger" /\ p = 4) \/ (sink = "anchor" /\ p = 5)
  <2>1. t = "capture" /\ ((sink = "ledger" /\ job[t].step = 4) \/ (sink = "anchor" /\ job[t].step = 5))
    BY <1>1, Sinks
  <2> QED  BY <1>2, <2>1, Sinks DEF JournalStep
<1>4. Journaled(t)
  BY <1>1, <1>2, <1>3 DEF Journaled
<1>5. /\ phase' \in [Samplers -> {"none", "loop", "job", "dead"}]
      /\ job' \in [Samplers -> Job] /\ seq' \in [Samplers -> 0..MaxSamples] /\ stop' = stop
      /\ \A u \in Samplers \ {t} :
           phase'[u] = phase[u] /\ job'[u] = job[u] /\ seq'[u] = seq[u]
  BY <1>1, Advances
<1>6. TypeOK'
  BY <1>1, <1>5 DEF TypeOK
<1>9. ASSUME NEW i \in DOMAIN journal[t]
      PROVE  /\ Complete(t, i) => Complete(t, i)'
             /\ StoredAll(t, i) <=> StoredAll(t, i)'
             /\ LastOfBoot(t, i) <=> LastOfBoot(t, i)'
             /\ journal[t][i].seq \in Nat /\ journal[t][i].boot \in Boots
  <2>1. journal[t][i].seq \in Nat /\ journal[t][i].boot \in Boots
    BY <1>1, EventTypes
  <2>2. StoredAll(t, i) <=> StoredAll(t, i)'
    BY StoredStays
  <2> QED  BY <2>1, <2>2 DEF Complete, LastOfBoot
<1>10. EventsInv(t)' /\ FilesInv(t)'
  <2>1. \A i \in DOMAIN journal[t] : StoredAll(t, i) => StoredAll(t, i)'
    BY <1>9
  <2>2. boots' \in Nat /\ boots <= boots'
    BY <1>1
  <2>3. EventsInv(t)'
    BY <1>1, <2>1, <2>2, EventsStay
  <2> QED  BY <1>1, <2>2, <2>3, FilesStay
<1>11. CountInv(t)'
  <2>1. OfBoot(t)' = OfBoot(t)
    BY DEF OfBoot
  <2>2. Cardinality(OfBoot(t)') = IF job[t].step >= JournalStep(t) THEN seq[t] + 1 ELSE seq[t]
    BY <1>1, <1>2, <1>3, <1>4, <2>1 DEF CountInv
  <2>3. ASSUME NEW i \in OfBoot(t), journal[t][i].seq = seq[t], p = m
        PROVE  Complete(t, i)
    <3>1. 4 \in 1..(job[t].step - 1)
      BY <1>2, <1>3, <2>3
    <3>2. Passed(t, 4)
      BY <1>1, <3>1 DEF JobInv
    <3>3. Plan(t, "sample")[4] = "ledger"
      <4>1. 4 \in 1..m
        BY <1>3
      <4> QED  BY <1>2, <1>3, <4>1, Sinks
    <3>4. InLedger(Record(t))
      BY <3>2, <3>3 DEF Passed
    <3>5. /\ i \in DOMAIN journal[t] /\ journal[t][i] \in Event
          /\ journal[t][i].kind = "sample" /\ journal[t][i].boot = main.boot
      BY <1>1, EventTypes DEF OfBoot, EventsInv
    <3>6. journal[t][i] = Record(t)
      BY <1>1, <2>3, <3>5 DEF Event
    <3>7. StoredAll(t, i)
      BY <1>1, <1>3, <3>5 DEF EventsInv
    <3> QED  BY <3>4, <3>6, <3>7 DEF Complete
  <2>4. ASSUME NEW i \in OfBoot(t)
        PROVE  /\ journal'[t][i].seq \in Nat
               /\ \/ journal'[t][i].seq < seq[t] /\ Complete(t, i)'
                  \/ /\ job[t].step >= JournalStep(t)
                     /\ journal'[t][i].seq = seq[t] /\ LastOfBoot(t, i)'
                     /\ job[t].step = Len(Plan(t, "sample")) => Complete(t, i)'
    <3>1. i \in DOMAIN journal[t]
      BY DEF OfBoot
    <3>2. \/ journal[t][i].seq < seq[t] /\ Complete(t, i)
          \/ journal[t][i].seq = seq[t] /\ LastOfBoot(t, i)
      BY <1>1 DEF CountInv
    <3>3. job[t].step >= JournalStep(t) /\ (job[t].step = Len(Plan(t, "sample")) <=> p = m)
      <4>1. p >= j
        BY <1>3
      <4> QED  BY <1>2, <4>1, Zenon
    <3>4. journal'[t][i].seq = journal[t][i].seq /\ seq[t] \in Nat
      BY <1>1
    <3> QED  BY <1>9, <2>3, <3>1, <3>2, <3>3, <3>4
  <2> QED  BY <1>1, <2>1, <2>2, <2>4, AdvancedCount
<1>12. JobInv(t)'
  <2>1. ASSUME p < m, NEW k \in 1..p
        PROVE  Passed(t, k)'
    <3>1. sink = "ledger" /\ p = 4
      BY <1>3, <2>1
    <3>2. CASE k = p
      BY <1>1, <1>2, <3>1, <3>2 DEF Passed, Stores
    <3>3. CASE k # p
      <4>1. Passed(t, k)
        BY <1>1, <1>2, <3>3 DEF JobInv
      <4> QED  BY <1>1, <1>2, <2>1, <4>1, PassedStays
    <3> QED  BY <3>2, <3>3
  <2>2. job[t].step < Len(Plan(t, "sample")) => \A k \in 1..job[t].step : Passed(t, k)'
    BY <1>2, <2>1
  <2> QED  BY <1>1, <2>2, AdvancedJob
<1>13. ThreadInv(t)'
  BY <1>10, <1>11, <1>12 DEF ThreadInv
<1>14. /\ taken <= taken' /\ UNCHANGED <<boots, main, cli>>
       /\ \A u \in Samplers \ {t} :
            /\ phase'[u] = phase[u] /\ seq'[u] = seq[u] /\ job'[u] = job[u] /\ journal'[u] = journal[u]
            /\ \A r \in Stores : store'[r][u] = store[r][u]
  BY <1>1, <1>5
<1> QED  BY <1>1, <1>6, <1>13, <1>14, SamplerStep

LEMMA AppendToLedgerInv ==
    ASSUME EvidenceInv, NEW t \in Samplers, AppendToLedger(t)
    PROVE  EvidenceInv'
<1>1. /\ TypeOK /\ ThreadInv(t) /\ LinesInv /\ MainInv
      /\ JobInv(t) /\ Sampling(t) /\ Live(t) /\ main.at # "down"
      /\ job[t].step \in 1..Len(Plan(t, "sample"))
      /\ Plan(t, "sample")[job[t].step] = "ledger"
      /\ boots \in Nat /\ main.boot \in Boots /\ main.boot <= boots
  BY AtRecord DEF AppendToLedger
<1>2. PICK e \in Entry : e = Record(t) /\ e.kind = "sample" /\ e.seq = seq[t] /\ e.boot = main.boot
  <2>1. /\ Record(t) \in Entry
        /\ Record(t) = [kind |-> "sample", seq |-> seq[t], boot |-> main.boot]
    BY AtRecord DEF AppendToLedger
  <2> QED  BY <2>1
<1>3. /\ LedgerAppend(RunProc, e) /\ Advance(t) /\ RunProc \in Procs
      /\ UNCHANGED <<boots, main, taken, store, journal, cli>>
  BY <1>2, EvidenceAssumption DEF AppendToLedger
<1>4. t = "capture" /\ job[t].step = 4
  BY <1>1, Sinks
<1>5. \E j \in DOMAIN journal["capture"] : journal["capture"][j] = e
  <2>1. Passed(t, 3)
    BY <1>1, <1>4 DEF JobInv
  <2>2. Plan(t, "sample")[3] = "journal"
    BY <1>4, Plans
  <2> QED  BY <1>2, <1>4, <2>1, <2>2 DEF Passed
<1>6. \A i \in DOMAIN ledger : ledger[i].body.boot = main.boot => Anchored(i)
  BY <1>1, <1>4 DEF LinesInv
<1>7. /\ phase' = phase /\ seq' = seq /\ Sampling(t)' /\ job'[t].step = 5
      /\ job'[t].kind = "sample" /\ phase'["capture"] # "none"
  <2>1. Len(Plan(t, "sample")) = 5
    BY <1>4, Sinks
  <2>2. job[t].step < Len(Plan(t, "sample")) /\ job[t].step # Len(Plan(t, "sample"))
    <3>1. 4 < 5 /\ 4 # 5
      OBVIOUS
    <3> QED  BY <1>4, <2>1, <3>1, Zenon
  <2>3. phase' = phase /\ seq' = seq /\ job'[t] = At("sample", 5)
    BY <1>1, <1>3, <1>4, <2>2, Advances
  <2> QED  BY <1>1, <1>4, <2>3, JobsAt DEF Sampling
<1>8. LinesInv'
  <2>0. PICK last : last = Len(ledger) + 1
    OBVIOUS
  <2>1. /\ Len(ledger) \in Nat /\ DOMAIN ledger = 1..Len(ledger) /\ DOMAIN ledger' = 1..last
        /\ \A i \in DOMAIN ledger : ledger'[i] = ledger[i]
        /\ head'[RunProc] = last /\ anchors' = anchors
    BY <1>1, <1>3, <2>0, LedgerGrows
  <2>2. Unrecorded' => cli' = cli /\ e.boot # cli.boot
    BY <1>1, <1>2, <1>3 DEF MainInv, Unrecorded, Stores
  <2>3. e.boot <= boots /\ journal'["capture"] = journal["capture"] /\ boots' = boots
    BY <1>1, <1>2, <1>3
  <2>4. \A i \in DOMAIN ledger' :
          /\ ledger'[i].body.boot <= boots'
          /\ ledger'[i].body.kind # "rotation" =>
               \E j \in DOMAIN journal'["capture"] : journal'["capture"][j] = ledger'[i].body
          /\ Unrecorded' => ledger'[i].body.boot # cli'.boot
          /\ Anchored(i)' \/ LastLine(i)'
    BY <1>1, <1>2, <1>3, <1>5, <1>6, <2>2, <2>3, LinesGrow
  <2>5. ASSUME NEW i \in DOMAIN ledger', ledger'[i].body.boot = main'.boot
        PROVE  Anchored(i)' \/ head'[RunProc] = i
    <3>1. CASE i \in DOMAIN ledger
      <4>1. Anchored(i)
        BY <1>3, <1>6, <2>1, <2>5, <3>1
      <4> QED  BY <2>1, <4>1 DEF Anchored
    <3>2. CASE i \notin DOMAIN ledger
      BY <2>0, <2>1, <3>2
    <3> QED  BY <3>1, <3>2
  <2> QED  BY <1>4, <1>7, <2>4, <2>5 DEF LinesInv
<1>9. LedgerTypeOK(Entry)' /\ (\A d : InLedger(d) => InLedger(d)') /\ InLedger(e)'
  BY <1>1, <1>3, LedgerGrows
<1>10. InLedger(Record(t))'
  <2>1. seq'[t] = seq[t] /\ job'[t].kind = "sample"
    BY <1>7
  <2>2. Record(t)' = e
    BY <1>1, <1>2, <1>3, <2>1 DEF Record, Sampling
  <2> QED  BY <1>9, <2>2
<1>11. Writing(t, "ledger") /\ Canonical(job[t].kind)
  BY DEF AppendToLedger
<1> QED  BY <1>3, <1>8, <1>9, <1>10, <1>11, ProvenanceStep

LEMMA AnchorLedgerInv ==
    ASSUME EvidenceInv, NEW t \in Samplers, AnchorLedger(t)
    PROVE  EvidenceInv'
<1>1. /\ TypeOK /\ ThreadInv(t) /\ LinesInv /\ MainInv
      /\ JobInv(t) /\ Sampling(t) /\ Live(t) /\ main.at # "down"
      /\ job[t].step \in 1..Len(Plan(t, "sample"))
      /\ Plan(t, "sample")[job[t].step] = "anchor"
  BY AtRecord DEF AnchorLedger
<1>2. /\ AnchorHead(RunProc) /\ Advance(t) /\ RunProc \in Procs /\ Writing(t, "anchor")
      /\ UNCHANGED <<boots, main, taken, store, journal, cli>>
  BY EvidenceAssumption DEF AnchorLedger
<1>3. t = "capture" /\ job[t].step = 5
  BY <1>1, Sinks
<1>4. phase'["capture"] # "none"
  BY <1>1, <1>2, <1>3, Advances DEF Sampling
<1>5. /\ LedgerTypeOK(Entry)' /\ UNCHANGED <<ledger, head>>
      /\ \A i : Anchored(i) => Anchored(i)'
      /\ \A i : i = head[RunProc] => Anchored(i)'
  BY <1>1, <1>2, AnchorsGrow
<1>6. LinesInv'
  <2>1. ASSUME NEW i \in DOMAIN ledger
        PROVE  /\ ledger[i].body.boot <= boots
               /\ ledger[i].body.kind # "rotation" =>
                    \E j \in DOMAIN journal["capture"] : journal["capture"][j] = ledger[i].body
               /\ Unrecorded => ledger[i].body.boot # cli.boot
               /\ Anchored(i)' \/ LastLine(i)'
    BY <1>1, <1>5 DEF LinesInv, LastLine
  <2>2. ASSUME NEW i \in DOMAIN ledger, ledger[i].body.boot = main.boot
        PROVE  Anchored(i)'
    BY <1>1, <1>3, <1>5, <2>2 DEF LinesInv
  <2> QED  BY <1>2, <1>4, <1>5, <2>1, <2>2 DEF LinesInv, Unrecorded
<1>7. \A d : InLedger(d) => InLedger(d)'
  BY <1>5 DEF InLedger
<1> QED  BY <1>2, <1>5, <1>6, <1>7, ProvenanceStep

----------------------------------------------------------------------------
(* The main thread.                                                        *)

MainStates == [at : {"down", "starting", "running", "stopping"},
               next : 1..3, joining : BOOLEAN, boot : 0..MaxBoots]

LEMMA MainSet ==
    ASSUME NEW a \in {"down", "starting", "running", "stopping"}, NEW n \in 1..3,
           NEW b \in 0..MaxBoots
    PROVE  LET r == [at |-> a, next |-> n, joining |-> FALSE, boot |-> b]
           IN r \in MainStates /\ r.at = a /\ r.next = n /\ r.boot = b
<1>1. FALSE \in BOOLEAN
  OBVIOUS
<1> QED  BY <1>1, Zenon DEF MainStates

LEMMA MainSetJoining ==
    ASSUME NEW r \in MainStates
    PROVE  /\ LET q == [r EXCEPT !.joining = TRUE]
              IN q \in MainStates /\ q.at = r.at /\ q.next = r.next /\ q.boot = r.boot
           /\ LET q == [r EXCEPT !.joining = FALSE]
              IN q \in MainStates /\ q.at = r.at /\ q.next = r.next /\ q.boot = r.boot
<1>1. ASSUME NEW b
      PROVE  LET q == [r EXCEPT !.joining = b]
             IN (b \in BOOLEAN => q \in MainStates) /\ q.at = r.at /\ q.next = r.next /\ q.boot = r.boot
  BY DEF MainStates
<1>2. TRUE \in BOOLEAN /\ FALSE \in BOOLEAN
  OBVIOUS
<1> QED  BY <1>1, <1>2, Zenon

\* A step between boot and exit that starts no thread.
LEMMA MainMoves ==
    ASSUME EvidenceInv, TypeOK', main.at # "down", main'.at \in {"running", "stopping"},
           main'.boot = main.boot,
           UNCHANGED <<boots, taken, phase, seq, job, store, journal, cli, ledgerVars>>
    PROVE  EvidenceInv'
<1>1. /\ TypeOK /\ MainInv /\ LinesInv /\ boots \in Nat /\ taken \in Nat
      /\ UNCHANGED <<ledger, anchors, head, anchorSeq>>
  BY EvidenceAssumption DEF EvidenceInv, TypeOK, ledgerVars
<1>2. MainInv'
  BY <1>1 DEF MainInv
<1>3. ASSUME NEW t \in Samplers
      PROVE  ThreadInv(t)'
  <2>1. ThreadInv(t)
    BY DEF EvidenceInv
  <2>2. phase'[t] = "none" => \A i \in DOMAIN journal[t] : journal[t][i].boot # main'.boot
    BY <2>1 DEF ThreadInv, CountInv, OfBoot
  <2>3. \A e : InLedger(e) => InLedger(e)'
    BY <1>1 DEF InLedger
  <2>4. Live(t)' => Live(t)
    BY DEF Live
  <2> QED  BY <1>1, <2>1, <2>2, <2>3, ThreadStays
<1>4. LinesInv'
  <2>1. Live("capture")' <=> Live("capture")
    BY DEF Live
  <2>2. Sampling("capture")' <=> Sampling("capture")
    BY DEF Sampling
  <2> QED  BY <1>1, <2>1, <2>2, LinesStay
<1>5. CliInv'
  BY DEF EvidenceInv, CliInv
<1> QED  BY <1>2, <1>3, <1>4, <1>5 DEF EvidenceInv

\* A step that ends a process, or only begins one: no thread is alive.
LEMMA NoThread ==
    ASSUME EvidenceInv, TypeOK', MainInv',
           \A t \in Samplers : phase'[t] = "none",
           boots' \in Nat, boots <= boots',
           (main'.at = "down" /\ main'.boot = 0) \/ (main'.boot = boots + 1 /\ main'.boot = boots'),
           ~Overlap => main'.at = "down" \/ cli.at = "off",
           UNCHANGED <<store, journal, cli, ledger, anchors>>
    PROVE  EvidenceInv'
<1>1. TypeOK /\ LinesInv /\ boots \in Nat
  BY DEF EvidenceInv, TypeOK
<1>2. \A e : InLedger(e) => InLedger(e)'
  BY DEF InLedger
<1>3. ASSUME NEW t \in Samplers
      PROVE  ThreadInv(t)'
  <2>1. ThreadInv(t) /\ ~Live(t)'
    BY DEF EvidenceInv, Live
  <2>2. \A i \in DOMAIN journal[t] : journal[t][i].boot # main'.boot
    <3>1. \A i \in DOMAIN journal[t] : journal[t][i].boot \in Boots /\ journal[t][i].boot <= boots
      BY <1>1, <2>1, EventTypes DEF ThreadInv, EventsInv
    <3> QED  BY <1>1, <3>1 DEF Boots
  <2>3. main'.at # "down" => main'.boot = boots'
    OBVIOUS
  <2> QED  BY <1>1, <1>2, <2>1, <2>2, <2>3, ThreadStays
<1>4. LinesInv'
  <2>1. \A i \in DOMAIN ledger : ledger[i].body.boot # main'.boot
    <3>1. \A i \in DOMAIN ledger : ledger[i].body.boot \in Boots /\ ledger[i].body.boot <= boots
      BY <1>1, LineTypes DEF LinesInv
    <3> QED  BY <1>1, <3>1 DEF Boots
  <2> QED  BY <1>1, <2>1, LinesStay
<1>5. CliInv'
  BY DEF EvidenceInv, CliInv
<1> QED  BY <1>3, <1>4, <1>5 DEF EvidenceInv

LEMMA GoneInv ==
    ASSUME EvidenceInv, Gone, UNCHANGED <<boots, store, journal, cli, ledgerVars>>
    PROVE  EvidenceInv'
<1>1. /\ TypeOK /\ MainInv /\ boots \in Nat /\ MaxBoots \in Nat /\ MaxSamples \in Nat
      /\ UNCHANGED <<boots, store, journal, cli, ledger, anchors, head, anchorSeq>>
  BY EvidenceAssumption DEF EvidenceInv, TypeOK, ledgerVars
<1>2. main' \in MainStates /\ main'.at = "down" /\ main'.boot = 0
  <2>1. 0 \in 0..MaxBoots /\ 1 \in 1..3 /\ "down" \in {"down", "starting", "running", "stopping"}
    BY <1>1
  <2> QED  BY <2>1, MainSet, Zenon DEF Gone
<1>3. /\ phase' = [t \in Samplers |-> "none"]
      /\ seq' = [t \in Samplers |-> 0]
      /\ taken' = 0
  BY DEF Gone
<1>4. \A t \in Samplers : phase'[t] = "none"
  BY <1>3
<1>5. stop' \in [Samplers -> BOOLEAN] /\ job' \in [Samplers -> Job]
  <2>1. FALSE \in BOOLEAN /\ NoJob \in Job
    BY JobsAt
  <2>2. stop' \in [Samplers -> BOOLEAN]
    BY <2>1, Zenon DEF Gone
  <2>3. job' \in [Samplers -> Job]
    BY <2>1, Zenon DEF Gone
  <2> QED  BY <2>2, <2>3
<1>6. TypeOK'
  BY <1>1, <1>2, <1>3, <1>5 DEF TypeOK, LedgerTypeOK, MainStates
<1>7. MainInv'
  BY <1>1, <1>2, <1>4 DEF MainInv
<1>8. boots' \in Nat /\ boots <= boots' /\ UNCHANGED <<store, journal, cli, ledger, anchors>>
  BY <1>1
<1>9. /\ ~Overlap => main'.at = "down" \/ cli.at = "off"
      /\ (main'.at = "down" /\ main'.boot = 0) \/ (main'.boot = boots + 1 /\ main'.boot = boots')
  BY <1>1, <1>2
<1> QED  BY <1>4, <1>6, <1>7, <1>8, <1>9, NoThread

LEMMA BootInv ==
    ASSUME EvidenceInv, Boot
    PROVE  EvidenceInv'
<1>1. /\ TypeOK /\ MainInv /\ main.at = "down" /\ boots \in Nat /\ MaxBoots \in Nat
      /\ boots < MaxBoots /\ boots' = boots + 1 /\ RunProc \in Procs
      /\ head' = [head EXCEPT ![RunProc] = Len(ledger)]
      /\ anchorSeq' = [anchorSeq EXCEPT ![RunProc] = Len(anchors)]
      /\ UNCHANGED <<ledger, anchors, taken, phase, stop, seq, job, store, journal, cli>>
  BY EvidenceAssumption DEF EvidenceInv, TypeOK, Boot, OpenWriters, threadVars
<1>2. main' \in MainStates /\ main'.at = "starting" /\ main'.next = 1 /\ main'.boot = boots + 1
  <2>1. boots + 1 \in 0..MaxBoots /\ 1 \in 1..3
        /\ "starting" \in {"down", "starting", "running", "stopping"}
    BY <1>1
  <2> QED  BY <2>1, MainSet, Zenon DEF Boot
<1>3. \A t \in Samplers : phase'[t] = "none"
  BY <1>1 DEF MainInv
<1>4. TypeOK'
  <2>1. LedgerTypeOK(Entry)'
    <3>1. LedgerTypeOK(Entry)
      BY <1>1 DEF TypeOK
    <3>2. Len(ledger) \in Nat /\ Len(anchors) \in Nat
      BY <3>1 DEF LedgerTypeOK
    <3> QED  BY <1>1, <3>1, <3>2 DEF LedgerTypeOK
  <2>2. boots' \in 0..MaxBoots
    BY <1>1
  <2> QED  BY <1>1, <1>2, <2>1, <2>2 DEF TypeOK, MainStates
<1>5. MainInv'
  <2>1. \A k \in 1..3 : phase'[Order[k]] = "none"
    BY <1>3 DEF Order, Samplers
  <2>2. cli'.at # "off" => cli'.boot \in 1..boots' /\ cli'.boot # main'.boot
    BY <1>1, <1>2 DEF MainInv
  <2> QED  BY <1>1, <1>2, <2>1, <2>2 DEF MainInv
<1>6. boots' \in Nat /\ boots <= boots' /\ main'.boot = boots'
  BY <1>1, <1>2
<1>7. ~Overlap => cli.at = "off"
  BY DEF Boot
<1> QED  BY <1>1, <1>2, <1>3, <1>4, <1>5, <1>6, <1>7, NoThread

LEMMA InterruptInv ==
    ASSUME EvidenceInv, Interrupt
    PROVE  EvidenceInv'
<1>1. /\ TypeOK /\ main \in MainStates /\ main.at = "running"
      /\ main' = [main EXCEPT !.at = "stopping"]
      /\ UNCHANGED <<boots, taken, phase, stop, seq, job, store, journal, cli, ledgerVars>>
  BY DEF EvidenceInv, TypeOK, MainStates, Interrupt, threadVars
<1>2. main' \in MainStates /\ main'.at = "stopping" /\ main'.boot = main.boot
  BY <1>1 DEF MainStates
<1>3. TypeOK'
  BY <1>1, <1>2 DEF TypeOK, LedgerTypeOK, ledgerVars, MainStates
<1> QED  BY <1>1, <1>2, <1>3, MainMoves

LEMMA SetStopInv ==
    ASSUME EvidenceInv, SetStop
    PROVE  EvidenceInv'
<1>1. /\ TypeOK /\ main \in MainStates /\ main.at = "stopping"
      /\ main' = [main EXCEPT !.joining = TRUE]
      /\ UNCHANGED <<boots, taken, phase, seq, job, store, journal, cli, ledgerVars>>
  BY DEF EvidenceInv, TypeOK, MainStates, SetStop
<1>2. main' \in MainStates /\ main'.at = "stopping" /\ main'.boot = main.boot
  BY <1>1, MainSetJoining, Zenon
<1>3. stop' \in [Samplers -> BOOLEAN]
  <2>1. PICK b \in BOOLEAN : stop' = [stop EXCEPT ![Order[main.next]] = b]
    BY DEF SetStop
  <2>2. stop \in [Samplers -> BOOLEAN]
    BY <1>1 DEF TypeOK
  <2> QED  BY <2>1, <2>2
<1>4. TypeOK'
  BY <1>1, <1>2, <1>3 DEF TypeOK, LedgerTypeOK, ledgerVars, MainStates
<1> QED  BY <1>1, <1>2, <1>4, MainMoves

LEMMA JoinedInv ==
    ASSUME EvidenceInv, Joined
    PROVE  EvidenceInv'
<1>1. /\ TypeOK /\ main \in MainStates /\ main.at = "stopping"
      /\ UNCHANGED <<boots, store, journal, cli, ledgerVars>>
  BY DEF EvidenceInv, TypeOK, MainStates, Joined
<1>2. CASE main.next < 3
  <2>1. /\ main' = [main EXCEPT !.next = @ + 1, !.joining = FALSE]
        /\ UNCHANGED <<taken, phase, stop, seq, job>>
    BY <1>2 DEF Joined, threadVars
  <2>2. PICK q : q = [main EXCEPT !.next = @ + 1]
    OBVIOUS
  <2>3. q \in MainStates /\ q.at = "stopping" /\ q.boot = main.boot
    BY <1>1, <1>2, <2>2 DEF MainStates
  <2>4. main' = [q EXCEPT !.joining = FALSE]
    BY <2>1, <2>2
  <2>5. main' \in MainStates /\ main'.at = "stopping" /\ main'.boot = main.boot
    BY <2>3, <2>4, MainSetJoining, Zenon
  <2>6. TypeOK'
    BY <1>1, <2>1, <2>5 DEF TypeOK, LedgerTypeOK, ledgerVars, MainStates
  <2> QED  BY <1>1, <2>1, <2>5, <2>6, MainMoves
<1>3. CASE ~(main.next < 3)
  <2>1. Gone
    BY <1>3 DEF Joined
  <2> QED  BY <1>1, <2>1, GoneInv
<1> QED  BY <1>2, <1>3

LEMMA StartSamplerInv ==
    ASSUME EvidenceInv, StartSampler
    PROVE  EvidenceInv'
<1>1. /\ TypeOK /\ MainInv /\ LinesInv /\ main \in MainStates /\ main.at = "starting"
      /\ main.next \in 1..3 /\ boots \in Nat /\ taken \in Nat /\ MaxSamples \in Nat
      /\ UNCHANGED <<boots, taken, job, store, journal, cli, ledger, anchors, head, anchorSeq>>
  BY EvidenceAssumption DEF EvidenceInv, TypeOK, StartSampler, ledgerVars, MainStates
<1>2. PICK t \in Samplers : t = Order[main.next]
  BY <1>1 DEF Order, Samplers
<1>3. /\ phase' = [phase EXCEPT ![t] = "loop"] /\ seq' = [seq EXCEPT ![t] = 0]
      /\ stop' = [stop EXCEPT ![t] = FALSE]
  BY <1>2 DEF StartSampler
<1>4. /\ phase' \in [Samplers -> {"none", "loop", "job", "dead"}]
      /\ seq' \in [Samplers -> 0..MaxSamples]
      /\ phase'[t] = "loop" /\ seq'[t] = 0
      /\ \A u \in Samplers \ {t} : phase'[u] = phase[u] /\ seq'[u] = seq[u]
  BY <1>1, <1>3 DEF TypeOK
<1>5. /\ main' \in MainStates /\ main'.boot = main.boot /\ main'.at # "down"
      /\ main'.at = "starting" => main.next < 3 /\ main'.next = main.next + 1
  <2>1. CASE main.next < 3
    <3>1. PICK n \in 1..3 : n = main.next + 1
      BY <1>1, <2>1
    <3>2. main' = [main EXCEPT !.next = n]
      BY <2>1, <3>1 DEF StartSampler
    <3>3. main' \in MainStates /\ main'.boot = main.boot /\ main'.at = main.at /\ main'.next = n
      BY <1>1, <3>2 DEF MainStates
    <3> QED  BY <1>1, <2>1, <3>1, <3>3
  <2>2. CASE ~(main.next < 3)
    <3>1. main' = [main EXCEPT !.at = "running", !.next = 1]
      BY <2>2 DEF StartSampler
    <3>2. PICK q : q = [main EXCEPT !.at = "running"]
      OBVIOUS
    <3>3. q \in MainStates /\ q.at = "running" /\ q.boot = main.boot
      BY <1>1, <3>2 DEF MainStates
    <3>4. main' = [q EXCEPT !.next = 1]
      BY <3>1, <3>2
    <3>5. main' \in MainStates /\ main'.at = "running" /\ main'.boot = main.boot
      BY <3>3, <3>4 DEF MainStates
    <3> QED  BY <3>5
  <2> QED  BY <2>1, <2>2
<1>6. phase[t] = "none"
  BY <1>1, <1>2 DEF MainInv
<1>7. TypeOK'
  <2>1. stop' \in [Samplers -> BOOLEAN]
    <3>1. PICK b \in BOOLEAN : stop' = [stop EXCEPT ![t] = b]
      BY <1>3
    <3> QED  BY <1>1, <3>1 DEF TypeOK
  <2> QED  BY <1>1, <1>4, <1>5, <2>1 DEF TypeOK, LedgerTypeOK, MainStates
<1>8. MainInv'
  <2>1. ASSUME main'.at = "starting", NEW k \in main'.next..3
        PROVE  phase'[Order[k]] = "none"
    <3>1. k \in main.next..3 /\ k \in 1..3 /\ k # main.next
      BY <1>1, <1>5, <2>1
    <3>2. Order[k] \in Samplers /\ Order[k] # t
      BY <1>1, <1>2, <3>1 DEF Order, Samplers
    <3> QED  BY <1>1, <1>4, <3>1, <3>2 DEF MainInv
  <2> QED  BY <1>1, <1>5, <2>1 DEF MainInv
<1>9. \A e : InLedger(e) => InLedger(e)'
  BY <1>1 DEF InLedger
<1>10. ASSUME NEW u \in Samplers \ {t}
       PROVE  ThreadInv(u)'
  <2>1. ThreadInv(u)
    BY DEF EvidenceInv
  <2>2. phase'[u] = "none" => \A i \in DOMAIN journal[u] : journal[u][i].boot # main'.boot
    BY <1>4, <1>5, <2>1 DEF ThreadInv, CountInv, OfBoot
  <2> QED  BY <1>1, <1>4, <1>5, <1>9, <2>1, <2>2, ThreadStays DEF Live
<1>11. ThreadInv(t)'
  <2>1. EventsInv(t) /\ FilesInv(t) /\ CountInv(t)
    BY DEF EvidenceInv, ThreadInv
  <2>2. EventsInv(t)'
    BY <1>1, <1>5, <1>9, <2>1, StoredStays, EventsStay
  <2>3. FilesInv(t)'
    BY <1>1, <1>5, <2>1, FilesStay
  <2>4. ~Sampling(t)' /\ ~Journaled(t)'
    BY <1>4 DEF Sampling, Journaled
  <2>5. CountInv(t)'
    <3>1. OfBoot(t)' = {}
      BY <1>1, <1>5, <1>6, <2>1 DEF OfBoot, CountInv
    <3>2. Cardinality(OfBoot(t)') = 0
      BY <3>1, FS_EmptySet
    <3> QED  BY <1>4, <2>4, <3>1, <3>2 DEF CountInv
  <2>6. JobInv(t)'
    BY <1>1, <1>4, <1>5, <2>4 DEF JobInv
  <2> QED  BY <2>2, <2>3, <2>5, <2>6 DEF ThreadInv
<1>12. LinesInv'
  <2>1. CASE t = "capture"
    <3>1. \A i \in DOMAIN ledger : ledger[i].body.boot # main'.boot
      BY <1>1, <1>5, <1>6, <2>1 DEF LinesInv
    <3> QED  BY <1>1, <3>1, LinesStay
  <2>2. CASE t # "capture"
    <3>1. phase'["capture"] = phase["capture"] /\ job' = job
      BY <1>1, <1>4, <2>2 DEF Samplers
    <3>2. /\ Live("capture")' <=> Live("capture")
          /\ Sampling("capture")' <=> Sampling("capture")
      BY <3>1 DEF Live, Sampling
    <3> QED  BY <1>1, <1>5, <3>1, <3>2, LinesStay
  <2> QED  BY <2>1, <2>2
<1>13. CliInv'
  BY <1>1 DEF EvidenceInv, CliInv
<1> QED  BY <1>7, <1>8, <1>10, <1>11, <1>12, <1>13 DEF EvidenceInv

----------------------------------------------------------------------------
(* The other process.                                                      *)

CliStates == [at : {"off", "open", "recorded"} \cup Stores, boot : 0..MaxBoots,
              todo : SUBSET Ids, step : {"next", "got", "open"}, file : Ids, held : 0..MaxBoots]

LEMMA CliNone ==
    /\ NoCli \in CliStates /\ NoId \in Ids
    /\ NoCli.at = "off" /\ NoCli.boot = 0 /\ NoCli.todo = {} /\ NoCli.step = "next"
<1>1. 0 \in 0..MaxSamples /\ 0 \in 0..MaxBoots /\ "capture" \in Samplers
  BY EvidenceAssumption DEF Samplers
<1>2. NoId \in Ids
  BY <1>1 DEF NoId, Ids
<1> QED  BY <1>1, <1>2 DEF NoCli, CliStates

\* Setting a field of the rotation's state.
LEMMA SetAt ==
    ASSUME NEW c \in CliStates, NEW a \in {"off", "open", "recorded"} \cup Stores
    PROVE  LET d == [c EXCEPT !.at = a]
           IN /\ d \in CliStates /\ d.at = a /\ d.boot = c.boot /\ d.todo = c.todo
              /\ d.step = c.step /\ d.file = c.file /\ d.held = c.held
  BY DEF CliStates

LEMMA SetBoot ==
    ASSUME NEW c \in CliStates, NEW b \in 0..MaxBoots
    PROVE  LET d == [c EXCEPT !.boot = b]
           IN /\ d \in CliStates /\ d.at = c.at /\ d.boot = b /\ d.todo = c.todo
              /\ d.step = c.step /\ d.file = c.file /\ d.held = c.held
  BY DEF CliStates

LEMMA SetTodo ==
    ASSUME NEW c \in CliStates, NEW todo \in SUBSET Ids
    PROVE  LET d == [c EXCEPT !.todo = todo]
           IN /\ d \in CliStates /\ d.at = c.at /\ d.boot = c.boot /\ d.todo = todo
              /\ d.step = c.step /\ d.file = c.file /\ d.held = c.held
  BY DEF CliStates

LEMMA SetStep ==
    ASSUME NEW c \in CliStates, NEW step \in {"next", "got", "open"}
    PROVE  LET d == [c EXCEPT !.step = step]
           IN /\ d \in CliStates /\ d.at = c.at /\ d.boot = c.boot /\ d.todo = c.todo
              /\ d.step = step /\ d.file = c.file /\ d.held = c.held
  BY DEF CliStates

LEMMA SetFile ==
    ASSUME NEW c \in CliStates, NEW k \in Ids
    PROVE  LET d == [c EXCEPT !.file = k]
           IN /\ d \in CliStates /\ d.at = c.at /\ d.boot = c.boot /\ d.todo = c.todo
              /\ d.step = c.step /\ d.file = k /\ d.held = c.held
  BY DEF CliStates

LEMMA SetHeld ==
    ASSUME NEW c \in CliStates, NEW h \in 0..MaxBoots
    PROVE  LET d == [c EXCEPT !.held = h]
           IN /\ d \in CliStates /\ d.at = c.at /\ d.boot = c.boot /\ d.todo = c.todo
              /\ d.step = c.step /\ d.file = c.file /\ d.held = h
  BY DEF CliStates

\* A step of the rotation that leaves the stores alone.
LEMMA CliMoves ==
    ASSUME EvidenceInv, TypeOK', LinesInv', CliInv',
           UNCHANGED <<main, taken, phase, stop, seq, job, store, journal>>,
           boots <= boots', \A e : InLedger(e) => InLedger(e)',
           cli'.at # "off" => \/ cli.at # "off" /\ cli'.boot = cli.boot
                              \/ cli'.boot = boots + 1 /\ boots' = boots + 1
    PROVE  EvidenceInv'
<1>1. TypeOK /\ MainInv /\ boots \in Nat /\ boots' \in Nat /\ taken \in Nat
  BY EvidenceAssumption DEF EvidenceInv, TypeOK
<1>2. MainInv'
  <2>1. cli'.at # "off" => cli'.boot \in 1..boots' /\ cli'.boot # main'.boot
    <3>1. main.boot \in 0..boots
      BY <1>1 DEF MainInv, TypeOK
    <3> QED  BY <1>1, <3>1 DEF MainInv
  <2>2. main'.at # "down" => main'.boot \in 1..boots'
    BY <1>1 DEF MainInv
  <2> QED  BY <1>1, <2>1, <2>2 DEF MainInv
<1>3. ASSUME NEW t \in Samplers
      PROVE  ThreadInv(t)'
  <2>1. ThreadInv(t)
    BY DEF EvidenceInv
  <2>2. phase'[t] = "none" => \A i \in DOMAIN journal[t] : journal[t][i].boot # main'.boot
    BY <2>1 DEF ThreadInv, CountInv, OfBoot
  <2>3. Live(t)' => main'.at # "down"
    BY <2>1 DEF ThreadInv, JobInv, Live
  <2>4. main'.at # "down" => main.at # "down" /\ main'.boot = main.boot
    OBVIOUS
  <2> QED  BY <1>1, <2>1, <2>2, <2>3, <2>4, ThreadStays
<1> QED  BY <1>2, <1>3 DEF EvidenceInv

LEMMA CliBootInv ==
    ASSUME EvidenceInv, CliBoot
    PROVE  /\ EvidenceInv'
           /\ cli'.at = "open" /\ cli'.boot = boots + 1 /\ cli'.step = "next"
<1>1. /\ TypeOK /\ MainInv /\ LinesInv /\ boots \in Nat /\ MaxBoots \in Nat
      /\ boots < MaxBoots /\ boots' = boots + 1 /\ RunProc # CliProc
      /\ RunProc \in Procs /\ CliProc \in Procs
      /\ cli' = [NoCli EXCEPT !.at = "open", !.boot = boots + 1]
      /\ head' = [head EXCEPT ![CliProc] = Len(ledger)]
      /\ anchorSeq' = [anchorSeq EXCEPT ![CliProc] = Len(anchors)]
      /\ UNCHANGED <<ledger, anchors, main, taken, phase, stop, seq, job, store, journal>>
  BY EvidenceAssumption DEF EvidenceInv, TypeOK, CliBoot, OpenWriters, threadVars
<1>2. /\ cli' \in CliStates /\ cli'.at = "open" /\ cli'.boot = boots + 1
      /\ cli'.step = "next"
  <2>1. boots + 1 \in 0..MaxBoots /\ "open" \in {"off", "open", "recorded"} \cup Stores
    BY <1>1
  <2>2. PICK c : c = [NoCli EXCEPT !.at = "open"]
    OBVIOUS
  <2>3. c \in CliStates /\ c.at = "open" /\ c.step = "next"
    BY <2>1, <2>2, CliNone, SetAt
  <2>4. PICK b \in 0..MaxBoots : b = boots + 1
    BY <2>1
  <2>5. cli' = [c EXCEPT !.boot = b]
    BY <1>1, <2>2, <2>4
  <2> QED  BY <2>3, <2>4, <2>5, SetBoot
<1>3. LedgerTypeOK(Entry)' /\ head'[RunProc] = head[RunProc]
  <2>1. LedgerTypeOK(Entry)
    BY <1>1 DEF TypeOK
  <2>2. Len(ledger) \in Nat /\ Len(anchors) \in Nat
    BY <2>1 DEF LedgerTypeOK
  <2> QED  BY <1>1, <2>1, <2>2 DEF LedgerTypeOK
<1>4. TypeOK'
  BY <1>1, <1>2, <1>3 DEF TypeOK, CliStates
<1>5. LinesInv'
  BY <1>1, <1>2, <1>3, LinesStay DEF Live, Sampling
<1>6. \A e : InLedger(e) => InLedger(e)'
  BY <1>1 DEF InLedger
<1>7. CliInv'
  <2>1. "open" \notin Stores
    BY DEF Stores
  <2>2. Overlap \/ main'.at = "down"
    BY <1>1 DEF CliBoot
  <2> QED  BY <1>2, <2>1, <2>2 DEF CliInv
<1> QED  BY <1>1, <1>2, <1>4, <1>5, <1>6, <1>7, CliMoves

\* A step of the rotation between two files, or at the end of it.
LEMMA CliTurns ==
    ASSUME EvidenceInv, cli' \in CliStates, CliInv',
           cli'.at = "off" \/ (cli'.boot = cli.boot /\ Unrecorded),
           UNCHANGED <<boots, main, taken, threadVars, store, journal, ledgerVars>>
    PROVE  EvidenceInv'
<1>1. /\ TypeOK /\ LinesInv /\ boots \in Nat
      /\ UNCHANGED <<boots, main, taken, phase, stop, seq, job, store, journal,
                     ledger, anchors, head, anchorSeq>>
  BY DEF EvidenceInv, TypeOK, threadVars, ledgerVars
<1>2. TypeOK'
  BY <1>1 DEF TypeOK, LedgerTypeOK, CliStates
<1>3. cli'.at # "off" => cli.at # "off" /\ cli'.boot = cli.boot
  BY DEF Unrecorded, Stores
<1>4. LinesInv'
  <2>1. Unrecorded' => Unrecorded /\ cli'.boot = cli.boot
    BY DEF Unrecorded, Stores
  <2> QED  BY <1>1, <2>1, LinesStay DEF Live, Sampling
<1>5. \A e : InLedger(e) => InLedger(e)'
  BY <1>1 DEF InLedger
<1> QED  BY <1>1, <1>2, <1>3, <1>4, <1>5, CliMoves

LEMMA CliListInv ==
    ASSUME EvidenceInv, NEW s \in Stores, CliList(s)
    PROVE  /\ EvidenceInv'
           /\ cli.at # "off" /\ cli'.at \in Stores /\ cli'.boot = cli.boot /\ cli.step # "open"
<1> DEFINE todo == {k \in Ids : store[s][k[1]][k[2]] # Absent}
<1>1. /\ cli \in CliStates /\ CliInv /\ cli.step = "next" /\ cli.at \in {"open", "meta"}
      /\ cli' = [cli EXCEPT !.at = s, !.todo = todo]
      /\ UNCHANGED <<boots, main, taken, threadVars, store, journal, ledgerVars>>
  BY DEF EvidenceInv, TypeOK, CliStates, CliList, CliDone
<1>2. s \in {"off", "open", "recorded"} \cup Stores /\ todo \in SUBSET Ids
  OBVIOUS
<1>3. PICK c : c = [cli EXCEPT !.at = s]
  OBVIOUS
<1>7. c \in CliStates /\ c.at = s /\ c.boot = cli.boot /\ c.step = "next"
  BY <1>1, <1>2, <1>3, SetAt
<1>4. cli' \in CliStates /\ cli'.at = s /\ cli'.boot = cli.boot /\ cli'.todo = todo
      /\ cli'.step = "next"
  <2>1. cli' = [c EXCEPT !.todo = todo]
    BY <1>1, <1>3
  <2>2. PICK d \in SUBSET Ids : d = todo
    BY <1>2
  <2>3. cli' = [c EXCEPT !.todo = d]
    BY <2>1, <2>2
  <2> QED  BY <1>7, <2>2, <2>3, SetTodo
<1>5. CliInv'
  <2>1. ~Overlap => main'.at = "down"
    BY <1>1 DEF CliInv
  <2>2. \A k \in cli'.todo : store'[cli'.at][k[1]][k[2]] # Absent
    BY <1>1, <1>4
  <2> QED  BY <1>4, <2>1, <2>2 DEF CliInv
<1>6. Unrecorded
  BY <1>1 DEF Unrecorded, Stores
<1>8. EvidenceInv'
  BY <1>1, <1>4, <1>5, <1>6, CliTurns
<1> QED  BY <1>1, <1>4, <1>8

LEMMA CliGetInv ==
    ASSUME EvidenceInv, CliGet
    PROVE  /\ EvidenceInv'
           /\ cli.at # "off" /\ cli'.at \in Stores /\ cli'.boot = cli.boot /\ cli.step # "open"
<1>1. /\ cli \in CliStates /\ CliInv /\ TypeOK /\ cli.at \in Stores
      /\ UNCHANGED <<boots, main, taken, threadVars, store, journal, ledgerVars>>
  BY DEF EvidenceInv, TypeOK, CliStates, CliGet
<1>2. PICK k \in cli.todo :
        cli' = [cli EXCEPT !.todo = @ \ {k}, !.step = "got", !.file = k,
                           !.held = store[cli.at][k[1]][k[2]].boot]
  BY DEF CliGet
<1>3. PICK todo \in SUBSET Ids : todo = cli.todo \ {k}
  BY <1>1 DEF CliStates
<1>4. /\ k \in Ids /\ k[1] \in Samplers /\ k[2] \in 0..MaxSamples
      /\ store[cli.at][k[1]][k[2]] # Absent
  BY <1>1 DEF CliStates, Ids, CliInv
<1>5. PICK held \in Boots : held = store[cli.at][k[1]][k[2]].boot
  BY <1>1, <1>4, FileAt
<1>6. held \in 0..MaxBoots
  BY EvidenceAssumption DEF Boots
<1>7. PICK c : c = [cli EXCEPT !.todo = todo]
  OBVIOUS
<1>11. c \in CliStates /\ c.at = cli.at /\ c.boot = cli.boot /\ c.todo = todo
  BY <1>1, <1>3, <1>7, SetTodo
<1>8. /\ cli' \in CliStates /\ cli'.at = cli.at /\ cli'.boot = cli.boot /\ cli'.todo = todo
      /\ cli'.step = "got" /\ cli'.file = k /\ cli'.held = held
  <2>1. PICK d : d = [c EXCEPT !.step = "got"]
    OBVIOUS
  <2>2. d \in CliStates /\ d.at = cli.at /\ d.boot = cli.boot /\ d.todo = todo /\ d.step = "got"
    BY <1>11, <2>1, SetStep
  <2>3. PICK e : e = [d EXCEPT !.file = k]
    OBVIOUS
  <2>4. /\ e \in CliStates /\ e.at = cli.at /\ e.boot = cli.boot /\ e.todo = todo
        /\ e.step = "got" /\ e.file = k
    BY <1>4, <2>2, <2>3, SetFile
  <2>5. cli' = [e EXCEPT !.held = held]
    BY <1>2, <1>3, <1>5, <1>7, <2>1, <2>3
  <2> QED  BY <1>6, <2>4, <2>5, SetHeld
<1>9. CliInv'
  <2>1. ~Overlap => main'.at = "down"
    BY <1>1 DEF CliInv, Stores
  <2>2. \A j \in cli'.todo : store'[cli'.at][j[1]][j[2]] # Absent
    BY <1>1, <1>3, <1>8 DEF CliInv
  <2>3. /\ cli'.at \in Stores /\ cli'.held \in Boots
        /\ store'[cli'.at][cli'.file[1]][cli'.file[2]] # Absent
        /\ store'[cli'.at][cli'.file[1]][cli'.file[2]].boot = cli'.held
    BY <1>1, <1>4, <1>5, <1>8
  <2> QED  BY <2>1, <2>2, <2>3 DEF CliInv
<1>10. Unrecorded
  BY <1>1 DEF Unrecorded
<1>12. EvidenceInv'
  BY <1>1, <1>8, <1>9, <1>10, CliTurns
<1> QED  BY <1>1, <1>8, <1>12 DEF CliGet, Stores

\* The rotation is gone, at whatever it was.
LEMMA CliGoneInv ==
    ASSUME EvidenceInv, cli' = NoCli,
           UNCHANGED <<boots, main, taken, threadVars, store, journal, ledgerVars>>
    PROVE  EvidenceInv'
<1>1. cli' \in CliStates /\ cli'.at = "off" /\ cli'.step = "next"
  BY CliNone
<1>2. CliInv'
  BY <1>1 DEF CliInv, Stores
<1> QED  BY <1>1, <1>2, CliTurns

\* A put of the rotation: nothing that was stored is lost, but what the rotation
\* itself has cut off.
LEMMA CliWrites ==
    ASSUME EvidenceInv, cli' \in CliStates, CliInv', cli.at \in Stores,
           NEW s \in Stores, NEW t \in Samplers, NEW n \in 0..MaxSamples, NEW f \in File,
           Puts(s, t, n, f), cli'.at = cli.at, cli'.boot = cli.boot,
           ~Overlap => /\ store[s][t][n] # Absent /\ f.boot = store[s][t][n].boot
                       /\ f.torn \in {0, cli.boot},
           UNCHANGED <<boots, main, taken, threadVars, journal, ledgerVars>>
    PROVE  EvidenceInv'
<1>1. /\ TypeOK /\ MainInv /\ LinesInv /\ boots \in Nat /\ taken \in Nat
      /\ UNCHANGED <<boots, main, taken, phase, stop, seq, job, journal,
                     ledger, anchors, head, anchorSeq>>
  BY EvidenceAssumption DEF EvidenceInv, TypeOK, threadVars, ledgerVars
<1>2. TypeOK'
  <2>1. store' \in [Stores -> [Samplers -> [0..MaxSamples -> File \cup {Absent}]]]
    BY <1>1, StoreSet
  <2> QED  BY <1>1, <2>1 DEF TypeOK, LedgerTypeOK, CliStates
<1>3. MainInv'
  BY <1>1 DEF MainInv
<1>4. LinesInv'
  BY <1>1, LinesStay DEF Live, Sampling, Unrecorded
<1>5. \A e : InLedger(e) => InLedger(e)'
  BY <1>1 DEF InLedger
<1>6. cli.at # "off"
  BY DEF Stores
<1>7. ASSUME NEW u \in Samplers
      PROVE  ThreadInv(u)'
  <2>1. ThreadInv(u)
    BY DEF EvidenceInv
  <2>2. ASSUME NEW r \in Stores, NEW m \in 0..MaxSamples, ~Overlap, store'[r][u][m] # Absent
        PROVE  /\ store[r][u][m] # Absent /\ store'[r][u][m].boot = store[r][u][m].boot
               /\ store'[r][u][m] = store[r][u][m] \/ store'[r][u][m].torn \in {0, cli.boot}
    <3>1. CASE r = s /\ u = t /\ m = n
      BY <1>1, <2>2, <3>1, StorePut
    <3>2. CASE ~(r = s /\ u = t /\ m = n)
      <4>1. store'[r][u][m] = store[r][u][m]
        BY <1>1, <3>2, StorePut
      <4> QED  BY <2>2, <4>1
    <3> QED  BY <3>1, <3>2
  <2>3. FilesInv(u)'
    <3> SUFFICES ASSUME ~Overlap, NEW r \in Stores, NEW m \in 0..MaxSamples,
                        store'[r][u][m] # Absent
                 PROVE  /\ store'[r][u][m].boot <= boots
                        /\ main.at # "down" => store'[r][u][m].boot <= main.boot
      BY <1>1 DEF FilesInv
    <3>1. store[r][u][m] # Absent /\ store'[r][u][m].boot = store[r][u][m].boot
      BY <2>2
    <3> QED  BY <2>1, <3>1 DEF ThreadInv, FilesInv
  <2>4. ASSUME NEW i \in DOMAIN journal[u], StoredAll(u, i)
        PROVE  StoredAll(u, i)'
    <3> DEFINE m == journal[u][i].seq
               b == journal[u][i].boot
    <3>1. m \in 0..MaxSamples /\ b # cli.boot /\ b # 0
      BY <1>1, <1>6, <2>1, EventTypes DEF ThreadInv, EventsInv, Boots
    <3>2. ASSUME ~Overlap, NEW r \in Stores, Holds(r, u, m, b)
          PROVE  Holds(r, u, m, b)'
      <4>1. store[r][u][m] # Absent /\ store[r][u][m].boot >= b /\ store[r][u][m].torn # b
        BY <3>2 DEF Holds
      <4>2. store'[r][u][m] # Absent
        BY <1>1, <3>1, <4>1, StorePut
      <4>3. /\ store'[r][u][m].boot = store[r][u][m].boot
            /\ store'[r][u][m] = store[r][u][m] \/ store'[r][u][m].torn \in {0, cli.boot}
        BY <2>2, <3>1, <3>2, <4>2
      <4>4. store'[r][u][m].boot >= b /\ store'[r][u][m].torn # b
        BY <3>1, <4>1, <4>3
      <4>5. journal'[u][i] = journal[u][i]
        BY <1>1
      <4> QED  BY <4>2, <4>4, <4>5 DEF Holds
    <3>3. Keeps(u) \subseteq Stores /\ journal'[u][i] = journal[u][i]
      BY <1>1 DEF Keeps, Stores
    <3> QED  BY <2>4, <3>2, <3>3 DEF StoredAll
  <2>5. Live(u)' => Overlap \/ \A r \in Stores : store'[r][u] = store[r][u]
    <3>1. Live(u)' => main.at # "down"
      BY <1>1, <2>1 DEF ThreadInv, JobInv, Live
    <3>2. ~Overlap => main.at = "down"
      BY <1>6 DEF EvidenceInv, CliInv
    <3> QED  BY <3>1, <3>2
  <2>6. phase'[u] = "none" => \A i \in DOMAIN journal[u] : journal[u][i].boot # main'.boot
    BY <1>1, <2>1 DEF ThreadInv, CountInv, OfBoot
  <2>7. Live(u)' => main'.at # "down"
    BY <1>1, <2>1 DEF ThreadInv, JobInv, Live
  <2>8. /\ main'.at # "down" => main.at # "down" /\ main'.boot = main.boot
        /\ cli'.at # "off" => cli.at # "off" /\ cli'.boot = cli.boot
        /\ boots' \in Nat /\ boots <= boots' /\ journal'[u] = journal[u]
    BY <1>1, <1>6
  <2> QED  BY <1>1, <1>5, <2>1, <2>3, <2>4, <2>5, <2>6, <2>7, <2>8, ThreadKept
<1> QED  BY <1>2, <1>3, <1>4, <1>7 DEF EvidenceInv

LEMMA TornFile ==
    ASSUME NEW f \in File, NEW p \in 0..MaxBoots
    PROVE  LET g == [f EXCEPT !.torn = p]
           IN g \in File /\ g.boot = f.boot /\ g.torn = p
  BY DEF File

LEMMA CliTearInv ==
    ASSUME EvidenceInv, CliTear
    PROVE  /\ EvidenceInv'
           /\ cli.at # "off" /\ cli'.at \in Stores /\ cli'.boot = cli.boot /\ cli.step = "got"
           /\ cli'.step = "open" /\ cli'.at = cli.at /\ cli'.file = cli.file
           /\ \E s \in Stores, t \in Samplers, n \in 0..MaxSamples, f \in File :
                /\ Puts(s, t, n, f) /\ s = cli.at /\ <<t, n>> = cli.file /\ store[s][t][n] # Absent
                /\ f.boot = store[s][t][n].boot /\ f.torn = cli.boot
<1>1. /\ cli \in CliStates /\ CliInv /\ TypeOK /\ MainInv /\ cli.at \in Stores /\ cli.step = "got"
      /\ cli' = [cli EXCEPT !.step = "open"]
      /\ UNCHANGED <<boots, main, taken, threadVars, journal, ledgerVars>>
  BY DEF EvidenceInv, TypeOK, CliStates, CliTear
<1>2. PICK s \in Stores, t \in Samplers, n \in 0..MaxSamples :
        s = cli.at /\ t = cli.file[1] /\ n = cli.file[2]
  BY <1>1 DEF CliStates, Ids
<1>3. store[s][t][n] # Absent
  BY <1>1, <1>2 DEF CliInv
<1>6. PICK f : f = [store[s][t][n] EXCEPT !.torn = cli.boot]
  OBVIOUS
<1>4. f \in File /\ f.boot = store[s][t][n].boot /\ f.torn = cli.boot
  <2>1. store[s][t][n] \in File /\ cli.boot \in 0..MaxBoots
    BY <1>1, <1>3, FileAt DEF CliStates
  <2> QED  BY <1>6, <2>1, TornFile
<1>5. Puts(s, t, n, f)
  BY <1>2, <1>6 DEF CliTear, Puts
<1>7. /\ cli' \in CliStates /\ cli'.at = cli.at /\ cli'.boot = cli.boot /\ cli'.todo = cli.todo
      /\ cli'.file = cli.file /\ cli'.held = cli.held /\ cli'.step = "open"
  BY <1>1, SetStep
<1>8. CliInv'
  <2>1. \A k \in cli'.todo : store'[cli'.at][k[1]][k[2]] # Absent
    <3> SUFFICES ASSUME NEW k \in cli.todo
                 PROVE  store'[cli.at][k[1]][k[2]] # Absent
      BY <1>7
    <3>1. k[1] \in Samplers /\ k[2] \in 0..MaxSamples /\ store[cli.at][k[1]][k[2]] # Absent
      BY <1>1 DEF CliStates, Ids, CliInv
    <3> QED  BY <1>1, <1>4, <1>5, <3>1, StorePut
  <2>2. store'[s][t][n] = f /\ f # Absent
    BY <1>1, <1>4, <1>5, StorePut, AbsentAssumption
  <2>3. cli.held \in Boots /\ (~Overlap => f.boot = cli.held)
    BY <1>1, <1>2, <1>4 DEF CliInv
  <2>4. ~Overlap => main'.at = "down"
    BY <1>1 DEF CliInv, Stores
  <2> QED  BY <1>1, <1>2, <1>7, <2>1, <2>2, <2>3, <2>4 DEF CliInv
<1>9. EvidenceInv'
  BY <1>1, <1>3, <1>4, <1>5, <1>7, <1>8, CliWrites
<1>10. <<t, n>> = cli.file
  BY <1>1, <1>2 DEF CliStates, Ids
<1>11. cli.at # "off"
  BY <1>1 DEF Stores
<1> QED  BY <1>1, <1>2, <1>3, <1>4, <1>5, <1>7, <1>9, <1>10, <1>11

LEMMA CliPutInv ==
    ASSUME EvidenceInv, CliPut
    PROVE  /\ EvidenceInv'
           /\ cli.at # "off" /\ cli'.at \in Stores /\ cli'.boot = cli.boot /\ cli.step = "open"
           /\ \E s \in Stores, t \in Samplers, n \in 0..MaxSamples, f \in File :
                /\ Puts(s, t, n, f) /\ s = cli.at /\ <<t, n>> = cli.file /\ store[s][t][n] # Absent
                /\ ~Overlap => f.boot = store[s][t][n].boot /\ f.torn = 0
<1>1. /\ cli \in CliStates /\ CliInv /\ TypeOK /\ MainInv /\ cli.at \in Stores /\ cli.step = "open"
      /\ cli' = [cli EXCEPT !.step = "next", !.file = NoId, !.held = 0]
      /\ UNCHANGED <<boots, main, taken, threadVars, journal, ledgerVars>>
  BY DEF EvidenceInv, TypeOK, CliStates, CliPut
<1>2. PICK s \in Stores, t \in Samplers, n \in 0..MaxSamples :
        s = cli.at /\ t = cli.file[1] /\ n = cli.file[2]
  BY <1>1 DEF CliStates, Ids
<1>3. /\ store[s][t][n] # Absent /\ cli.held \in Boots
      /\ ~Overlap => store[s][t][n].boot = cli.held /\ main.at = "down"
  BY <1>1, <1>2 DEF CliInv, Stores
<1>4. PICK torn \in TornAfter(SamplerAt(s, t, n), main.boot) :
        store' = [store EXCEPT ![s][t][n] = [boot |-> cli.held, torn |-> torn]]
  BY <1>2 DEF CliPut
<1>5. torn \in 0..MaxBoots /\ (~Overlap => torn = 0)
  <2>1. ~Overlap => ~SamplerAt(s, t, n)
    BY <1>3 DEF EvidenceInv, MainInv, SamplerAt, Writing
  <2> QED  BY <1>1, <1>4, <2>1, EvidenceAssumption DEF TornAfter, TypeOK
<1>6. PICK f \in File : f = [boot |-> cli.held, torn |-> torn]
  BY <1>3, <1>5 DEF File
<1>7. f.boot = cli.held /\ f.torn = torn
  BY <1>6
<1>8. Puts(s, t, n, f)
  BY <1>4, <1>6 DEF Puts
<1>9. 0 \in 0..MaxBoots /\ NoId \in Ids
  BY CliNone, EvidenceAssumption
<1>10. PICK c : c = [cli EXCEPT !.step = "next"]
  OBVIOUS
<1>13. /\ c \in CliStates /\ c.at = cli.at /\ c.boot = cli.boot /\ c.todo = cli.todo
       /\ c.step = "next"
  BY <1>1, <1>10, SetStep
<1>11. /\ cli' \in CliStates /\ cli'.at = cli.at /\ cli'.boot = cli.boot /\ cli'.todo = cli.todo
       /\ cli'.step = "next"
  <2>1. PICK d : d = [c EXCEPT !.file = NoId]
    OBVIOUS
  <2>2. /\ d \in CliStates /\ d.at = cli.at /\ d.boot = cli.boot /\ d.todo = cli.todo
        /\ d.step = "next"
    BY <1>9, <1>13, <2>1, SetFile
  <2>3. cli' = [d EXCEPT !.held = 0]
    BY <1>1, <1>10, <2>1
  <2> QED  BY <1>9, <2>2, <2>3, SetHeld
<1>12. CliInv'
  <2>1. \A k \in cli'.todo : store'[cli'.at][k[1]][k[2]] # Absent
    <3> SUFFICES ASSUME NEW k \in cli.todo
                 PROVE  store'[cli.at][k[1]][k[2]] # Absent
      BY <1>11
    <3>1. k[1] \in Samplers /\ k[2] \in 0..MaxSamples /\ store[cli.at][k[1]][k[2]] # Absent
      BY <1>1 DEF CliStates, Ids, CliInv
    <3> QED  BY <1>1, <1>8, <3>1, StorePut
  <2>2. ~Overlap => main'.at = "down"
    BY <1>1, <1>3
  <2> QED  BY <1>11, <2>1, <2>2 DEF CliInv
<1>14. EvidenceInv'
  BY <1>1, <1>3, <1>5, <1>7, <1>8, <1>11, <1>12, CliWrites
<1>15. <<t, n>> = cli.file
  BY <1>1, <1>2 DEF CliStates, Ids
<1>16. cli.at # "off"
  BY <1>1 DEF Stores
<1> QED  BY <1>1, <1>2, <1>3, <1>5, <1>7, <1>8, <1>11, <1>14, <1>15, <1>16

LEMMA CliRecordInv ==
    ASSUME EvidenceInv, CliRecord
    PROVE  /\ EvidenceInv' /\ cli.at # "off" /\ cli.step # "open"
           /\ cli'.at = "recorded" /\ cli'.boot = cli.boot
           /\ \E e \in Entry : LedgerAppend(CliProc, e) /\ e.boot = cli.boot
<1>1. /\ TypeOK /\ MainInv /\ LinesInv /\ CliInv /\ boots \in Nat
      /\ cli.at \in Stores /\ Unrecorded /\ cli.at # "off" /\ cli.step = "next" /\ cli \in CliStates
      /\ cli.boot \in 1..boots /\ cli.boot # main.boot /\ boots <= MaxBoots
      /\ cli' = [cli EXCEPT !.at = "recorded"]
      /\ RunProc \in Procs /\ CliProc \in Procs /\ RunProc # CliProc
      /\ UNCHANGED <<boots, main, taken, phase, stop, seq, job, store, journal>>
  BY EvidenceAssumption DEF EvidenceInv, TypeOK, CliStates, MainInv, CliRecord, Rewrapped, CliDone,
         Unrecorded, Stores, threadVars
<1>2. PICK e \in Entry : /\ LedgerAppend(CliProc, e)
                         /\ e.kind = "rotation" /\ e.boot = cli.boot
  <2>1. [kind |-> "rotation", seq |-> 0, boot |-> cli.boot] \in Entry
    BY <1>1, EvidenceAssumption DEF Entry, Boots
  <2> QED  BY <2>1 DEF CliRecord
<1>3. /\ cli'.at = "recorded" /\ cli'.boot = cli.boot /\ cli'.step = "next"
      /\ cli' \in CliStates /\ ~Unrecorded'
  <2>2. "recorded" \in {"off", "open", "recorded"} \cup Stores /\ "recorded" \notin Stores
    BY DEF Stores
  <2>3. cli'.at = "recorded" /\ cli'.boot = cli.boot /\ cli'.step = "next" /\ cli' \in CliStates
    BY <1>1, <2>2, SetAt
  <2> QED  BY <2>2, <2>3 DEF Unrecorded
<1>0. PICK last : last = Len(ledger) + 1
  OBVIOUS
<1>4. /\ LedgerTypeOK(Entry)'
      /\ Len(ledger) \in Nat /\ DOMAIN ledger = 1..Len(ledger) /\ DOMAIN ledger' = 1..last
      /\ ledger'[last].body = e /\ \A i \in DOMAIN ledger : ledger'[i] = ledger[i]
      /\ head'[RunProc] = head[RunProc] /\ anchors' = anchors
      /\ \A d : InLedger(d) => InLedger(d)'
  BY <1>0, <1>1, <1>2, LedgerGrows
<1>5. TypeOK'
  BY <1>1, <1>3, <1>4 DEF TypeOK, CliStates
<1>6. LinesInv'
  <2>1. \A i \in DOMAIN ledger : ledger[i].body.boot # e.boot
    BY <1>1, <1>2 DEF LinesInv
  <2>2. e.boot <= boots
    BY <1>1, <1>2
  <2>3. \A i \in DOMAIN ledger' :
          /\ ledger'[i].body.boot <= boots'
          /\ ledger'[i].body.kind # "rotation" =>
               \E j \in DOMAIN journal'["capture"] : journal'["capture"][j] = ledger'[i].body
          /\ Unrecorded' => ledger'[i].body.boot # cli'.boot
          /\ Anchored(i)' \/ LastLine(i)'
    BY <1>1, <1>2, <1>3, <2>1, <2>2, LinesGrow
  <2>4. ASSUME NEW i \in DOMAIN ledger', ledger'[i].body.boot = main'.boot
        PROVE  /\ phase'["capture"] # "none"
               /\ Live("capture")' =>
                    \/ Anchored(i)'
                    \/ Sampling("capture")' /\ job'["capture"].step = 5 /\ head'[RunProc] = i
    <3>1. i # last
      BY <1>1, <1>2, <1>4, <2>4
    <3>2. i \in DOMAIN ledger
      BY <1>0, <1>4, <3>1
    <3> QED  BY <1>1, <1>4, <2>4, <3>2 DEF LinesInv, Live, Sampling, Anchored
  <2> QED  BY <2>3, <2>4 DEF LinesInv
<1>7. CliInv'
  BY <1>1, <1>3 DEF CliInv, Stores
<1>8. EvidenceInv'
  BY <1>1, <1>3, <1>4, <1>5, <1>6, <1>7, CliMoves
<1> QED  BY <1>1, <1>2, <1>3, <1>8

LEMMA CliAnchorInv ==
    ASSUME EvidenceInv, CliAnchor
    PROVE  EvidenceInv'
<1>1. /\ TypeOK /\ LinesInv /\ boots \in Nat /\ MaxBoots \in Nat /\ CliProc \in Procs
      /\ AnchorHead(CliProc) /\ cli' = NoCli
      /\ UNCHANGED <<boots, main, taken, phase, stop, seq, job, store, journal>>
  BY EvidenceAssumption DEF EvidenceInv, TypeOK, CliAnchor, threadVars
<1>2. /\ LedgerTypeOK(Entry)' /\ UNCHANGED <<ledger, head>>
      /\ \A i : Anchored(i) => Anchored(i)'
  BY <1>1, AnchorsGrow
<1>3. cli'.at = "off" /\ cli'.step = "next" /\ cli' \in CliStates
  BY <1>1, CliNone
<1>4. TypeOK'
  BY <1>1, <1>2, <1>3 DEF TypeOK, CliStates
<1>5. LinesInv'
  BY <1>1, <1>2, <1>3 DEF LinesInv, LastLine, Live, Sampling, Unrecorded, Stores
<1>6. \A e : InLedger(e) => InLedger(e)'
  BY <1>2 DEF InLedger
<1>7. CliInv'
  BY <1>3 DEF CliInv, Stores
<1> QED  BY <1>1, <1>3, <1>4, <1>5, <1>6, <1>7, CliMoves

LEMMA CliInvKept ==
    ASSUME EvidenceInv, Rotation
    PROVE  EvidenceInv'
<1>1. CASE CliBoot
  BY <1>1, CliBootInv
<1>2. CASE \E s \in Stores : CliList(s)
  BY <1>2, CliListInv
<1>3. CASE CliGet
  BY <1>3, CliGetInv
<1>4. CASE CliFails \/ CliCrash
  BY <1>4, CliGoneInv DEF CliFails, CliCrash
<1>5. CASE CliTear
  BY <1>5, CliTearInv
<1>6. CASE CliPut
  BY <1>6, CliPutInv
<1>7. CASE CliRecord
  BY <1>7, CliRecordInv
<1>8. CASE CliAnchor
  BY <1>8, CliAnchorInv
<1> QED  BY <1>1, <1>2, <1>3, <1>4, <1>5, <1>6, <1>7, <1>8 DEF Rotation

----------------------------------------------------------------------------
(* The invariant, and what follows from it.                                *)

LEMMA EvidenceInit == Init => EvidenceInv
<1> SUFFICES ASSUME Init
             PROVE  EvidenceInv
  OBVIOUS
<1>1. /\ LedgerInit /\ boots = 0 /\ taken = 0
      /\ phase = [t \in Samplers |-> "none"] /\ seq = [t \in Samplers |-> 0]
      /\ journal = [t \in Samplers |-> << >>] /\ cli = NoCli
      /\ store = [s \in Stores |-> [t \in Samplers |-> [n \in 0..MaxSamples |-> Absent]]]
      /\ MaxBoots \in Nat /\ MaxSamples \in Nat
  BY EvidenceAssumption DEF Init
<1>2. main \in MainStates /\ main.at = "down" /\ main.next = 1 /\ main.boot = 0
  <2>1. 0 \in 0..MaxBoots /\ 1 \in 1..3 /\ "down" \in {"down", "starting", "running", "stopping"}
    BY <1>1
  <2> QED  BY <2>1, MainSet, Zenon DEF Init
<1>3. stop \in [Samplers -> BOOLEAN] /\ job \in [Samplers -> Job]
  <2>1. FALSE \in BOOLEAN /\ NoJob \in Job
    BY JobsAt
  <2>2. stop \in [Samplers -> BOOLEAN]
    BY <2>1, Zenon DEF Init
  <2>3. job \in [Samplers -> Job]
    BY <2>1, Zenon DEF Init
  <2> QED  BY <2>2, <2>3
<1>4. LedgerTypeOK(Entry)
  BY <1>1 DEF LedgerInit, LedgerTypeOK, NoHash
<1>5. /\ journal \in [Samplers -> Seq(Event)]
      /\ store \in [Stores -> [Samplers -> [0..MaxSamples -> File \cup {Absent}]]]
  BY <1>1
<1>6. TypeOK
  BY <1>1, <1>2, <1>3, <1>4, <1>5, CliNone DEF TypeOK, MainStates, CliStates
<1>7. MainInv /\ CliInv
  BY <1>1, <1>2, CliNone DEF MainInv, CliInv, Stores
<1>8. ledger = << >>
  BY <1>1 DEF LedgerInit
<1>9. LinesInv
  BY <1>8 DEF LinesInv
<1>10. ASSUME NEW t \in Samplers
       PROVE  ThreadInv(t)
  <2>1. phase[t] = "none" /\ journal[t] = << >>
    BY <1>1
  <2>2. ~Live(t) /\ ~Sampling(t) /\ phase[t] # "job"
    BY <2>1 DEF Live, Sampling
  <2>3. EventsInv(t)
    BY <2>1 DEF EventsInv
  <2>4. FilesInv(t)
    BY <1>1 DEF FilesInv
  <2>5. CountInv(t)
    BY <2>1, <2>2 DEF CountInv, OfBoot
  <2>6. JobInv(t)
    BY <2>2 DEF JobInv
  <2> QED  BY <2>3, <2>4, <2>5, <2>6 DEF ThreadInv
<1> QED  BY <1>6, <1>7, <1>9, <1>10 DEF EvidenceInv

LEMMA SamplerInv ==
    ASSUME EvidenceInv, NEW t \in Samplers, Sampler(t)
    PROVE  EvidenceInv'
<1>1. CASE SampleDue(t)
  BY <1>1, SampleDueInv
<1>2. CASE \E s \in Stores : BeginPut(t, s) \/ EndPut(t, s)
  BY <1>2, BeginPutInv, EndPutInv
<1>3. CASE JournalAppend(t)
  BY <1>3, JournalAppendInv
<1>4. CASE AppendToLedger(t)
  BY <1>4, AppendToLedgerInv
<1>5. CASE AnchorLedger(t)
  BY <1>5, AnchorLedgerInv
<1>6. CASE NotCanonical(t)
  <2>1. Live(t)
    BY <1>6 DEF NotCanonical, Writing, Live
  <2> QED  BY <1>6, <2>1, ThreadEndsInv DEF NotCanonical
<1>7. CASE Quit(t)
  <2>1. Live(t)
    BY <1>7 DEF Quit, Live
  <2> QED  BY <1>7, <2>1, ThreadEndsInv DEF Quit
<1>8. CASE SamplerFails(t)
  <2>1. Live(t)
    BY <1>8 DEF SamplerFails, Live
  <2> QED  BY <1>8, <2>1, ThreadEndsInv DEF SamplerFails
<1> QED  BY <1>1, <1>2, <1>3, <1>4, <1>5, <1>6, <1>7, <1>8 DEF Sampler

LEMMA EvidenceStep == EvidenceInv /\ [Next]_vars => EvidenceInv'
<1> SUFFICES ASSUME EvidenceInv, [Next]_vars
             PROVE  EvidenceInv'
  OBVIOUS
<1>1. CASE \E t \in Samplers : Sampler(t)
  BY <1>1, SamplerInv
<1>2. CASE DiskCritical
  BY <1>2, DiskCriticalInv
<1>3. CASE Boot
  BY <1>3, BootInv
<1>4. CASE StartSampler
  BY <1>4, StartSamplerInv
<1>5. CASE Interrupt
  BY <1>5, InterruptInv
<1>6. CASE Stopping
  BY <1>6, SetStopInv, JoinedInv DEF Stopping
<1>7. CASE Crash
  BY <1>7, GoneInv DEF Crash
<1>8. CASE Rotation
  BY <1>8, CliInvKept
<1>9. CASE UNCHANGED vars
  <2>1. UNCHANGED <<boots, main, taken, phase, stop, seq, job, store, journal, cli,
                    ledger, anchors, head, anchorSeq>>
    BY <1>9 DEF vars, threadVars, ledgerVars
  <2>2. TypeOK'
    BY <2>1 DEF EvidenceInv, TypeOK, LedgerTypeOK
  <2>3. LinesInv'
    BY <2>1 DEF EvidenceInv, LinesInv, Anchored, LastLine, Live, Sampling, Unrecorded
  <2>4. CliInv' /\ boots <= boots'
    BY <2>1, EvidenceAssumption DEF EvidenceInv, CliInv, TypeOK
  <2>5. \A e : InLedger(e) => InLedger(e)'
    BY <2>1 DEF InLedger
  <2> QED  BY <2>1, <2>2, <2>3, <2>4, <2>5, CliMoves
<1> QED  BY <1>1, <1>2, <1>3, <1>4, <1>5, <1>6, <1>7, <1>8, <1>9 DEF Next

LEMMA EvidenceKept == Spec => []EvidenceInv
  BY EvidenceInit, EvidenceStep, PTL DEF Spec

\* Every variable keeps its type: sequence numbers and steps stay in their
\* bounds, and the files written by whichever process stay files of theirs.
THEOREM EvidenceTyped == Spec => []TypeOK
<1>1. EvidenceInv => TypeOK
  BY DEF EvidenceInv
<1> QED  BY <1>1, EvidenceKept, PTL

----------------------------------------------------------------------------
(* One process at a time: the files that a put has left cut off.           *)

CutBy(s, t, n, p) == store[s][t][n] # Absent /\ store[s][t][n].torn = p

\* A file its sampler has not written to the end: the sampler went no further,
\* and is at it if it is alive.
OwnInv(s, t, n) ==
    store[s][t][n] # Absent /\ store[s][t][n].torn = store[s][t][n].boot =>
        /\ \A i \in DOMAIN journal[t] : journal[t][i].boot = store[s][t][n].boot =>
             journal[t][i].seq < n \/ (t = "window" /\ journal[t][i].seq = n)
        /\ store[s][t][n].boot = main.boot =>
             phase[t] # "none" /\ (Live(t) => SamplerAt(s, t, n))

\* A file that another process has not written back: a rotation, which is at it
\* if it is alive, and has left no trace but this.
RotationInv(s, t, n) ==
    \A p \in Boots : CutBy(s, t, n, p) /\ p # store[s][t][n].boot =>
        /\ p <= boots /\ (main.at # "down" => p # main.boot)
        /\ \A i \in DOMAIN ledger : ledger[i].body.boot # p
        /\ \A r \in Stores, u \in Samplers, m \in 0..MaxSamples :
             /\ store[r][u][m] # Absent => store[r][u][m].boot # p
             /\ CutBy(r, u, m, p) => r = s /\ u = t /\ m = n
        /\ cli.at # "off" /\ cli.boot = p => RotationAt(s, t, n)

\* A rotation is the process of no file's content.
UnusedInv ==
    cli.at # "off" => \A s \in Stores, t \in Samplers, n \in 0..MaxSamples :
        store[s][t][n] # Absent => store[s][t][n].boot # cli.boot

TornInv ==
    /\ UnusedInv
    /\ \A s \in Stores, t \in Samplers, n \in 0..MaxSamples :
         OwnInv(s, t, n) /\ RotationInv(s, t, n)

\* What is known of a file.
LEMMA FileFacts ==
    ASSUME EvidenceInv, ~Overlap, NEW s \in Stores, NEW t \in Samplers, NEW n \in 0..MaxSamples,
           store[s][t][n] # Absent
    PROVE  /\ store[s][t][n].boot \in Boots /\ store[s][t][n].boot \in Nat
           /\ store[s][t][n].boot # 0 /\ store[s][t][n].boot <= boots
           /\ main.at # "down" => store[s][t][n].boot <= main.boot
           /\ boots \in Nat /\ TypeOK
<1>1. TypeOK /\ FilesInv(t) /\ boots \in Nat
  BY DEF EvidenceInv, ThreadInv, TypeOK
<1>2. store[s][t][n].boot \in Boots /\ store[s][t][n].boot \in Nat
  BY <1>1, FileAt
<1>3. store[s][t][n].boot # 0
  BY <1>2 DEF Boots
<1> QED  BY <1>1, <1>2, <1>3 DEF FilesInv

\* A step that writes no file: a new event is of a thread that is at none, a new
\* line of a process that is at none.
LEMMA TornStays ==
    ASSUME EvidenceInv, TornInv, ~Overlap, store' = store, boots' \in Nat, boots <= boots',
           \/ main'.boot = main.boot /\ (main'.at # "down" => main.at # "down")
           \/ main'.at = "down" /\ main'.boot = 0
           \/ main'.boot = boots + 1,
           \/ cli'.at = "off"
           \/ cli' = cli
           \/ cli.at # "off" /\ cli'.boot = cli.boot /\ cli.step # "open"
           \/ cli'.boot = boots + 1,
           \A t \in Samplers : \A i \in DOMAIN journal'[t] :
               \/ i \in DOMAIN journal[t] /\ journal'[t][i] = journal[t][i]
               \/ /\ journal'[t][i].boot = main.boot /\ Live(t)
                  /\ \A s \in Stores, n \in 0..MaxSamples : ~SamplerAt(s, t, n),
           main'.boot = main.boot => \A t \in Samplers :
               /\ phase[t] # "none" => phase'[t] # "none"
               /\ Live(t)' => \/ phase[t] = "none"
                              \/ /\ Live(t)
                                 /\ \A s \in Stores, n \in 0..MaxSamples :
                                      SamplerAt(s, t, n) => SamplerAt(s, t, n)',
           \A i \in DOMAIN ledger' :
               \/ i \in DOMAIN ledger /\ ledger'[i] = ledger[i]
               \/ ledger'[i].body.boot = main.boot /\ main.at # "down"
               \/ ledger'[i].body.boot = cli.boot /\ cli.at # "off" /\ cli.step # "open"
    PROVE  TornInv'
<1>1. ASSUME NEW s \in Stores, NEW t \in Samplers, NEW n \in 0..MaxSamples
      PROVE  OwnInv(s, t, n)'
  <2> SUFFICES ASSUME store[s][t][n] # Absent, store[s][t][n].torn = store[s][t][n].boot
               PROVE  /\ \A i \in DOMAIN journal'[t] : journal'[t][i].boot = store[s][t][n].boot =>
                           journal'[t][i].seq < n \/ (t = "window" /\ journal'[t][i].seq = n)
                      /\ store[s][t][n].boot = main'.boot =>
                           phase'[t] # "none" /\ (Live(t)' => SamplerAt(s, t, n)')
    BY DEF OwnInv
  <2>1. /\ store[s][t][n].boot \in Nat /\ store[s][t][n].boot # 0
        /\ store[s][t][n].boot <= boots /\ boots \in Nat
    BY FileFacts
  <2>2. OwnInv(s, t, n)
    BY DEF TornInv
  <2>3. ASSUME NEW i \in DOMAIN journal'[t], journal'[t][i].boot = store[s][t][n].boot
        PROVE  journal'[t][i].seq < n \/ (t = "window" /\ journal'[t][i].seq = n)
    BY <2>2, <2>3 DEF OwnInv
  <2>4. ASSUME store[s][t][n].boot = main'.boot
        PROVE  phase'[t] # "none" /\ (Live(t)' => SamplerAt(s, t, n)')
    <3>1. main'.boot = main.boot
      BY <2>1, <2>4
    <3>2. phase[t] # "none" /\ (Live(t) => SamplerAt(s, t, n))
      BY <2>2, <2>4, <3>1 DEF OwnInv
    <3> QED  BY <3>1, <3>2
  <2> QED  BY <2>3, <2>4
<1>2. ASSUME NEW s \in Stores, NEW t \in Samplers, NEW n \in 0..MaxSamples
      PROVE  RotationInv(s, t, n)'
  <2> SUFFICES ASSUME NEW p \in Boots, CutBy(s, t, n, p), p # store[s][t][n].boot
               PROVE  /\ p <= boots' /\ (main'.at # "down" => p # main'.boot)
                      /\ \A i \in DOMAIN ledger' : ledger'[i].body.boot # p
                      /\ \A r \in Stores, u \in Samplers, m \in 0..MaxSamples :
                           /\ store[r][u][m] # Absent => store[r][u][m].boot # p
                           /\ CutBy(r, u, m, p) => r = s /\ u = t /\ m = n
                      /\ cli'.at # "off" /\ cli'.boot = p => RotationAt(s, t, n)'
    BY DEF RotationInv, CutBy
  <2>1. /\ p <= boots /\ (main.at # "down" => p # main.boot)
        /\ \A i \in DOMAIN ledger : ledger[i].body.boot # p
        /\ cli.at # "off" /\ cli.boot = p => RotationAt(s, t, n)
    BY DEF TornInv, RotationInv
  <2>2. \A r \in Stores, u \in Samplers, m \in 0..MaxSamples :
          /\ store[r][u][m] # Absent => store[r][u][m].boot # p
          /\ CutBy(r, u, m, p) => r = s /\ u = t /\ m = n
    BY DEF TornInv, RotationInv
  <2>3. p \in Nat /\ boots \in Nat
    BY DEF Boots, EvidenceInv, TypeOK
  <2>4. p <= boots' /\ (main'.at # "down" => p # main'.boot)
    BY <2>1, <2>3
  <2>5. \A i \in DOMAIN ledger' : ledger'[i].body.boot # p
    BY <2>1 DEF RotationAt
  <2>6. cli'.at # "off" /\ cli'.boot = p => RotationAt(s, t, n)'
    BY <2>1, <2>3 DEF RotationAt
  <2> QED  BY <2>2, <2>4, <2>5, <2>6
<1>3. UnusedInv'
  <2> SUFFICES ASSUME cli'.at # "off", NEW s \in Stores, NEW t \in Samplers, NEW n \in 0..MaxSamples,
                      store[s][t][n] # Absent
               PROVE  store[s][t][n].boot # cli'.boot
    BY DEF UnusedInv
  <2>1. store[s][t][n].boot \in Nat /\ store[s][t][n].boot <= boots /\ boots \in Nat
    BY FileFacts
  <2> QED  BY <2>1 DEF TornInv, UnusedInv
<1> QED  BY <1>1, <1>2, <1>3 DEF TornInv

\* The file that a sampler begins to write, or finishes.
LEMMA SamplerTears ==
    ASSUME EvidenceInv, TornInv, ~Overlap, NEW t \in Samplers, NEW s \in Stores,
           NEW n \in 0..MaxSamples, NEW f \in File, n = seq[t],
           Writing(t, s), Puts(s, t, n, f), f.boot = main.boot,
           \/ f.torn = 0 /\ job[t].open
           \/ f.torn = main.boot /\ ~job[t].open /\ Live(t)' /\ SamplerAt(s, t, n)',
           phase'[t] # "none",
           \A u \in Samplers \ {t} :
               phase'[u] = phase[u] /\ seq'[u] = seq[u] /\ job'[u] = job[u],
           UNCHANGED <<boots, main, journal, cli, ledger>>
    PROVE  TornInv'
<1>1. /\ TypeOK /\ ThreadInv(t) /\ Live(t) /\ main.at # "down" /\ main.boot \in Boots
      /\ main.boot \in 1..boots /\ boots \in Nat /\ Sink(t) = s
      /\ Journaled(t) => t = "window"
  <2>1. TypeOK /\ ThreadInv(t) /\ Live(t) /\ main.at # "down" /\ main.boot \in Boots
        /\ boots \in Nat /\ Sink(t) = s /\ (Journaled(t) => t = "window") /\ MainInv
    BY AtStore
  <2> QED  BY <2>1 DEF MainInv
<1>2. cli.at = "off" /\ f # Absent /\ main.boot # 0
  BY <1>1, AbsentAssumption DEF EvidenceInv, CliInv
<1>3. ASSUME NEW r \in Stores, NEW u \in Samplers, NEW m \in 0..MaxSamples
      PROVE  store'[r][u][m] = IF r = s /\ u = t /\ m = n THEN f ELSE store[r][u][m]
  BY <1>1, StorePut
<1>4. ASSUME NEW r \in Stores, NEW u \in Samplers, NEW m \in 0..MaxSamples,
             ~(r = s /\ u = t /\ m = n)
      PROVE  OwnInv(r, u, m)'
  <2>1. store'[r][u][m] = store[r][u][m]
    BY <1>3, <1>4
  <2>2. OwnInv(r, u, m)
    BY DEF TornInv
  <2>3. ASSUME store[r][u][m] # Absent, store[r][u][m].torn = store[r][u][m].boot,
               store[r][u][m].boot = main.boot
        PROVE  phase'[u] # "none" /\ (Live(u)' => SamplerAt(r, u, m)')
    <3>1. phase[u] # "none" /\ (Live(u) => SamplerAt(r, u, m))
      BY <2>2, <2>3 DEF OwnInv
    <3>2. CASE u = t
      <4>1. Writing(t, r) /\ job[t].open /\ seq[t] = m
        BY <1>1, <3>1, <3>2 DEF SamplerAt
      <4>2. job[t].open /\ r = s /\ m = n
        BY <4>1 DEF Writing
      <4> QED  BY <1>4, <3>2, <4>2
    <3>3. CASE u # t
      <4>1. phase'[u] = phase[u] /\ seq'[u] = seq[u] /\ job'[u] = job[u]
        BY <3>3
      <4>2. (Live(u)' <=> Live(u)) /\ (SamplerAt(r, u, m)' <=> SamplerAt(r, u, m))
        BY <4>1 DEF Live, SamplerAt, Writing, Sink
      <4> QED  BY <3>1, <4>1, <4>2
    <3> QED  BY <3>2, <3>3
  <2> QED  BY <2>1, <2>2, <2>3 DEF OwnInv
<1>5. OwnInv(s, t, n)'
  <2>1. store'[s][t][n] = f
    BY <1>3
  <2>2. CASE f.torn = 0
    BY <1>2, <2>1, <2>2 DEF OwnInv
  <2>3. CASE f.torn # 0
    <3>1. Live(t)' /\ SamplerAt(s, t, n)'
      BY <2>3
    <3>2. ASSUME NEW i \in DOMAIN journal[t], journal[t][i].boot = main.boot
          PROVE  journal[t][i].seq < n \/ (t = "window" /\ journal[t][i].seq = n)
      <4>1. CountInv(t) /\ i \in OfBoot(t)
        BY <1>1, <3>2 DEF ThreadInv, OfBoot
      <4> QED  BY <1>1, <4>1 DEF CountInv
    <3> QED  BY <2>1, <3>1, <3>2 DEF OwnInv
  <2> QED  BY <2>2, <2>3
<1>6. ASSUME NEW r \in Stores, NEW u \in Samplers, NEW m \in 0..MaxSamples
      PROVE  RotationInv(r, u, m)'
  <2> SUFFICES ASSUME NEW p \in Boots, CutBy(r, u, m, p)', p # store'[r][u][m].boot
               PROVE  /\ p <= boots /\ (main.at # "down" => p # main.boot)
                      /\ \A i \in DOMAIN ledger : ledger[i].body.boot # p
                      /\ \A r2 \in Stores, u2 \in Samplers, m2 \in 0..MaxSamples :
                           /\ store'[r2][u2][m2] # Absent => store'[r2][u2][m2].boot # p
                           /\ CutBy(r2, u2, m2, p)' => r2 = r /\ u2 = u /\ m2 = m
    BY <1>2 DEF RotationInv
  <2>1. ~(r = s /\ u = t /\ m = n)
    <3>1. p # 0
      BY DEF Boots
    <3> QED  BY <1>3, <3>1 DEF CutBy
  <2>2. store'[r][u][m] = store[r][u][m]
    BY <1>3, <2>1
  <2>3. CutBy(r, u, m, p) /\ p # store[r][u][m].boot
    BY <2>2 DEF CutBy
  <2>4. /\ p <= boots /\ (main.at # "down" => p # main.boot)
        /\ \A i \in DOMAIN ledger : ledger[i].body.boot # p
    BY <2>3 DEF TornInv, RotationInv
  <2>5. \A r2 \in Stores, u2 \in Samplers, m2 \in 0..MaxSamples :
          /\ store[r2][u2][m2] # Absent => store[r2][u2][m2].boot # p
          /\ CutBy(r2, u2, m2, p) => r2 = r /\ u2 = u /\ m2 = m
    BY <2>3 DEF TornInv, RotationInv
  <2>6. ASSUME NEW r2 \in Stores, NEW u2 \in Samplers, NEW m2 \in 0..MaxSamples
        PROVE  /\ store'[r2][u2][m2] # Absent => store'[r2][u2][m2].boot # p
               /\ CutBy(r2, u2, m2, p)' => r2 = r /\ u2 = u /\ m2 = m
    <3>1. CASE r2 = s /\ u2 = t /\ m2 = n
      <4>1. store'[r2][u2][m2] = f
        BY <1>3, <3>1
      <4>2. p # main.boot /\ p # 0
        BY <1>1, <2>4 DEF Boots
      <4> QED  BY <4>1, <4>2 DEF CutBy
    <3>2. CASE ~(r2 = s /\ u2 = t /\ m2 = n)
      <4>1. store'[r2][u2][m2] = store[r2][u2][m2]
        BY <1>3, <3>2
      <4> QED  BY <2>5, <4>1 DEF CutBy
    <3> QED  BY <3>1, <3>2
  <2> QED  BY <2>4, <2>6
<1>7. UnusedInv'
  BY <1>2 DEF UnusedInv
<1> QED  BY <1>4, <1>5, <1>6, <1>7 DEF TornInv

\* The file that the rotation cuts off, or writes back.
LEMMA RotationTears ==
    ASSUME EvidenceInv, TornInv, ~Overlap, NEW s \in Stores, NEW t \in Samplers,
           NEW n \in 0..MaxSamples, NEW f \in File, Puts(s, t, n, f),
           cli.at = s, cli.file = <<t, n>>, cli'.boot = cli.boot,
           store[s][t][n] # Absent, f.boot = store[s][t][n].boot,
           \/ f.torn = 0 /\ cli.step = "open"
           \/ f.torn = cli.boot /\ cli.step # "open" /\ RotationAt(s, t, n)',
           UNCHANGED <<boots, main, phase, seq, job, journal, ledger>>
    PROVE  TornInv'
<1>1. /\ TypeOK /\ boots \in Nat /\ cli.at # "off" /\ Unrecorded
      /\ cli.boot \in 1..boots /\ cli.boot # main.boot /\ cli.boot \in Boots /\ main.at = "down"
  <2>1. TypeOK /\ MainInv /\ boots \in 0..MaxBoots /\ cli.at # "off" /\ main.at = "down"
    BY DEF EvidenceInv, TypeOK, CliInv, Stores
  <2> QED  BY <2>1, EvidenceAssumption DEF MainInv, Boots, Unrecorded
<1>2. \A i \in DOMAIN ledger : ledger[i].body.boot # cli.boot
  BY <1>1 DEF EvidenceInv, LinesInv
<1>3. ASSUME NEW r \in Stores, NEW u \in Samplers, NEW m \in 0..MaxSamples
      PROVE  store'[r][u][m] = IF r = s /\ u = t /\ m = n THEN f ELSE store[r][u][m]
  BY <1>1, StorePut
<1>4. ASSUME NEW r \in Stores, NEW u \in Samplers, NEW m \in 0..MaxSamples,
             store'[r][u][m] # Absent
      PROVE  /\ store[r][u][m] # Absent /\ store'[r][u][m].boot = store[r][u][m].boot
             /\ store'[r][u][m].boot # cli.boot /\ store'[r][u][m].boot # 0
  <2>1. store[r][u][m] # Absent /\ store'[r][u][m].boot = store[r][u][m].boot
    <3>1. CASE r = s /\ u = t /\ m = n
      BY <1>3, <3>1
    <3>2. CASE ~(r = s /\ u = t /\ m = n)
      <4>1. store'[r][u][m] = store[r][u][m]
        BY <1>3, <3>2
      <4> QED  BY <1>4, <4>1
    <3> QED  BY <3>1, <3>2
  <2>2. store[r][u][m].boot # cli.boot /\ store[r][u][m].boot # 0
    BY <1>1, <2>1, FileFacts DEF TornInv, UnusedInv
  <2> QED  BY <2>1, <2>2
\* A file the live rotation has cut off is the one at hand.
<1>5. ASSUME NEW r \in Stores, NEW u \in Samplers, NEW m \in 0..MaxSamples,
             CutBy(r, u, m, cli.boot)
      PROVE  r = s /\ u = t /\ m = n /\ cli.step = "open"
  <2>1. store[r][u][m] # Absent /\ store[r][u][m].boot # cli.boot
    BY <1>1, <1>5 DEF CutBy, TornInv, UnusedInv
  <2>2. RotationAt(r, u, m)
    BY <1>1, <1>5, <2>1 DEF TornInv, RotationInv
  <2> QED  BY <2>2 DEF RotationAt
<1>6. ASSUME NEW r \in Stores, NEW u \in Samplers, NEW m \in 0..MaxSamples
      PROVE  OwnInv(r, u, m)'
  <2>1. CASE r = s /\ u = t /\ m = n
    <3>1. store'[r][u][m] = f
      BY <1>3, <2>1
    <3>2. f # Absent
      BY AbsentAssumption
    <3>3. f.boot # cli.boot /\ f.boot # 0
      BY <1>4, <3>1, <3>2
    <3>4. f.torn # f.boot
      BY <3>3
    <3> QED  BY <3>1, <3>4 DEF OwnInv
  <2>2. CASE ~(r = s /\ u = t /\ m = n)
    <3>1. store'[r][u][m] = store[r][u][m]
      BY <1>3, <2>2
    <3>2. OwnInv(r, u, m)
      BY DEF TornInv
    <3>3. (Live(u)' <=> Live(u)) /\ (SamplerAt(r, u, m)' <=> SamplerAt(r, u, m))
      BY DEF Live, SamplerAt, Writing, Sink
    <3> QED  BY <3>1, <3>2, <3>3 DEF OwnInv
  <2> QED  BY <2>1, <2>2
<1>7. ASSUME NEW r \in Stores, NEW u \in Samplers, NEW m \in 0..MaxSamples
      PROVE  RotationInv(r, u, m)'
  <2> SUFFICES ASSUME NEW p \in Boots, CutBy(r, u, m, p)', p # store'[r][u][m].boot
               PROVE  /\ p <= boots /\ (main.at # "down" => p # main.boot)
                      /\ \A i \in DOMAIN ledger : ledger[i].body.boot # p
                      /\ \A r2 \in Stores, u2 \in Samplers, m2 \in 0..MaxSamples :
                           /\ store'[r2][u2][m2] # Absent => store'[r2][u2][m2].boot # p
                           /\ CutBy(r2, u2, m2, p)' => r2 = r /\ u2 = u /\ m2 = m
                      /\ cli'.at # "off" /\ cli'.boot = p => RotationAt(r, u, m)'
    BY DEF RotationInv
  <2>0. p # 0
    BY DEF Boots
  <2>1. CASE r = s /\ u = t /\ m = n
    <3>1. store'[r][u][m] = f
      BY <1>3, <2>1
    <3>2. p = cli.boot /\ f.torn = cli.boot /\ cli.step # "open" /\ RotationAt(s, t, n)'
      BY <2>0, <3>1 DEF CutBy
    <3>3. ASSUME NEW r2 \in Stores, NEW u2 \in Samplers, NEW m2 \in 0..MaxSamples,
                 CutBy(r2, u2, m2, p)', ~(r2 = s /\ u2 = t /\ m2 = n)
          PROVE  FALSE
      <4>1. store'[r2][u2][m2] = store[r2][u2][m2]
        BY <1>3, <3>3
      <4>2. CutBy(r2, u2, m2, cli.boot)
        BY <3>2, <3>3, <4>1 DEF CutBy
      <4> QED  BY <1>5, <3>2, <4>2
    <3>4. \A r2 \in Stores, u2 \in Samplers, m2 \in 0..MaxSamples :
            store'[r2][u2][m2] # Absent => store'[r2][u2][m2].boot # p
      BY <1>4, <3>2
    <3> QED  BY <1>1, <1>2, <2>1, <3>2, <3>3, <3>4
  <2>2. CASE ~(r = s /\ u = t /\ m = n)
    <3>1. store'[r][u][m] = store[r][u][m]
      BY <1>3, <2>2
    <3>2. CutBy(r, u, m, p) /\ p # store[r][u][m].boot
      BY <3>1 DEF CutBy
    <3>3. p # cli.boot
      BY <1>5, <2>2, <3>2
    <3>4. /\ p <= boots /\ (main.at # "down" => p # main.boot)
          /\ \A i \in DOMAIN ledger : ledger[i].body.boot # p
      BY <3>2 DEF TornInv, RotationInv
    <3>5. \A r2 \in Stores, u2 \in Samplers, m2 \in 0..MaxSamples :
            /\ store[r2][u2][m2] # Absent => store[r2][u2][m2].boot # p
            /\ CutBy(r2, u2, m2, p) => r2 = r /\ u2 = u /\ m2 = m
      BY <3>2 DEF TornInv, RotationInv
    <3>6. ASSUME NEW r2 \in Stores, NEW u2 \in Samplers, NEW m2 \in 0..MaxSamples
          PROVE  /\ store'[r2][u2][m2] # Absent => store'[r2][u2][m2].boot # p
                 /\ CutBy(r2, u2, m2, p)' => r2 = r /\ u2 = u /\ m2 = m
      <4>1. store'[r2][u2][m2] # Absent => store'[r2][u2][m2].boot # p
        BY <1>4, <3>5
      <4>2. CASE r2 = s /\ u2 = t /\ m2 = n
        <5>1. store'[r2][u2][m2] = f
          BY <1>3, <4>2
        <5>2. ~CutBy(r2, u2, m2, p)'
          BY <2>0, <3>3, <5>1 DEF CutBy
        <5> QED  BY <4>1, <5>2
      <4>3. CASE ~(r2 = s /\ u2 = t /\ m2 = n)
        <5>1. store'[r2][u2][m2] = store[r2][u2][m2]
          BY <1>3, <4>3
        <5> QED  BY <3>5, <4>1, <5>1 DEF CutBy
      <4> QED  BY <4>2, <4>3
    <3> QED  BY <3>3, <3>4, <3>6
  <2> QED  BY <2>1, <2>2
<1>8. UnusedInv'
  BY <1>4 DEF UnusedInv
<1> QED  BY <1>6, <1>7, <1>8 DEF TornInv


\* A step of a thread that is at no file, or is over with it.
LEMMA ThreadTears ==
    ASSUME EvidenceInv, TornInv, ~Overlap, NEW t \in Samplers, Live(t), phase'[t] # "none",
           UNCHANGED <<boots, main, cli, store>>,
           \A u \in Samplers \ {t} :
               phase'[u] = phase[u] /\ seq'[u] = seq[u] /\ job'[u] = job[u],
           \/ \A s \in Stores, n \in 0..MaxSamples : ~SamplerAt(s, t, n)
           \/ ~Live(t)' /\ journal' = journal,
           \A u \in Samplers : \A i \in DOMAIN journal'[u] :
               \/ i \in DOMAIN journal[u] /\ journal'[u][i] = journal[u][i]
               \/ u = t /\ journal'[u][i].boot = main.boot,
           \A i \in DOMAIN ledger' : \/ i \in DOMAIN ledger /\ ledger'[i] = ledger[i]
                                     \/ ledger'[i].body.boot = main.boot
    PROVE  TornInv'
<1>1. main.at # "down" /\ boots \in Nat
  BY DEF EvidenceInv, ThreadInv, JobInv, TypeOK
<1>2. ASSUME NEW u \in Samplers
      PROVE  /\ phase[u] # "none" => phase'[u] # "none"
             /\ Live(u)' => /\ Live(u)
                            /\ \A s \in Stores, n \in 0..MaxSamples :
                                 SamplerAt(s, u, n) => SamplerAt(s, u, n)'
  <2>1. CASE u = t
    BY <2>1
  <2>2. CASE u # t
    <3>1. phase'[u] = phase[u] /\ seq'[u] = seq[u] /\ job'[u] = job[u]
      BY <2>2
    <3> QED  BY <3>1 DEF Live, SamplerAt, Writing, Sink
  <2> QED  BY <2>1, <2>2
<1>3. \A u \in Samplers : \A i \in DOMAIN journal'[u] :
        \/ i \in DOMAIN journal[u] /\ journal'[u][i] = journal[u][i]
        \/ /\ journal'[u][i].boot = main.boot /\ Live(u)
           /\ \A s \in Stores, n \in 0..MaxSamples : ~SamplerAt(s, u, n)
  OBVIOUS
<1> QED  BY <1>1, <1>2, <1>3, TornStays

LEMMA SamplerTorn ==
    ASSUME EvidenceInv, TornInv, ~Overlap, NEW t \in Samplers, Sampler(t)
    PROVE  TornInv'
<1>1. /\ TypeOK /\ JobInv(t) /\ journal[t] \in Seq(Event)
      /\ phase \in [Samplers -> {"none", "loop", "job", "dead"}] /\ job \in [Samplers -> Job]
      /\ seq \in [Samplers -> 0..MaxSamples]
  BY DEF EvidenceInv, ThreadInv, TypeOK
<1>2. UNCHANGED <<boots, main, cli>>
  BY DEF Sampler, SampleDue, BeginPut, EndPut, JournalAppend, AppendToLedger, AnchorLedger,
         NotCanonical, Quit, SamplerFails
<1>3. CASE SampleDue(t)
  <2>1. /\ phase[t] = "loop" /\ phase' = [phase EXCEPT ![t] = "job"]
        /\ job' = [job EXCEPT ![t] = At("sample", 1)]
        /\ UNCHANGED <<seq, store, journal, ledger>>
    BY <1>3 DEF SampleDue, ledgerVars
  <2>2. Live(t) /\ phase'[t] # "none"
    BY <1>1, <2>1 DEF Live
  <2>3. \A s \in Stores, n \in 0..MaxSamples : ~SamplerAt(s, t, n)
    BY <2>1 DEF SamplerAt, Writing
  <2>4. \A u \in Samplers \ {t} : phase'[u] = phase[u] /\ seq'[u] = seq[u] /\ job'[u] = job[u]
    BY <1>1, <2>1
  <2> QED  BY <1>2, <2>1, <2>2, <2>3, <2>4, ThreadTears
<1>4. CASE \E s \in Stores : BeginPut(t, s)
  <2>1. PICK s \in Stores : BeginPut(t, s)
    BY <1>4
  <2>2. PICK f : f = [boot |-> main.boot, torn |-> main.boot]
    OBVIOUS
  <2>3. PICK o : o = [job[t] EXCEPT !.open = TRUE]
    OBVIOUS
  <2>4. /\ Writing(t, s) /\ ~job[t].open /\ Puts(s, t, seq[t], f)
        /\ job' = [job EXCEPT ![t] = o]
        /\ UNCHANGED <<phase, seq, journal, ledger>>
    BY <2>1, <2>2, <2>3 DEF BeginPut, Puts, ledgerVars
  <2>5. /\ Live(t) /\ main.boot \in Boots /\ seq[t] \in 0..MaxSamples
    BY <2>4, AtStore
  <2>6. f \in File /\ f.boot = main.boot /\ f.torn = main.boot
    <3>1. main.boot \in 0..MaxBoots
      BY <2>5 DEF Boots
    <3> QED  BY <2>2, <2>5, <3>1 DEF File
  <2>7. job[t] \in Job
    BY <1>1
  <2>8. o.kind = job[t].kind /\ o.step = job[t].step /\ o.open
    BY <2>3, <2>7, Opened, Zenon
  <2>9. job'[t] = o /\ \A u \in Samplers \ {t} : job'[u] = job[u]
    BY <1>1, <2>4
  <2>10. Live(t)' /\ SamplerAt(s, t, seq[t])'
    <3>1. Live(t)' /\ Writing(t, s)'
      BY <2>4, <2>5, <2>8, <2>9 DEF Live, Writing, Sink
    <3>2. job'[t].open
      BY <2>8, <2>9, Zenon
    <3> QED  BY <2>4, <3>1, <3>2 DEF SamplerAt
  <2>11. \A u \in Samplers \ {t} : phase'[u] = phase[u] /\ seq'[u] = seq[u] /\ job'[u] = job[u]
    BY <2>4, <2>9
  <2>12. phase'[t] # "none"
    BY <2>10 DEF Live
  <2> QED  BY <1>2, <2>4, <2>5, <2>6, <2>10, <2>11, <2>12, SamplerTears
<1>5. CASE \E s \in Stores : EndPut(t, s)
  <2>1. PICK s \in Stores : EndPut(t, s)
    BY <1>5
  <2>2. /\ Writing(t, s) /\ job[t].open /\ Advance(t) /\ UNCHANGED <<journal, ledger>>
    BY <2>1 DEF EndPut, ledgerVars
  <2>3. /\ Live(t) /\ Sampling(t) /\ main.boot \in Boots /\ seq[t] \in 0..MaxSamples
        /\ main.at # "down"
    BY <2>2, AtStore
  <2>4. ~RotationAt(s, t, seq[t])
    BY <2>3 DEF EvidenceInv, CliInv, RotationAt, Stores
  <2>5. PICK f : f = [boot |-> main.boot, torn |-> 0]
    OBVIOUS
  <2>6. Puts(s, t, seq[t], f)
    BY <2>1, <2>4, <2>5 DEF EndPut, TornAfter, Puts
  <2>7. f \in File /\ f.boot = main.boot /\ f.torn = 0
    <3>1. 0 \in 0..MaxBoots
      BY EvidenceAssumption
    <3> QED  BY <2>3, <2>5, <3>1 DEF File
  <2>8. /\ \A u \in Samplers \ {t} : phase'[u] = phase[u] /\ seq'[u] = seq[u] /\ job'[u] = job[u]
        /\ phase' = phase \/ phase'[t] = "loop"
    BY <1>1, <2>2, <2>3, Advances
  <2>9. phase'[t] # "none"
    BY <2>3, <2>8 DEF Live
  <2> QED  BY <1>2, <2>2, <2>3, <2>6, <2>7, <2>8, <2>9, SamplerTears
<1>6. CASE JournalAppend(t) \/ AppendToLedger(t) \/ AnchorLedger(t)
  <2>1. PICK sink \in {"journal", "ledger", "anchor"} :
          /\ Writing(t, sink) /\ Advance(t) /\ store' = store
          /\ sink = "anchor" \/ Canonical(job[t].kind)
          /\ (sink = "journal" /\ JournalAppend(t)) \/ journal' = journal
          /\ (sink = "ledger" /\ AppendToLedger(t)) \/ ledger' = ledger
    BY <1>6 DEF JournalAppend, AppendToLedger, AnchorLedger, AnchorHead, ledgerVars
  <2>2. /\ Live(t) /\ Sampling(t) /\ Record(t) \in Event /\ Record(t) \in Entry
        /\ Record(t) = [kind |-> "sample", seq |-> seq[t], boot |-> main.boot]
    BY <2>1, AtRecord
  <2>3. PICK line \in Event : line = Record(t)
    BY <2>2
  <2>4. line.boot = main.boot /\ line \in Entry
    BY <2>2, <2>3
  <2>5. \A s \in Stores, n \in 0..MaxSamples : ~SamplerAt(s, t, n)
    BY <2>1 DEF SamplerAt, Writing, Stores
  <2>6. /\ \A u \in Samplers \ {t} : phase'[u] = phase[u] /\ seq'[u] = seq[u] /\ job'[u] = job[u]
        /\ phase' = phase \/ phase'[t] = "loop"
    BY <1>1, <2>1, <2>2, Advances
  <2>7. phase'[t] # "none"
    BY <2>2, <2>6 DEF Live
  <2>8. ASSUME NEW u \in Samplers, NEW i \in DOMAIN journal'[u]
        PROVE  \/ i \in DOMAIN journal[u] /\ journal'[u][i] = journal[u][i]
               \/ u = t /\ journal'[u][i].boot = main.boot
    <3>1. CASE journal' = journal
      BY <2>8, <3>1
    <3>2. CASE JournalAppend(t)
      <4>1. journal' = [journal EXCEPT ![t] = Append(journal[t], line)] /\ Samplers = DOMAIN journal
        BY <1>1, <2>3, <3>2 DEF JournalAppend, TypeOK
      <4>2. CASE u # t
        <5>1. journal'[u] = journal[u]
          BY <4>1, <4>2
        <5> QED  BY <2>8, <5>1
      <4>3. CASE u = t
        <5>1. journal'[u] = Append(journal[t], line)
          BY <4>1, <4>3
        <5>2. \/ i \in DOMAIN journal[t] /\ journal'[u][i] = journal[t][i]
              \/ journal'[u][i] = line
          BY <1>1, <2>8, <5>1
        <5> QED  BY <2>4, <4>3, <5>2
      <4> QED  BY <4>2, <4>3
    <3> QED  BY <2>1, <3>1, <3>2
  <2>9. ASSUME NEW i \in DOMAIN ledger'
        PROVE  \/ i \in DOMAIN ledger /\ ledger'[i] = ledger[i]
               \/ ledger'[i].body.boot = main.boot
    <3>1. CASE ledger' = ledger
      BY <2>9, <3>1
    <3>2. CASE AppendToLedger(t)
      <4>1. LedgerAppend(RunProc, line) /\ RunProc \in Procs
        BY <2>3, <3>2, EvidenceAssumption DEF AppendToLedger
      <4>2. PICK last : last = Len(ledger) + 1
        OBVIOUS
      <4>3. /\ Len(ledger) \in Nat /\ DOMAIN ledger = 1..Len(ledger) /\ DOMAIN ledger' = 1..last
            /\ ledger'[last].body = line /\ \A j \in DOMAIN ledger : ledger'[j] = ledger[j]
        BY <1>1, <2>4, <4>1, <4>2, LedgerGrows
      <4>4. i \in DOMAIN ledger \/ i = last
        BY <2>9, <4>2, <4>3
      <4> QED  BY <2>4, <4>3, <4>4
    <3> QED  BY <2>1, <3>1, <3>2
  <2> QED  BY <1>2, <2>1, <2>2, <2>5, <2>6, <2>7, <2>8, <2>9, ThreadTears
<1>7. CASE NotCanonical(t) \/ Quit(t) \/ SamplerFails(t)
  <2>1. /\ ThreadEnds(t) /\ UNCHANGED <<store, journal, ledger>> /\ Live(t)
    BY <1>7 DEF NotCanonical, Quit, SamplerFails, ledgerVars, Live, Writing
  <2>2. /\ phase'[t] = "dead"
        /\ \A u \in Samplers \ {t} : phase'[u] = phase[u] /\ seq'[u] = seq[u] /\ job'[u] = job[u]
    BY <1>1, <2>1 DEF ThreadEnds
  <2>3. ~Live(t)' /\ phase'[t] # "none"
    BY <2>2 DEF Live
  <2> QED  BY <1>2, <2>1, <2>2, <2>3, ThreadTears
<1> QED  BY <1>3, <1>4, <1>5, <1>6, <1>7 DEF Sampler

LEMMA MainTorn ==
    ASSUME EvidenceInv, TornInv, ~Overlap,
           DiskCritical \/ Boot \/ StartSampler \/ Interrupt \/ Stopping \/ Crash
    PROVE  TornInv'
<1>1. /\ TypeOK /\ MainInv /\ boots \in Nat /\ "capture" \in Samplers
      /\ phase \in [Samplers -> {"none", "loop", "job", "dead"}] /\ job \in [Samplers -> Job]
  BY DEF EvidenceInv, TypeOK, Samplers
<1>2. CASE DiskCritical
  <2>1. /\ phase["capture"] = "loop" /\ phase' = [phase EXCEPT !["capture"] = "job"]
        /\ job' = [job EXCEPT !["capture"] = At("critical", 1)]
        /\ UNCHANGED <<boots, main, cli, seq, store, journal, ledger>>
    BY <1>2 DEF DiskCritical, ledgerVars
  <2>2. Live("capture") /\ phase'["capture"] # "none"
    BY <1>1, <2>1 DEF Live
  <2>3. \A s \in Stores, n \in 0..MaxSamples : ~SamplerAt(s, "capture", n)
    BY <2>1 DEF SamplerAt, Writing
  <2>4. \A u \in Samplers \ {"capture"} :
          phase'[u] = phase[u] /\ seq'[u] = seq[u] /\ job'[u] = job[u]
    BY <1>1, <2>1
  <2> QED  BY <1>1, <2>1, <2>2, <2>3, <2>4, ThreadTears
<1>3. CASE Boot
  <2>1. /\ boots' = boots + 1 /\ main'.boot = boots + 1
        /\ UNCHANGED <<store, journal, cli, ledger>> /\ main.boot # boots + 1
    BY <1>1, <1>3 DEF Boot, OpenWriters, MainInv
  <2> QED  BY <1>1, <2>1, TornStays
<1>4. CASE StartSampler
  <2>1. main.next \in 1..3 /\ main \in MainStates
    BY <1>1 DEF TypeOK, MainStates
  <2>2. PICK t \in Samplers : /\ t = Order[main.next] /\ phase[t] = "none"
                              /\ phase' = [phase EXCEPT ![t] = "loop"]
                              /\ seq' = [seq EXCEPT ![t] = 0]
    <3>1. Order[main.next] \in Samplers
      BY <2>1 DEF Order, Samplers
    <3>2. phase[Order[main.next]] = "none"
      BY <1>1, <1>4, <2>1 DEF StartSampler, MainInv
    <3> QED  BY <1>4, <3>1, <3>2 DEF StartSampler
  <2>3. /\ main.at # "down" /\ main'.boot = main.boot
        /\ UNCHANGED <<boots, job, store, journal, cli, ledger>>
    BY <1>4, <2>1 DEF StartSampler, MainStates, ledgerVars
  <2>4. ASSUME NEW u \in Samplers
        PROVE  /\ phase[u] # "none" => phase'[u] # "none"
               /\ Live(u)' => \/ phase[u] = "none"
                              \/ /\ Live(u)
                                 /\ \A s \in Stores, n \in 0..MaxSamples :
                                      SamplerAt(s, u, n) => SamplerAt(s, u, n)'
    <3>1. CASE u = t
      BY <1>1, <2>2, <3>1
    <3>2. CASE u # t
      <4>1. phase'[u] = phase[u] /\ seq'[u] = seq[u] /\ job'[u] = job[u]
        BY <1>1, <2>2, <2>3, <3>2 DEF TypeOK
      <4> QED  BY <4>1 DEF Live, SamplerAt, Writing, Sink
    <3> QED  BY <3>1, <3>2
  <2> QED  BY <1>1, <2>3, <2>4, TornStays
<1>5. CASE Interrupt \/ SetStop
  <2>1. /\ main'.boot = main.boot /\ main.at # "down"
        /\ UNCHANGED <<boots, phase, seq, job, store, journal, cli, ledger>>
    <3>1. main \in MainStates
      BY <1>1 DEF TypeOK, MainStates
    <3>2. CASE Interrupt
      BY <3>1, <3>2 DEF Interrupt, threadVars, ledgerVars, MainStates
    <3>3. CASE SetStop
      <4>1. main' = [main EXCEPT !.joining = TRUE]
        BY <3>3 DEF SetStop
      <4>2. main'.boot = main.boot
        BY <3>1, <4>1, MainSetJoining, Zenon
      <4> QED  BY <3>3, <4>2 DEF SetStop, ledgerVars
    <3> QED  BY <1>5, <3>2, <3>3
  <2>2. ASSUME NEW u \in Samplers, NEW s \in Stores, NEW n \in 0..MaxSamples
        PROVE  (Live(u)' <=> Live(u)) /\ (SamplerAt(s, u, n)' <=> SamplerAt(s, u, n))
    BY <2>1 DEF Live, SamplerAt, Writing, Sink
  <2>3. \A u \in Samplers : Live(u)' => Live(u)
    BY <2>1 DEF Live
  <2> QED  BY <1>1, <2>1, <2>2, <2>3, TornStays
<1>6. CASE Joined \/ Crash
  <2>1. /\ main.at # "down" /\ UNCHANGED <<boots, store, journal, cli, ledger>>
        /\ Gone \/ (Joined /\ UNCHANGED <<phase, seq, job>>
                      /\ main' = [main EXCEPT !.next = @ + 1, !.joining = FALSE])
    BY <1>6 DEF Joined, Crash, threadVars, ledgerVars
  <2>2. CASE Gone
    <3>1. main'.at = "down" /\ main'.boot = 0
      BY <2>2, MainSet, EvidenceAssumption DEF Gone
    <3>2. main.boot # 0
      BY <1>1, <2>1 DEF MainInv
    <3> QED  BY <1>1, <2>1, <3>1, <3>2, TornStays
  <2>3. CASE UNCHANGED <<phase, seq, job>> /\ main' = [main EXCEPT !.next = @ + 1, !.joining = FALSE]
    <3>1. PICK q : q = [main EXCEPT !.next = @ + 1]
      OBVIOUS
    <3>2. main' = [q EXCEPT !.joining = FALSE]
      BY <2>3, <3>1
    <3>3. main'.boot = main.boot
      <4>1. ASSUME NEW b PROVE [q EXCEPT !.joining = b].boot = main.boot
        <5>1. main \in MainStates
          BY <1>1 DEF TypeOK, MainStates
        <5> QED  BY <3>1, <5>1 DEF MainStates
      <4> QED  BY <3>2, <4>1, Zenon
    <3>4. ASSUME NEW u \in Samplers, NEW s \in Stores, NEW n \in 0..MaxSamples
          PROVE  SamplerAt(s, u, n)' <=> SamplerAt(s, u, n)
      BY <2>3 DEF SamplerAt, Writing, Sink
    <3>5. \A u \in Samplers : Live(u)' => Live(u)
      BY <2>3 DEF Live
    <3> QED  BY <1>1, <2>1, <2>3, <3>3, <3>4, <3>5, TornStays
  <2> QED  BY <2>1, <2>2, <2>3
<1> QED  BY <1>2, <1>3, <1>4, <1>5, <1>6 DEF Stopping

LEMMA CliTorn ==
    ASSUME EvidenceInv, TornInv, ~Overlap, Rotation
    PROVE  TornInv'
<1>1. TypeOK /\ boots \in Nat /\ UNCHANGED <<main, phase, seq, job, journal>>
  <2>1. UNCHANGED <<main, phase, stop, seq, job, journal>>
    BY DEF Rotation, CliBoot, CliList, CliGet, CliFails, CliTear, CliPut, CliRecord, CliAnchor,
           CliCrash, threadVars
  <2> QED  BY <2>1 DEF EvidenceInv, TypeOK
<1>2. ASSUME NEW u \in Samplers, NEW s \in Stores, NEW n \in 0..MaxSamples
      PROVE  SamplerAt(s, u, n)' <=> SamplerAt(s, u, n)
  BY <1>1 DEF SamplerAt, Writing, Sink
<1>3. \A u \in Samplers : Live(u)' => Live(u)
  BY <1>1 DEF Live
<1>4. CASE CliBoot
  <2>1. boots' = boots + 1 /\ cli'.boot = boots + 1 /\ UNCHANGED <<store, ledger>>
    BY <1>4, CliBootInv DEF CliBoot, OpenWriters
  <2> QED  BY <1>1, <1>2, <1>3, <2>1, TornStays
<1>5. CASE (\E s \in Stores : CliList(s)) \/ CliGet
  <2>1. cli.at # "off" /\ cli'.boot = cli.boot /\ cli.step # "open"
    BY <1>5, CliListInv, CliGetInv
  <2>2. UNCHANGED <<boots, store, ledger>>
    BY <1>5 DEF CliList, CliGet, ledgerVars
  <2> QED  BY <1>1, <1>2, <1>3, <2>1, <2>2, TornStays
<1>6. CASE CliFails \/ CliAnchor \/ CliCrash
  <2>1. cli'.at = "off" /\ UNCHANGED <<boots, store, ledger>>
    BY <1>6, CliNone DEF CliFails, CliAnchor, CliCrash, AnchorHead, ledgerVars
  <2> QED  BY <1>1, <1>2, <1>3, <2>1, TornStays
<1>7. CASE CliRecord
  <2>1. /\ cli.at # "off" /\ cli.step # "open" /\ cli'.boot = cli.boot
        /\ \E e \in Entry : LedgerAppend(CliProc, e) /\ e.boot = cli.boot
    BY <1>7, CliRecordInv
  <2>2. PICK e \in Entry : LedgerAppend(CliProc, e) /\ e.boot = cli.boot
    BY <2>1
  <2>3. PICK last : last = Len(ledger) + 1
    OBVIOUS
  <2>4. /\ Len(ledger) \in Nat /\ DOMAIN ledger = 1..Len(ledger) /\ DOMAIN ledger' = 1..last
        /\ ledger'[last].body = e /\ \A j \in DOMAIN ledger : ledger'[j] = ledger[j]
    BY <1>1, <2>2, <2>3, LedgerGrows, EvidenceAssumption
  <2>5. \A i \in DOMAIN ledger' : \/ i \in DOMAIN ledger /\ ledger'[i] = ledger[i]
                                  \/ ledger'[i].body.boot = cli.boot
    BY <2>2, <2>3, <2>4
  <2>6. UNCHANGED <<boots, store>>
    BY <1>7 DEF CliRecord
  <2> QED  BY <1>1, <1>2, <1>3, <2>1, <2>5, <2>6, TornStays
<1>8. CASE CliTear
  <2>1. /\ cli'.boot = cli.boot /\ cli.step = "got" /\ cli.at \in Stores
        /\ cli'.step = "open" /\ cli'.at = cli.at /\ cli'.file = cli.file
    BY <1>8, CliTearInv DEF CliTear
  <2>2. PICK s \in Stores, t \in Samplers, n \in 0..MaxSamples, f \in File :
          /\ Puts(s, t, n, f) /\ s = cli.at /\ <<t, n>> = cli.file /\ store[s][t][n] # Absent
          /\ f.boot = store[s][t][n].boot /\ f.torn = cli.boot
    BY <1>8, CliTearInv
  <2>3. RotationAt(s, t, n)'
    BY <2>1, <2>2 DEF RotationAt
  <2>4. UNCHANGED <<boots, ledger>>
    BY <1>8 DEF CliTear, ledgerVars
  <2> QED  BY <1>1, <2>1, <2>2, <2>3, <2>4, RotationTears
<1>9. CASE CliPut
  <2>1. cli'.boot = cli.boot /\ cli.step = "open"
    BY <1>9, CliPutInv
  <2>2. PICK s \in Stores, t \in Samplers, n \in 0..MaxSamples, f \in File :
          /\ Puts(s, t, n, f) /\ s = cli.at /\ <<t, n>> = cli.file /\ store[s][t][n] # Absent
          /\ ~Overlap => f.boot = store[s][t][n].boot /\ f.torn = 0
    BY <1>9, CliPutInv
  <2>3. UNCHANGED <<boots, ledger>>
    BY <1>9 DEF CliPut, ledgerVars
  <2> QED  BY <1>1, <2>1, <2>2, <2>3, RotationTears
<1> QED  BY <1>4, <1>5, <1>6, <1>7, <1>8, <1>9 DEF Rotation

LEMMA TornKept ==
    ASSUME ~Overlap
    PROVE  Spec => []TornInv
<1>1. Init => TornInv
  <2> SUFFICES ASSUME Init
               PROVE  TornInv
    OBVIOUS
  <2>1. \A s \in Stores, t \in Samplers, n \in 0..MaxSamples : store[s][t][n] = Absent
    BY DEF Init
  <2> QED  BY <2>1, CliNone DEF Init, TornInv, OwnInv, RotationInv, UnusedInv, CutBy
<1>2. ASSUME EvidenceInv, TornInv, [Next]_vars PROVE TornInv'
  <2>1. CASE UNCHANGED vars
    <3>1. UNCHANGED <<boots, main, phase, seq, job, store, journal, cli, ledger>>
      BY <2>1 DEF vars, threadVars, ledgerVars
    <3>2. ASSUME NEW u \in Samplers, NEW s \in Stores, NEW n \in 0..MaxSamples
          PROVE  SamplerAt(s, u, n)' <=> SamplerAt(s, u, n)
      BY <3>1 DEF SamplerAt, Writing, Sink
    <3>3. \A u \in Samplers : Live(u)' => Live(u)
      BY <3>1 DEF Live
    <3>4. boots' \in Nat /\ boots <= boots'
      BY <1>2, <3>1 DEF EvidenceInv, TypeOK
    <3> QED  BY <1>2, <3>1, <3>2, <3>3, <3>4, TornStays
  <2> QED  BY <1>2, <2>1, SamplerTorn, MainTorn, CliTorn DEF Next
<1> QED  BY <1>1, <1>2, EvidenceKept, PTL DEF Spec

\* A file that holds what an event or a line cites is kept.
LEMMA HeldIsKept ==
    ASSUME EvidenceInv, TornInv, ~Overlap, NEW s \in Stores, NEW t \in Samplers,
           NEW n \in 0..MaxSamples, NEW b, Holds(s, t, n, b)
    PROVE  Kept(s, t, n, b)
<1> SUFFICES ASSUME store[s][t][n].torn # 0
             PROVE  LastWrite(s, t, n)
  BY DEF Kept
<1>1. /\ store[s][t][n] # Absent /\ store[s][t][n].torn \in 0..MaxBoots
      /\ OwnInv(s, t, n) /\ RotationInv(s, t, n)
  BY FileAt DEF Holds, EvidenceInv, TornInv
<1>2. store[s][t][n].torn \in Boots
  BY <1>1, EvidenceAssumption DEF Boots
<1>3. CASE store[s][t][n].torn = store[s][t][n].boot
  BY <1>1, <1>3 DEF OwnInv, LastWrite
<1>4. CASE store[s][t][n].torn # store[s][t][n].boot
  <2>1. PICK p \in Boots : p = store[s][t][n].torn
    BY <1>2
  <2>2. CutBy(s, t, n, p) /\ p # store[s][t][n].boot
    BY <1>1, <1>4, <2>1 DEF CutBy
  <2>3. \A i \in DOMAIN ledger : ledger[i].body.boot # p
    BY <1>1, <2>2 DEF RotationInv
  <2>4. \A r \in Stores, u \in Samplers, m \in 0..MaxSamples :
          CutBy(r, u, m, p) => r = s /\ u = t /\ m = n
    BY <1>1, <2>2 DEF RotationInv
  <2> QED  BY <1>4, <2>1, <2>3, <2>4 DEF LastWrite, CutBy
<1> QED  BY <1>3, <1>4

LEMMA StoredLines ==
    ASSUME EvidenceInv, TornInv, ~Overlap
    PROVE  LedgerCitesStoredEvidence
<1> SUFFICES ASSUME NEW i \in DOMAIN ledger, ledger[i].body.kind = "sample", NEW s \in Stores
             PROVE  Kept(s, "capture", ledger[i].body.seq, ledger[i].body.boot)
  BY DEF LedgerCitesStoredEvidence
<1>1. PICK j \in DOMAIN journal["capture"] : journal["capture"][j] = ledger[i].body
  BY DEF EvidenceInv, LinesInv
<1>2. EventsInv("capture") /\ Keeps("capture") = Stores /\ "capture" \in Samplers
  BY DEF EvidenceInv, ThreadInv, Samplers, Keeps
<1>3. StoredAll("capture", j) /\ ledger[i].body.seq \in 0..MaxSamples
  BY <1>1, <1>2 DEF EventsInv
<1>4. Holds(s, "capture", ledger[i].body.seq, ledger[i].body.boot)
  BY <1>1, <1>2, <1>3 DEF StoredAll
<1> QED  BY <1>2, <1>3, <1>4, HeldIsKept

\* Whatever dies between which writes, and in a write, while no two processes
\* are alive at once: a line of the ledger had its media and its metadata before
\* it (capture's _flush_segment stores before it records), and has them still,
\* but for the one file that a later process was writing when it died.
THEOREM LedgerHasItsEvidence ==
    ASSUME ~Overlap
    PROVE  Spec => []LedgerCitesStoredEvidence
  BY StoredLines, EvidenceKept, TornKept, PTL

LEMMA BackedEvents ==
    ASSUME EvidenceInv, TornInv, ~Overlap
    PROVE  JournalBackedByEvidence
<1> SUFFICES ASSUME NEW t \in Samplers, NEW i \in DOMAIN journal[t], NEW s \in Stores,
                    ~(t = "audio" /\ s = "meta"), ~(t = "window" /\ s = "media"),
                    ~(t = "window" /\ s = "meta"
                        /\ ~\E j \in DOMAIN journal[t] : j > i /\ journal[t][j].boot = journal[t][i].boot)
             PROVE  Kept(s, t, journal[t][i].seq, journal[t][i].boot)
  BY DEF JournalBackedByEvidence
<1>1. s \in Keeps(t)
  BY DEF Keeps, Samplers, Stores
<1>2. EventsInv(t)
  BY DEF EvidenceInv, ThreadInv
<1>3. t = "window" => ~LastOfBoot(t, i)
  BY DEF LastOfBoot, Stores
<1>4. StoredAll(t, i) /\ journal[t][i].seq \in 0..MaxSamples
  BY <1>2, <1>3 DEF EventsInv, Complete
<1>5. Holds(s, t, journal[t][i].seq, journal[t][i].boot)
  BY <1>1, <1>4 DEF StoredAll
<1> QED  BY <1>4, <1>5, HeldIsKept

\* So is an event of the journal backed by what its thread stores, by all of it
\* once the thread has gone on.
THEOREM JournalIsBacked ==
    ASSUME ~Overlap
    PROVE  Spec => []JournalBackedByEvidence
  BY BackedEvents, EvidenceKept, TornKept, PTL

LEMMA CountedEvents == EvidenceInv => JournalGapless
<1> SUFFICES ASSUME EvidenceInv, NEW t \in Samplers, NEW i \in DOMAIN journal[t]
             PROVE  journal[t][i].seq = Cardinality(Earlier(t, i))
  BY DEF JournalGapless, Earlier
<1> QED  BY DEF EvidenceInv, ThreadInv, EventsInv

\* The samples of one thread in one boot are numbered 0, 1, 2, ... in the
\* journal, whenever the thread or the process dies.
THEOREM JournalHasNoGaps == Spec => []JournalGapless
  BY CountedEvents, EvidenceKept, PTL

LEMMA AgreeingFiles == EvidenceInv => LedgerFollowsJournal
<1> SUFFICES ASSUME EvidenceInv
             PROVE  LedgerFollowsJournal
  OBVIOUS
<1>1. \A i \in DOMAIN ledger : ledger[i].body.kind # "rotation" =>
        \E j \in DOMAIN journal["capture"] : journal["capture"][j] = ledger[i].body
  BY DEF EvidenceInv, LinesInv
<1>2. EventsInv("capture")
  BY DEF EvidenceInv, ThreadInv, Samplers
<1>3. \A j \in DOMAIN journal["capture"] :
        \/ \E i \in DOMAIN ledger : ledger[i].body = journal["capture"][j]
        \/ \A k \in DOMAIN journal["capture"] :
             k > j => journal["capture"][k].boot # journal["capture"][j].boot
  BY <1>2 DEF EventsInv, Complete, LastOfBoot, InLedger
<1> QED  BY <1>1, <1>3 DEF LedgerFollowsJournal

\* What the ledger has the journal had before it, and an event the ledger does
\* not have is the last of its boot.
THEOREM LedgerAgreesWithJournal == Spec => []LedgerFollowsJournal
  BY AgreeingFiles, EvidenceKept, PTL

LEMMA AnchoredLines == EvidenceInv => UnanchoredOnlyAtTheEnd
  BY DEF EvidenceInv, LinesInv, Anchored, LastLine, UnanchoredOnlyAtTheEnd

\* Only the last line a process wrote before it ended can lack its anchor, also
\* while a second process appends to both files.
THEOREM LinesAreAnchored == Spec => []UnanchoredOnlyAtTheEnd
  BY AnchoredLines, EvidenceKept, PTL

----------------------------------------------------------------------------
(* One process at a time: the chain and the numbers of the anchors.        *)

\* What process p remembers of the two files is how they end.
Remembers(p) == head[p] = Len(ledger) /\ anchorSeq[p] = Len(anchors)

\* Someone has written the last line and is about to anchor it.
AboutToAnchor ==
    (Sampling("capture") /\ job["capture"].step = 5) \/ cli.at = "recorded"

LastLineBare ==
    Len(ledger) > 0 /\ \A a \in DOMAIN anchors : anchors[a].head < Len(ledger)

ChainInv ==
    /\ ChainVerifies /\ AnchorsNumbered
    /\ main.at = "down" \/ cli.at = "off"
    /\ main.at # "down" => Remembers(RunProc)
    /\ cli.at # "off" => Remembers(CliProc)
    /\ AboutToAnchor => LastLineBare

LEMMA ChainGrows ==
    ASSUME TypeOK, ChainVerifies, AnchorsNumbered, NEW p \in Procs, Remembers(p),
           NEW e \in Entry, LedgerAppend(p, e)
    PROVE  ChainVerifies' /\ AnchorsNumbered' /\ Remembers(p)' /\ LastLineBare'
<1>0. PICK n \in Nat : n = Len(ledger)
  BY LedgerGrows
<1>1. /\ DOMAIN ledger = 1..n /\ DOMAIN ledger' = 1..(n + 1)
      /\ \A i \in DOMAIN ledger : ledger'[i] = ledger[i]
      /\ head'[p] = n + 1 /\ UNCHANGED <<anchors, anchorSeq>>
  BY <1>0, LedgerGrows
<1>2. ledger' \in Seq([body : Entry, prev : Nat])
  BY LedgerGrows DEF LedgerTypeOK
<1>3. Len(ledger') = n + 1
  BY <1>1, <1>2
<1>4. ledger'[n + 1].prev = n
  <2>1. PICK line : line = [body |-> e, prev |-> head[p]]
    OBVIOUS
  <2>2. line.prev = n /\ line \in [body : Entry, prev : Nat]
    BY <1>0, <2>1 DEF Remembers
  <2>3. PICK S : S = [body : Entry, prev : Nat]
    OBVIOUS
  <2>4. ledger' = Append(ledger, line) /\ ledger \in Seq(S) /\ line \in S
    BY <2>1, <2>2, <2>3 DEF LedgerAppend, TypeOK, LedgerTypeOK
  <2> QED  BY <1>0, <2>2, <2>4
<1>5. ChainVerifies'
  BY <1>1, <1>4 DEF ChainVerifies
<1>6. AnchorsNumbered'
  BY <1>1 DEF AnchorsNumbered
<1>7. LastLineBare'
  BY <1>0, <1>1, <1>3 DEF LastLineBare, AnchorsNumbered
<1> QED  BY <1>1, <1>3, <1>5, <1>6, <1>7 DEF Remembers

LEMMA AnchorAdded ==
    ASSUME TypeOK, ChainVerifies, AnchorsNumbered, LastLineBare, NEW p \in Procs,
           Remembers(p), AnchorHead(p)
    PROVE  ChainVerifies' /\ AnchorsNumbered' /\ Remembers(p)'
<1>1. /\ UNCHANGED <<ledger, head>> /\ anchors \in Seq([seq : Nat, head : Nat])
      /\ anchorSeq \in [Procs -> Nat] /\ ledger \in Seq([body : Entry, prev : Nat])
  BY DEF AnchorHead, TypeOK, LedgerTypeOK
<1>2. PICK n \in Nat, m \in Nat : n = Len(ledger) /\ m = Len(anchors)
  BY <1>1
<1>3. PICK line : line = [seq |-> anchorSeq[p], head |-> head[p]]
  OBVIOUS
<1>4. line.seq = m /\ line.head = n /\ line \in [seq : Nat, head : Nat]
  BY <1>2, <1>3 DEF Remembers
<1>5. anchors' = Append(anchors, line) /\ anchorSeq' = [anchorSeq EXCEPT ![p] = anchorSeq[p] + 1]
  BY <1>3 DEF AnchorHead
<1>6. PICK S : S = [seq : Nat, head : Nat]
  OBVIOUS
<1>7. anchors \in Seq(S) /\ line \in S
  BY <1>1, <1>4, <1>6
<1>8. /\ DOMAIN anchors = 1..m /\ DOMAIN anchors' = 1..(m + 1) /\ Len(anchors') = m + 1
      /\ anchors'[m + 1] = line /\ \A a \in 1..m : anchors'[a] = anchors[a]
  BY <1>2, <1>5, <1>7
<1>9. DOMAIN ledger = 1..n /\ n > 0 /\ \A a \in 1..m : anchors[a].head < n
  BY <1>1, <1>2, <1>8 DEF LastLineBare
<1>10. AnchorsNumbered'
  <2>1. ASSUME NEW a \in 1..(m + 1)
        PROVE  anchors'[a].seq = a - 1 /\ anchors'[a].head \in DOMAIN ledger'
    <3>1. CASE a = m + 1
      BY <1>1, <1>4, <1>8, <1>9, <3>1
    <3>2. CASE a # m + 1
      <4>1. a \in 1..m
        BY <3>2
      <4> QED  BY <1>1, <1>8, <4>1 DEF AnchorsNumbered
    <3> QED  BY <3>1, <3>2
  <2>2. ASSUME NEW a \in 1..(m + 1), NEW b \in 1..(m + 1), a < b
        PROVE  anchors'[a].head < anchors'[b].head
    <3>1. a \in 1..m
      BY <2>2
    <3>2. CASE b = m + 1
      BY <1>4, <1>8, <1>9, <3>1, <3>2
    <3>3. CASE b # m + 1
      <4>1. b \in 1..m
        BY <3>3
      <4> QED  BY <1>8, <2>2, <3>1, <4>1 DEF AnchorsNumbered
    <3> QED  BY <3>2, <3>3
  <2> QED  BY <1>8, <2>1, <2>2 DEF AnchorsNumbered
<1>11. ChainVerifies'
  BY <1>1 DEF ChainVerifies
<1>12. Remembers(p)'
  <2>1. anchorSeq'[p] = m + 1
    BY <1>1, <1>2, <1>5 DEF Remembers
  <2> QED  BY <1>1, <1>8, <2>1 DEF Remembers
<1> QED  BY <1>10, <1>11, <1>12

\* A step that leaves the two files alone, boots none and brings nobody to the anchor.
LEMMA ChainStays ==
    ASSUME ChainInv, UNCHANGED ledgerVars, AboutToAnchor' => AboutToAnchor,
           main.at = "down" => main'.at = "down", cli.at = "off" => cli'.at = "off"
    PROVE  ChainInv'
<1>1. UNCHANGED <<ledger, anchors, head, anchorSeq>>
  BY DEF ledgerVars
<1>2. ChainVerifies' /\ AnchorsNumbered'
  BY <1>1 DEF ChainInv, ChainVerifies, AnchorsNumbered
<1>3. LastLineBare => LastLineBare'
  BY <1>1 DEF LastLineBare
<1> QED  BY <1>1, <1>2, <1>3 DEF ChainInv, Remembers

\* An opened job is at the step it was at.
LEMMA OpenedJob ==
    ASSUME job \in [Samplers -> Job], NEW t \in Samplers, job' = [job EXCEPT ![t].open = TRUE]
    PROVE  \A u \in Samplers : job'[u].kind = job[u].kind /\ job'[u].step = job[u].step
<1>1. PICK o : o = [job[t] EXCEPT !.open = TRUE]
  OBVIOUS
<1>2. o.kind = job[t].kind /\ o.step = job[t].step
  BY <1>1, Opened
<1>3. job' = [job EXCEPT ![t] = o]
  BY <1>1
<1> QED  BY <1>2, <1>3

\* Only from the ledger does a sample get to the anchor.
LEMMA AdvancedFrom ==
    ASSUME TypeOK, NEW t \in Samplers, JobInv(t), Sampling(t), Advance(t), cli' = cli,
           ~(t = "capture" /\ job[t].step = 4)
    PROVE  AboutToAnchor' => AboutToAnchor
<1>1. "capture" \in Samplers /\ job[t].step \in 0..5
  BY DEF Samplers, TypeOK, Job
<1>2. CASE t # "capture"
  <2>1. phase'["capture"] = phase["capture"] /\ job'["capture"] = job["capture"]
    BY <1>1, <1>2, Advances
  <2> QED  BY <2>1 DEF AboutToAnchor, Sampling
<1>3. CASE t = "capture"
  <2>1. \/ phase'[t] = "loop"
        \/ job'[t] = At("sample", job[t].step + 1)
    BY Advances
  <2>2. \A k : At("sample", k).step = k
    BY JobsAt
  <2>3. Sampling("capture")' => job'["capture"].step # 5
    BY <1>1, <1>3, <2>1, <2>2 DEF Sampling
  <2> QED  BY <2>3 DEF AboutToAnchor
<1> QED  BY <1>2, <1>3

LEMMA SamplerChain ==
    ASSUME EvidenceInv, ChainInv, NEW t \in Samplers, Sampler(t)
    PROVE  ChainInv'
<1>1. /\ TypeOK /\ JobInv(t) /\ "capture" \in Samplers
      /\ phase \in [Samplers -> {"none", "loop", "job", "dead"}] /\ job \in [Samplers -> Job]
  BY DEF EvidenceInv, ThreadInv, Samplers, TypeOK
<1>2. UNCHANGED <<main, cli>>
  BY DEF Sampler, SampleDue, BeginPut, EndPut, JournalAppend, AppendToLedger, AnchorLedger,
         NotCanonical, Quit, SamplerFails
<1>3. CASE SampleDue(t)
  <2>1. UNCHANGED ledgerVars /\ job' = [job EXCEPT ![t] = At("sample", 1)]
        /\ phase' = [phase EXCEPT ![t] = "job"]
    BY <1>3 DEF SampleDue
  <2>2. job'[t].step = 1
    BY <1>1, <2>1, JobsAt
  <2>3. AboutToAnchor' => AboutToAnchor
    BY <1>1, <1>2, <2>1, <2>2 DEF AboutToAnchor, Sampling
  <2> QED  BY <1>2, <2>1, <2>3, ChainStays
<1>4. CASE \E s \in Stores : BeginPut(t, s)
  <2>1. UNCHANGED ledgerVars /\ phase' = phase /\ job' = [job EXCEPT ![t].open = TRUE]
    BY <1>4 DEF BeginPut
  <2>2. \A u \in Samplers : job'[u].kind = job[u].kind /\ job'[u].step = job[u].step
    BY <1>1, <2>1, OpenedJob
  <2>3. AboutToAnchor' => AboutToAnchor
    BY <1>1, <1>2, <2>1, <2>2 DEF AboutToAnchor, Sampling
  <2> QED  BY <1>2, <2>1, <2>3, ChainStays
<1>5. CASE (\E s \in Stores : EndPut(t, s)) \/ JournalAppend(t)
  <2>1. PICK sink \in Stores \cup {"journal"} :
          /\ Writing(t, sink) /\ Advance(t) /\ UNCHANGED ledgerVars
          /\ sink \in Stores \/ Canonical(job[t].kind)
    BY <1>5 DEF EndPut, JournalAppend
  <2>2. /\ Sampling(t) /\ job[t].step \in 1..Len(Plan(t, "sample"))
        /\ Plan(t, "sample")[job[t].step] = sink
    BY <1>1, <2>1, AtSink
  <2>3. sink # "ledger"
    BY DEF Stores
  <2>4. ~(t = "capture" /\ job[t].step = 4)
    BY <2>2, <2>3, Sinks
  <2>5. AboutToAnchor' => AboutToAnchor
    BY <1>1, <1>2, <2>1, <2>2, <2>4, AdvancedFrom
  <2> QED  BY <1>2, <2>1, <2>5, ChainStays
<1>6. CASE AppendToLedger(t)
  <2>1. /\ LedgerAppend(RunProc, Record(t)) /\ Writing(t, "ledger") /\ RunProc \in Procs
        /\ Canonical(job[t].kind)
    BY <1>6, EvidenceAssumption DEF AppendToLedger
  <2>2. Record(t) \in Entry /\ main.at # "down"
    BY <2>1, AtRecord DEF AppendToLedger
  <2>3. ChainVerifies' /\ AnchorsNumbered' /\ Remembers(RunProc)' /\ LastLineBare'
    BY <1>1, <2>1, <2>2, ChainGrows DEF ChainInv
  <2> QED  BY <1>2, <2>2, <2>3 DEF ChainInv
<1>7. CASE AnchorLedger(t)
  <2>1. /\ AnchorHead(RunProc) /\ Writing(t, "anchor") /\ RunProc \in Procs /\ Advance(t)
    BY <1>7, EvidenceAssumption DEF AnchorLedger
  <2>2. /\ Sampling(t) /\ job[t].step \in 1..Len(Plan(t, "sample")) /\ Live(t)
        /\ Plan(t, "sample")[job[t].step] = "anchor"
    BY <1>1, <2>1, AtSink
  <2>3. t = "capture" /\ job[t].step = 5 /\ Len(Plan(t, "sample")) = 5
    BY <2>2, Sinks
  <2>4. main.at # "down"
    BY <1>1, <2>2 DEF JobInv
  <2>5. phase'[t] = "loop"
    <3>1. job[t].step = Len(Plan(t, "sample")) /\ job[t].step \in Int
      BY <2>3
    <3>2. ~(job[t].step < Len(Plan(t, "sample")))
      BY <3>1
    <3> QED  BY <1>1, <2>1, <2>2, <3>2, Advances
  <2>6. ~AboutToAnchor'
    BY <1>2, <2>3, <2>4, <2>5 DEF AboutToAnchor, Sampling, ChainInv
  <2>7. ChainVerifies' /\ AnchorsNumbered' /\ Remembers(RunProc)'
    BY <1>1, <2>1, <2>2, <2>3, <2>4, AnchorAdded DEF ChainInv, AboutToAnchor
  <2> QED  BY <1>2, <2>4, <2>6, <2>7 DEF ChainInv
<1>8. CASE NotCanonical(t) \/ Quit(t) \/ SamplerFails(t)
  <2>1. UNCHANGED ledgerVars /\ ThreadEnds(t)
    BY <1>8 DEF NotCanonical, Quit, SamplerFails
  <2>2. phase'[t] = "dead" /\ \A u \in Samplers \ {t} : phase'[u] = phase[u] /\ job'[u] = job[u]
    BY <1>1, <2>1 DEF ThreadEnds
  <2>3. AboutToAnchor' => AboutToAnchor
    BY <1>1, <1>2, <2>2 DEF AboutToAnchor, Sampling
  <2> QED  BY <1>2, <2>1, <2>3, ChainStays
<1> QED  BY <1>3, <1>4, <1>5, <1>6, <1>7, <1>8 DEF Sampler

LEMMA MainChain ==
    ASSUME EvidenceInv, ChainInv, ~Overlap,
           DiskCritical \/ Boot \/ StartSampler \/ Interrupt \/ Stopping \/ Crash
    PROVE  ChainInv'
<1>1. /\ TypeOK /\ MainInv /\ "capture" \in Samplers
      /\ phase \in [Samplers -> {"none", "loop", "job", "dead"}] /\ job \in [Samplers -> Job]
  BY DEF EvidenceInv, Samplers, TypeOK
<1>2. CASE DiskCritical
  <2>1. /\ job' = [job EXCEPT !["capture"] = At("critical", 1)]
        /\ UNCHANGED <<main, cli, ledgerVars>>
    BY <1>2 DEF DiskCritical
  <2>2. job'["capture"].step = 1
    BY <1>1, <2>1, JobsAt
  <2> QED  BY <2>1, <2>2, ChainStays DEF AboutToAnchor, Sampling
<1>3. CASE Boot
  <2>1. /\ main.at = "down" /\ cli.at = "off" /\ main'.at = "starting"
        /\ OpenWriters(RunProc) /\ RunProc \in Procs
        /\ UNCHANGED <<phase, job, cli>>
    BY <1>3, EvidenceAssumption DEF Boot, threadVars
  <2>2. Remembers(RunProc)' /\ UNCHANGED <<ledger, anchors>>
    BY <1>1, <2>1 DEF OpenWriters, Remembers, TypeOK, LedgerTypeOK
  <2>3. ~AboutToAnchor'
    BY <1>1, <2>1 DEF AboutToAnchor, Sampling, MainInv
  <2>4. ChainVerifies' /\ AnchorsNumbered'
    BY <2>2 DEF ChainInv, ChainVerifies, AnchorsNumbered
  <2> QED  BY <2>1, <2>2, <2>3, <2>4 DEF ChainInv
<1>4. CASE StartSampler
  <2>1. PICK t \in Samplers :
          /\ main.at = "starting" /\ UNCHANGED <<job, cli, ledgerVars>>
          /\ phase' = [phase EXCEPT ![t] = "loop"]
    <3>1. main.next \in 1..3
      BY <1>1 DEF TypeOK
    <3>2. Order[main.next] \in Samplers
      BY <3>1 DEF Order, Samplers
    <3> QED  BY <1>4, <3>2 DEF StartSampler
  <2>2. AboutToAnchor' => AboutToAnchor
    BY <1>1, <2>1 DEF AboutToAnchor, Sampling
  <2> QED  BY <2>1, <2>2, ChainStays
<1>5. CASE Interrupt
  <2>1. main.at = "running" /\ UNCHANGED <<phase, job, cli, ledgerVars>>
    BY <1>5 DEF Interrupt, threadVars
  <2> QED  BY <2>1, ChainStays DEF AboutToAnchor, Sampling
<1>6. CASE SetStop
  <2>1. main.at = "stopping" /\ UNCHANGED <<phase, job, cli, ledgerVars>>
    BY <1>6 DEF SetStop
  <2> QED  BY <2>1, ChainStays DEF AboutToAnchor, Sampling
<1>7. CASE Joined \/ Crash
  <2>1. /\ main.at # "down" /\ UNCHANGED <<cli, ledgerVars>>
        /\ Gone \/ UNCHANGED <<phase, job>>
    BY <1>7 DEF Joined, Crash, threadVars
  <2>2. Gone => phase'["capture"] = "none"
    BY <1>1 DEF Gone
  <2>3. AboutToAnchor' => AboutToAnchor
    BY <2>1, <2>2 DEF AboutToAnchor, Sampling
  <2> QED  BY <2>1, <2>3, ChainStays
<1> QED  BY <1>2, <1>3, <1>4, <1>5, <1>6, <1>7 DEF Stopping

LEMMA CliChain ==
    ASSUME EvidenceInv, ChainInv, ~Overlap, Rotation
    PROVE  ChainInv'
<1>1. /\ TypeOK /\ MainInv /\ CliProc \in Procs
      /\ UNCHANGED <<main, phase, job>>
  BY EvidenceAssumption DEF EvidenceInv, Rotation, CliBoot, CliList, CliGet, CliFails, CliTear, CliPut,
         CliRecord, CliAnchor, CliCrash, threadVars
<1>2. main.at = "down" => ~Sampling("capture") /\ ~Sampling("capture")'
  BY <1>1 DEF MainInv, Samplers, Sampling
<1>3. CASE CliBoot
  <2>1. /\ main.at = "down" /\ cli.at = "off" /\ OpenWriters(CliProc)
    BY <1>3 DEF CliBoot
  <2>2. Remembers(CliProc)' /\ UNCHANGED <<ledger, anchors>>
    BY <1>1, <2>1 DEF OpenWriters, Remembers, TypeOK, LedgerTypeOK
  <2>3. cli'.at = "open"
    BY <1>3, CliBootInv
  <2>4. ChainVerifies' /\ AnchorsNumbered'
    BY <2>2 DEF ChainInv, ChainVerifies, AnchorsNumbered
  <2> QED  BY <1>1, <1>2, <2>1, <2>2, <2>3, <2>4 DEF ChainInv, AboutToAnchor
<1>4. CASE CliRecord
  <2>2. cli.at # "off" /\ cli'.at = "recorded"
    BY <1>4, CliRecordInv
  <2>3. PICK e \in Entry : LedgerAppend(CliProc, e)
    BY <1>4, CliRecordInv
  <2>4. ChainVerifies' /\ AnchorsNumbered' /\ Remembers(CliProc)' /\ LastLineBare'
    BY <1>1, <2>2, <2>3, ChainGrows DEF ChainInv
  <2> QED  BY <1>1, <2>2, <2>4 DEF ChainInv
<1>5. CASE CliAnchor
  <2>1. cli.at = "recorded" /\ AnchorHead(CliProc) /\ cli' = NoCli
    BY <1>5 DEF CliAnchor
  <2>2. ChainVerifies' /\ AnchorsNumbered'
    BY <1>1, <2>1, AnchorAdded DEF ChainInv, AboutToAnchor
  <2>3. cli'.at = "off" /\ main.at = "down"
    BY <2>1, CliNone DEF ChainInv
  <2> QED  BY <1>1, <1>2, <2>2, <2>3 DEF ChainInv, AboutToAnchor
<1>6. CASE (\E s \in Stores : CliList(s)) \/ CliGet \/ CliFails \/ CliTear \/ CliPut \/ CliCrash
  <2>1. UNCHANGED ledgerVars
    BY <1>6 DEF CliList, CliGet, CliFails, CliTear, CliPut, CliCrash
  <2>2. cli.at # "off" /\ (cli'.at = "off" \/ cli'.at \in Stores)
    BY <1>6, CliNone, CliListInv, CliGetInv, CliTearInv, CliPutInv DEF CliFails, CliCrash, Stores
  <2>3. AboutToAnchor' => AboutToAnchor
    BY <1>1, <2>2 DEF AboutToAnchor, Sampling, Stores
  <2> QED  BY <1>1, <2>1, <2>2, <2>3, ChainStays
<1> QED  BY <1>3, <1>4, <1>5, <1>6 DEF Rotation

LEMMA ChainKept ==
    ASSUME ~Overlap
    PROVE  Spec => []ChainInv
<1>1. Init => ChainInv
  BY CliNone DEF Init, LedgerInit, ChainInv, ChainVerifies, AnchorsNumbered, AboutToAnchor, Sampling,
         Samplers
<1>2. ASSUME EvidenceInv, ChainInv, [Next]_vars PROVE ChainInv'
  <2>1. CASE UNCHANGED vars
    <3>1. UNCHANGED <<main, cli, phase, job, ledgerVars>>
      BY <2>1 DEF vars, threadVars
    <3> QED  BY <1>2, <3>1, ChainStays DEF AboutToAnchor, Sampling
  <2> QED  BY <1>2, <2>1, SamplerChain, MainChain, CliChain DEF Next
<1> QED  BY <1>1, <1>2, EvidenceKept, PTL DEF Spec

\* While no two processes are alive at once, the lines of the samplers and those
\* of the rotations chain without a break over any number of boots, whatever
\* dies in between (ledger_basic).
THEOREM ChainAcrossRuns ==
    ASSUME ~Overlap
    PROVE  Spec => []ChainVerifies
<1>1. ChainInv => ChainVerifies
  BY DEF ChainInv
<1> QED  BY <1>1, ChainKept, PTL

\* So do the numbers of the anchors, and the lines they record are in order
\* (anchor_basic).
THEOREM AnchorsAcrossRuns ==
    ASSUME ~Overlap
    PROVE  Spec => []AnchorsNumbered
<1>1. ChainInv => AnchorsNumbered
  BY DEF ChainInv
<1> QED  BY <1>1, ChainKept, PTL

----------------------------------------------------------------------------
(* The lines of the ledger's file, when appends may tear them (LedgerLines). *)

EntryAt(l) == lines[l][1]

TextTyped ==
    /\ lines \in Seq(Seq(Nat) \ {<< >>}) /\ ended \in BOOLEAN
    /\ prev \in Seq(Nat)
    /\ ended \/ lines # << >>

WriterTyped ==
    /\ writer.up \in BOOLEAN /\ writer.last \in Nat
    /\ writer = [up |-> writer.up, last |-> writer.last]

\* What can be read was made, and in the order of the lines.
ReadInOrder ==
    /\ \A l \in DOMAIN lines : Parses(l) => EntryAt(l) \in 1..Len(prev)
    /\ \A l, k \in DOMAIN lines :
         Parses(l) /\ Parses(k) /\ l < k => EntryAt(l) < EntryAt(k)

\* A process that is up is behind no line that can be read, but for a last one
\* that lacks its newline and will not survive the next append.
KnowsTheEnd ==
    writer.up =>
        /\ writer.last <= Len(prev)
        /\ \A l \in DOMAIN lines :
             Parses(l) => EntryAt(l) <= writer.last \/ (l = Len(lines) /\ ~ended)
        /\ \A l \in DOMAIN lines :
             Parses(l) /\ l = Len(lines) /\ ended => EntryAt(l) = writer.last

FileInv == TextTyped /\ WriterTyped /\ ReadInOrder /\ GapsButNoForks /\ KnowsTheEnd

LEMMA LineWritten ==
    ASSUME TextTyped, NEW piece \in Nat, lines' = Written(piece)
    PROVE  /\ lines' \in Seq(Seq(Nat) \ {<< >>}) /\ lines' # << >>
           /\ ended => /\ Len(lines') = Len(lines) + 1
                       /\ lines'[Len(lines) + 1] = <<piece>>
                       /\ \A l \in DOMAIN lines : lines'[l] = lines[l]
           /\ ~ended => /\ Len(lines') = Len(lines) /\ Len(lines) > 0
                        /\ Len(lines'[Len(lines)]) > 1
                        /\ \A l \in DOMAIN lines : l < Len(lines) => lines'[l] = lines[l]
<1> DEFINE Line == Seq(Nat) \ {<< >>}
<1>1. lines \in Seq(Line) /\ ended \in BOOLEAN /\ (ended \/ lines # << >>)
  BY DEF TextTyped
<1>2. <<piece>> \in Line
  OBVIOUS
<1>3. CASE ended
  <2>1. lines' = Append(lines, <<piece>>)
    BY <1>3 DEF Written
  <2> HIDE DEF Line
  <2>2. lines' \in Seq(Line) /\ Len(lines') = Len(lines) + 1
        /\ lines'[Len(lines) + 1] = <<piece>>
        /\ \A l \in DOMAIN lines : lines'[l] = lines[l]
    BY <1>1, <1>2, <2>1
  <2>3. lines' # << >>
    BY <1>1, <2>2
  <2> QED BY <1>3, <2>2, <2>3 DEF Line
<1>4. CASE ~ended
  <2> DEFINE more == Append(lines[Len(lines)], piece)
  <2>1. lines' = [lines EXCEPT ![Len(lines)] = more]
    BY <1>4 DEF Written
  <2>2. Len(lines) \in Nat /\ Len(lines) > 0 /\ Len(lines) \in DOMAIN lines
    BY <1>1, <1>4
  <2>3. lines[Len(lines)] \in Line
    BY <1>1, <2>2
  <2>4. more \in Line /\ Len(more) > 1
    BY <2>3
  <2> HIDE DEF more, Line
  <2>5. lines' \in Seq(Line) /\ Len(lines') = Len(lines)
        /\ lines'[Len(lines)] = more
        /\ \A l \in DOMAIN lines : l < Len(lines) => lines'[l] = lines[l]
    BY <1>1, <2>1, <2>2, <2>4
  <2>6. lines' # << >>
    BY <1>1, <2>2, <2>5
  <2> QED BY <1>4, <2>2, <2>4, <2>5, <2>6 DEF Line
<1> QED BY <1>1, <1>3, <1>4

\* An append adds at most one line that can be read, and takes away at most the
\* one it goes on.
LEMMA ReadAfterwards ==
    ASSUME TextTyped, NEW piece \in {Fragment, Len(prev) + 1}, lines' = Written(piece)
    PROVE  \A l \in DOMAIN lines' : Parses(l)' =>
             \/ /\ l \in DOMAIN lines /\ Parses(l) /\ EntryAt(l)' = EntryAt(l)
                /\ ended \/ l < Len(lines)
             \/ ended /\ l = Len(lines) + 1 /\ EntryAt(l)' = Len(prev) + 1
<1>1. piece \in Nat /\ ended \in BOOLEAN /\ lines \in Seq(Seq(Nat) \ {<< >>})
  BY DEF TextTyped, Fragment
<1>2. lines' \in Seq(Seq(Nat) \ {<< >>})
      /\ (ended => /\ Len(lines') = Len(lines) + 1
                   /\ lines'[Len(lines) + 1] = <<piece>>
                   /\ \A l \in DOMAIN lines : lines'[l] = lines[l])
      /\ (~ended => /\ Len(lines') = Len(lines) /\ Len(lines) > 0
                    /\ Len(lines'[Len(lines)]) > 1
                    /\ \A l \in DOMAIN lines : l < Len(lines) => lines'[l] = lines[l])
  BY <1>1, LineWritten
<1> PICK n : n = Len(lines)
  OBVIOUS
<1>3. n \in Nat /\ DOMAIN lines = 1..n
  BY <1>1
<1> SUFFICES ASSUME NEW l \in DOMAIN lines', Parses(l)'
             PROVE  \/ /\ l \in DOMAIN lines /\ Parses(l) /\ EntryAt(l)' = EntryAt(l)
                       /\ ended \/ l < Len(lines)
                    \/ ended /\ l = Len(lines) + 1 /\ EntryAt(l)' = Len(prev) + 1
  OBVIOUS
<1>4. Len(lines'[l]) = 1 /\ lines'[l][1] # Fragment
  BY DEF Parses
<1>5. CASE ended /\ l = n + 1
  <2>1. lines'[l] = <<piece>>
    BY <1>2, <1>5
  <2>2. piece = Len(prev) + 1
    BY <1>4, <2>1
  <2> QED BY <1>5, <2>1, <2>2 DEF EntryAt
<1>6. CASE ~(ended /\ l = n + 1)
  <2> PICK S : S = Seq(Nat) \ {<< >>}
    OBVIOUS
  <2>3. lines' \in Seq(S)
    BY <1>2
  <2>4. l \in 1..Len(lines')
    BY <2>3
  <2>5. ended => l \in 1..n
    BY <1>2, <1>3, <1>6, <2>4
  <2>6. ~ended => l \in 1..n /\ l # n
    <3> SUFFICES ASSUME ~ended PROVE l \in 1..n /\ l # n
      OBVIOUS
    <3>1. Len(lines') = n /\ Len(lines'[n]) > 1
      BY <1>2
    <3>2. l # n
      <4> SUFFICES ASSUME l = n PROVE FALSE
        OBVIOUS
      <4>1. Len(lines'[n]) = 1
        BY <1>4
      <4> QED BY <3>1, <4>1
    <3> QED BY <2>4, <3>1, <3>2
  <2>1. l \in 1..n /\ (ended \/ l < n)
    BY <1>3, <2>5, <2>6
  <2>2. lines'[l] = lines[l]
    BY <1>2, <1>3, <2>1
  <2> QED BY <1>3, <1>4, <2>1, <2>2 DEF Parses, EntryAt
<1> QED BY <1>5, <1>6

\* Whatever is written of an entry that is chained to what the process remembers,
\* what can be read is a chain with gaps.
LEMMA WrittenInOrder ==
    ASSUME FileInv, writer.up, MakeEntry,
           NEW piece \in {Fragment, Len(prev) + 1}, lines' = Written(piece),
           ended' \in BOOLEAN
    PROVE  TextTyped' /\ ReadInOrder' /\ GapsButNoForks'
<1> PICK n : n = Len(prev)
  OBVIOUS
<1>1. prev \in Seq(Nat) /\ n \in Nat /\ writer.last \in Nat /\ writer.last <= n
      /\ DOMAIN prev = 1..n
  BY DEF FileInv, TextTyped, WriterTyped, KnowsTheEnd
<1>2. prev' = Append(prev, writer.last)
  BY DEF MakeEntry
<1>3. prev' \in Seq(Nat) /\ Len(prev') = n + 1 /\ prev'[n + 1] = writer.last
      /\ \A m \in 1..n : prev'[m] = prev[m]
  BY <1>1, <1>2
<1>4. TextTyped'
  <2>1. piece \in Nat
    BY <1>1 DEF Fragment
  <2>2. lines' \in Seq(Seq(Nat) \ {<< >>}) /\ lines' # << >>
    BY <2>1, LineWritten DEF FileInv
  <2> QED BY <1>3, <2>2 DEF TextTyped
<1> PICK end : end = Len(lines)
  OBVIOUS
<1>5. end \in Nat /\ DOMAIN lines = 1..end /\ DOMAIN lines' \subseteq Nat
  <2> PICK S : S = Seq(Nat) \ {<< >>}
    OBVIOUS
  <2>1. lines \in Seq(S) /\ lines' \in Seq(S)
    BY <1>4 DEF FileInv, TextTyped
  <2> QED BY <2>1
<1>6. ASSUME NEW l \in DOMAIN lines', Parses(l)'
      PROVE  \/ /\ l \in DOMAIN lines /\ Parses(l) /\ EntryAt(l)' = EntryAt(l)
                /\ ended \/ l < end
                /\ EntryAt(l) \in 1..n /\ EntryAt(l) <= writer.last
             \/ ended /\ l = end + 1 /\ EntryAt(l)' = n + 1
  <2>1. \/ /\ l \in DOMAIN lines /\ Parses(l) /\ EntryAt(l)' = EntryAt(l)
           /\ ended \/ l < end
        \/ ended /\ l = end + 1 /\ EntryAt(l)' = n + 1
    BY <1>6, ReadAfterwards DEF FileInv
  <2>2. ASSUME l \in DOMAIN lines, Parses(l), ended \/ l < end
        PROVE  EntryAt(l) \in 1..n /\ EntryAt(l) <= writer.last
    BY <1>5, <2>2 DEF FileInv, ReadInOrder, KnowsTheEnd
  <2> QED BY <2>1, <2>2
<1>7. ReadInOrder'
  <2>1. ASSUME NEW l \in DOMAIN lines', Parses(l)' PROVE EntryAt(l)' \in 1..Len(prev)'
    BY <1>1, <1>3, <1>6, <2>1
  <2>2. ASSUME NEW l \in DOMAIN lines', NEW k \in DOMAIN lines',
               Parses(l)', Parses(k)', l < k
        PROVE  EntryAt(l)' < EntryAt(k)'
    <3>1. l \in DOMAIN lines /\ Parses(l) /\ EntryAt(l)' = EntryAt(l) /\ EntryAt(l) \in 1..n
      BY <1>5, <1>6, <2>2
    <3>2. CASE k \in DOMAIN lines /\ Parses(k) /\ EntryAt(k)' = EntryAt(k)
      BY <2>2, <3>1, <3>2 DEF FileInv, ReadInOrder
    <3>3. CASE EntryAt(k)' = n + 1
      BY <1>1, <3>1, <3>3
    <3> QED BY <1>6, <2>2, <3>2, <3>3
  <2> QED BY <2>1, <2>2 DEF ReadInOrder
<1>8. GapsButNoForks'
  <2>1. ASSUME NEW l \in DOMAIN lines', NEW k \in DOMAIN lines',
               Parses(l)', Parses(k)', l < k
        PROVE  /\ EntryAt(l)' <= prev'[EntryAt(k)'] /\ prev'[EntryAt(k)'] < EntryAt(k)'
               /\ k = l + 1 => prev'[EntryAt(k)'] = EntryAt(l)'
    <3>1. l \in DOMAIN lines /\ Parses(l) /\ EntryAt(l)' = EntryAt(l)
          /\ EntryAt(l) \in 1..n /\ EntryAt(l) <= writer.last
      BY <1>5, <1>6, <2>1
    <3>2. CASE k \in DOMAIN lines /\ Parses(k) /\ EntryAt(k)' = EntryAt(k) /\ EntryAt(k) \in 1..n
      <4>1. /\ EntryAt(l) <= prev[EntryAt(k)] /\ prev[EntryAt(k)] < EntryAt(k)
            /\ k = l + 1 => prev[EntryAt(k)] = EntryAt(l)
        BY <2>1, <3>1, <3>2 DEF FileInv, GapsButNoForks, EntryAt
      <4> QED BY <1>3, <3>1, <3>2, <4>1
    <3>3. CASE ended /\ k = end + 1 /\ EntryAt(k)' = n + 1
      <4>1. k = l + 1 => EntryAt(l) = writer.last
        BY <1>5, <3>1, <3>3 DEF FileInv, KnowsTheEnd
      <4> QED BY <1>1, <1>3, <3>1, <3>3, <4>1
    <3> QED BY <1>6, <2>1, <3>2, <3>3
  <2> QED BY <2>1 DEF GapsButNoForks, EntryAt
<1> QED BY <1>4, <1>7, <1>8

LEMMA LinesInitially == LinesInit => FileInv
BY DEF LinesInit, FileInv, TextTyped, WriterTyped, ReadInOrder, GapsButNoForks,
       KnowsTheEnd, NoEntry

LEMMA OpenKeeps == ASSUME FileInv, OpenLedger PROVE FileInv'
<1>1. lines' = lines /\ ended' = ended /\ prev' = prev
  BY DEF OpenLedger
<1>2. TextTyped' /\ ReadInOrder' /\ GapsButNoForks'
  BY <1>1 DEF FileInv, TextTyped, ReadInOrder, GapsButNoForks, Parses, EntryAt
<1>3. CASE (\A l \in DOMAIN lines : ~Parses(l)) /\ writer' = [up |-> TRUE, last |-> NoEntry]
  <2>1. writer'.last = 0 /\ writer'.up \in BOOLEAN
        /\ writer' = [up |-> writer'.up, last |-> writer'.last]
    BY <1>3, Zenon DEF NoEntry
  <2>2. WriterTyped'
    BY <2>1 DEF WriterTyped
  <2>3. \A l \in DOMAIN lines' : ~Parses(l)'
    BY <1>1, <1>3 DEF Parses
  <2>4. KnowsTheEnd'
    BY <1>2, <2>1, <2>3 DEF KnowsTheEnd, TextTyped
  <2> QED BY <1>2, <2>2, <2>4 DEF FileInv
<1>4. ASSUME NEW at \in DOMAIN lines, Parses(at), LastParsed(at),
             writer' = [up |-> TRUE, last |-> lines[at][1]]
      PROVE  FileInv'
  <2>1. writer'.last = EntryAt(at) /\ writer'.up \in BOOLEAN
        /\ writer' = [up |-> writer'.up, last |-> writer'.last]
    BY <1>4, Zenon DEF EntryAt
  <2>2. EntryAt(at) \in 1..Len(prev) /\ Len(prev) \in Nat /\ Len(lines) \in Nat
        /\ DOMAIN lines = 1..Len(lines)
    BY <1>4 DEF FileInv, ReadInOrder, TextTyped
  <2>3. WriterTyped'
    BY <2>1, <2>2 DEF WriterTyped
  <2>4. ASSUME NEW l \in DOMAIN lines, Parses(l)
        PROVE  EntryAt(l) <= EntryAt(at) /\ (l = Len(lines) => l = at)
    <3>1. l <= at
      BY <1>4, <2>4 DEF LastParsed
    <3>2. EntryAt(l) \in 1..Len(prev)
      BY <2>4 DEF FileInv, ReadInOrder
    <3>3. l < at => EntryAt(l) < EntryAt(at)
      BY <1>4, <2>4 DEF FileInv, ReadInOrder
    <3> QED BY <2>2, <3>1, <3>2, <3>3
  <2>5. KnowsTheEnd'
    BY <1>1, <2>1, <2>2, <2>4 DEF KnowsTheEnd, EntryAt, Parses
  <2> QED BY <1>2, <2>3, <2>5 DEF FileInv
<1> QED BY <1>3, <1>4 DEF OpenLedger

LEMMA AppendKeeps == ASSUME FileInv, AppendLine PROVE FileInv'
<1>1. writer.up /\ MakeEntry /\ lines' = Written(Len(prev) + 1) /\ ended' = TRUE
  BY DEF AppendLine
<1>2. TextTyped' /\ ReadInOrder' /\ GapsButNoForks'
  BY <1>1, WrittenInOrder
<1> PICK n : n = Len(prev)
  OBVIOUS
<1>3. n \in Nat /\ Len(prev') = n + 1
  BY <1>1 DEF FileInv, TextTyped, WriterTyped, MakeEntry
<1>4. writer' = [up |-> writer.up, last |-> n + 1]
  <2>1. writer = [up |-> writer.up, last |-> writer.last]
        /\ writer' = [writer EXCEPT !.last = n + 1]
    BY DEF FileInv, WriterTyped, AppendLine
  <2> QED BY <2>1, Zenon
<1>5. writer'.up = writer.up /\ writer'.last = n + 1
      /\ writer' = [up |-> writer'.up, last |-> writer'.last]
  BY <1>4, Zenon
<1>6. WriterTyped'
  BY <1>3, <1>5 DEF WriterTyped, FileInv
<1>7. ASSUME NEW l \in DOMAIN lines', Parses(l)'
      PROVE  EntryAt(l)' \in 1..(n + 1)
             /\ (EntryAt(l)' = n + 1 \/ (l \in DOMAIN lines /\ (ended \/ l < Len(lines))))
  <2>1. EntryAt(l)' \in 1..(n + 1)
    BY <1>2, <1>3, <1>7 DEF ReadInOrder
  <2> QED BY <1>1, <1>7, <2>1, ReadAfterwards DEF FileInv
<1>8. ended => Len(lines') = Len(lines) + 1
  BY <1>1, <1>3, LineWritten DEF FileInv
<1>9. ~ended => Len(lines') = Len(lines)
  BY <1>1, <1>3, LineWritten DEF FileInv
<1>10. Len(lines) \in Nat /\ DOMAIN lines = 1..Len(lines) /\ ended \in BOOLEAN
  BY DEF FileInv, TextTyped
<1>11. KnowsTheEnd'
  <2>1. ASSUME NEW l \in DOMAIN lines', Parses(l)', l = Len(lines')
        PROVE  EntryAt(l)' = n + 1
    BY <1>7, <1>8, <1>9, <1>10, <2>1
  <2> QED BY <1>1, <1>3, <1>5, <1>7, <2>1 DEF KnowsTheEnd
<1> QED BY <1>2, <1>6, <1>11 DEF FileInv

LEMMA TearKeeps == ASSUME FileInv, TearLine PROVE FileInv'
<1>1. writer.up /\ MakeEntry /\ ended' = FALSE
  BY DEF TearLine
<1>2. PICK piece \in {Fragment, Len(prev) + 1} : lines' = Written(piece)
  BY DEF TearLine
<1>3. TextTyped' /\ ReadInOrder' /\ GapsButNoForks'
  BY <1>1, <1>2, WrittenInOrder
<1> PICK n : n = Len(prev)
  OBVIOUS
<1>4. n \in Nat /\ Len(prev') = n + 1 /\ writer.last \in Nat /\ writer.last <= n
  BY <1>1 DEF FileInv, TextTyped, WriterTyped, MakeEntry, KnowsTheEnd
<1>5. writer'.up \in BOOLEAN /\ writer'.last = writer.last
      /\ writer' = [up |-> writer'.up, last |-> writer'.last]
  <2>1. writer = [up |-> writer.up, last |-> writer.last]
    BY DEF FileInv, WriterTyped
  <2>2. PICK up \in BOOLEAN : writer' = [writer EXCEPT !.up = up]
    BY DEF TearLine
  <2>3. writer' = [up |-> up, last |-> writer.last]
    BY <2>1, <2>2, Zenon
  <2> QED BY <2>3, Zenon
<1>6. WriterTyped'
  BY <1>4, <1>5 DEF WriterTyped
<1>7. Len(lines) \in Nat /\ DOMAIN lines = 1..Len(lines) /\ ended \in BOOLEAN
  BY DEF FileInv, TextTyped
<1>8. ended => Len(lines') = Len(lines) + 1
  BY <1>2, <1>4, LineWritten DEF FileInv, Fragment
<1>9. ASSUME NEW l \in DOMAIN lines', Parses(l)'
      PROVE  EntryAt(l)' <= writer.last \/ l = Len(lines')
  <2>1. \/ /\ l \in DOMAIN lines /\ Parses(l) /\ EntryAt(l)' = EntryAt(l)
           /\ ended \/ l < Len(lines)
        \/ ended /\ l = Len(lines) + 1
    BY <1>2, <1>9, ReadAfterwards DEF FileInv
  <2>2. ASSUME l \in DOMAIN lines, Parses(l), ended \/ l < Len(lines)
        PROVE  EntryAt(l) <= writer.last
    BY <1>1, <1>7, <2>2 DEF FileInv, KnowsTheEnd
  <2> QED BY <1>8, <2>1, <2>2
<1>10. KnowsTheEnd'
  BY <1>1, <1>4, <1>5, <1>9 DEF KnowsTheEnd
<1> QED BY <1>3, <1>6, <1>10 DEF FileInv

LEMMA CloseKeeps == ASSUME FileInv, CloseLedger PROVE FileInv'
<1>1. lines' = lines /\ ended' = ended /\ prev' = prev
      /\ writer' = [up |-> FALSE, last |-> NoEntry]
  BY DEF CloseLedger
<1>2. TextTyped' /\ ReadInOrder' /\ GapsButNoForks'
  BY <1>1 DEF FileInv, TextTyped, ReadInOrder, GapsButNoForks, Parses, EntryAt
<1>3. ~writer'.up /\ writer'.up \in BOOLEAN /\ writer'.last = 0
      /\ writer' = [up |-> writer'.up, last |-> writer'.last]
  BY <1>1, Zenon DEF NoEntry
<1> QED BY <1>2, <1>3 DEF FileInv, WriterTyped, KnowsTheEnd

\* What can be read of ledger.ndjson is a chain with gaps and never a fork, however
\* many lines are torn in how many runs (GapsButNoForks; LedgerWriter of
\* plugins/builtin/ledger_basic).
THEOREM GapsNeverFork == LinesSpec => []GapsButNoForks
<1>1. FileInv /\ [LinesNext]_lineVars => FileInv'
  <2> SUFFICES ASSUME FileInv, [LinesNext]_lineVars PROVE FileInv'
    OBVIOUS
  <2>1. CASE UNCHANGED lineVars
    BY <2>1 DEF lineVars, FileInv, TextTyped, WriterTyped, ReadInOrder,
                GapsButNoForks, KnowsTheEnd, Parses, EntryAt
  <2> QED BY <2>1, OpenKeeps, AppendKeeps, TearKeeps, CloseKeeps DEF LinesNext
<1>2. FileInv => GapsButNoForks
  BY DEF FileInv
<1> QED BY LinesInitially, <1>1, <1>2, PTL DEF LinesSpec

=============================================================================
