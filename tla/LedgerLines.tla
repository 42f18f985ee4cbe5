---------------------------- MODULE LedgerLines ----------------------------
(***************************************************************************)
(* What LedgerFile calls a line, looked into: ledger.ndjson as text, when  *)
(* an append may get only a part of its line onto the disk                 *)
(* (plugins/builtin/ledger_basic).  A full disk does that, with an OSError *)
(* for the caller; so does a crash.  One writer at a time.  An append that *)
(* gets nothing onto the disk changes nothing and is left out.             *)
(*                                                                         *)
(* A line is the sequence of the pieces that were written to it: entries,  *)
(* by number, and fragments of entries.  As in LedgerFile the hash of an   *)
(* entry is its number; entries are numbered in the order they are made.   *)
(***************************************************************************)
EXTENDS Naturals, Sequences

CONSTANT MaxEntries    \* BOUND on the entries made

ASSUME LinesAssumption == MaxEntries \in Nat

VARIABLES
    lines,             \* the text of the file
    ended,             \* it ends with a newline, or is empty
    prev,              \* prev_hash of each entry made, by number
    returned,          \* entries whose append has returned
    writer             \* [up, last]: _last_hash of the process that is up

lineVars == <<lines, ended, prev, returned, writer>>

NoEntry == 0           \* None
Fragment == 0          \* a piece that is no whole entry

LinesInit ==
    /\ lines = << >> /\ ended = TRUE
    /\ prev = << >> /\ returned = {}
    /\ writer = [up |-> FALSE, last |-> NoEntry]

\* Line l parses: it is one whole entry, with its newline or at the end without.
\* json.loads refuses a part of an object, and more than one.
Parses(l) == Len(lines[l]) = 1 /\ lines[l][1] # Fragment

\* Mutation of LastParsed: the first line that parses.
FirstParsed(l) == \A k \in DOMAIN lines : Parses(k) => l <= k

\* Each line that parses replaces the hash of the one before it.
LastParsed(l) == \A k \in DOMAIN lines : Parses(k) => k <= l

\* The constructor.
OpenLedger ==
    /\ ~writer.up
    /\ \/ /\ \A l \in DOMAIN lines : ~Parses(l)
          /\ writer' = [up |-> TRUE, last |-> NoEntry]
       \/ \E l \in DOMAIN lines :
            /\ Parses(l) /\ LastParsed(l)
            /\ writer' = [up |-> TRUE, last |-> lines[l][1]]
    /\ UNCHANGED <<lines, ended, prev, returned>>

\* open(path, "a") and write: what there is of an entry goes behind the last
\* line, and onto it if that has no newline.
Written(piece) ==
    IF ended THEN Append(lines, <<piece>>)
    ELSE [lines EXCEPT ![Len(lines)] = Append(@, piece)]

\* append() chains the entry to the hash it remembers, ...
MakeEntry ==
    /\ Len(prev) < MaxEntries
    /\ prev' = Append(prev, writer.last)

\* ... and remembers the hash of the new one once the line is written,
AppendLine ==
    /\ writer.up /\ MakeEntry
    /\ lines' = Written(Len(prev) + 1) /\ ended' = TRUE
    /\ writer' = [writer EXCEPT !.last = Len(prev) + 1]
    /\ returned' = returned \cup {Len(prev) + 1}

\* but not if only a fragment of it is, or all but the newline.  Whoever called
\* may go on, or may not.
TearLine ==
    /\ writer.up /\ MakeEntry
    /\ \E piece \in {Fragment, Len(prev) + 1} : lines' = Written(piece)
    /\ ended' = FALSE
    /\ \E up \in BOOLEAN : writer' = [writer EXCEPT !.up = up]
    /\ UNCHANGED returned

CloseLedger ==
    /\ writer.up
    /\ writer' = [up |-> FALSE, last |-> NoEntry]
    /\ UNCHANGED <<lines, ended, prev, returned>>

LinesNext == OpenLedger \/ AppendLine \/ TearLine \/ CloseLedger

LinesSpec == LinesInit /\ [][LinesNext]_lineVars

----------------------------------------------------------------------------
(* Properties.                                                             *)

\* What can be read is a chain with gaps, and never a fork, however often lines
\* are torn in how many runs: a line that parses right behind one that parses is
\* chained to it, and no two lines that parse are chained to the same entry,
\* because each is chained to the one that parses before it or to a later one
\* that was lost with a torn line (LedgerWriter's constructor goes back to what it
\* can read).
GapsButNoForks ==
    \A l, k \in DOMAIN lines :
        Parses(l) /\ Parses(k) /\ l < k =>
            LET from == prev[lines[k][1]]
            IN /\ lines[l][1] <= from /\ from < lines[k][1]
               /\ k = l + 1 => from = lines[l][1]

\* "All significant actions affecting evidence, processing, retrieval, and egress
\* are recorded in an append-only ledger" (docs/
\* autocapture_nx_blueprint_final.md:63): an entry whose append returned can be
\* read.
ReturnedIsReadable ==
    \A entry \in returned : \E l \in DOMAIN lines : Parses(l) /\ lines[l][1] = entry

============================================================================
