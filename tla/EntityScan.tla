----------------------------- MODULE EntityScan -----------------------------
(***************************************************************************)
(* How the egress sanitizer cuts one text into entities and the rest       *)
(* (plugins/builtin/egress_sanitizer: _find_entities and the loop of       *)
(* sanitize_text).                                                         *)
(*                                                                         *)
(* A text is a number of characters.  What the recognisers' patterns match *)
(* in it is given: any set of intervals, overlapping or not, each of the   *)
(* kind of its recogniser.  A pattern does not match the empty string.     *)
(***************************************************************************)
EXTENDS Integers, Sequences

CONSTANTS Kinds,       \* names of the recognisers
          Rank         \* their alphabetical order, which breaks ties

ASSUME ScanAssumption == Rank \in [Kinds -> Nat]

VARIABLES
    size,              \* length of the text
    found,             \* all matches of the text
    pending,           \* those the selection has not come to
    selected,          \* the list `selected`, later `entities`
    lastEnd,           \* last_end
    done,              \* how many of `selected` sanitize_text has replaced
    cursor,            \* cursor
    pieces             \* the list `output`: [from, to, raw]

scanVars == <<size, found, pending, selected, lastEnd, done, cursor, pieces>>

Match == {m \in [start : Nat, end : Nat, kind : Kinds] : m.start < m.end}
Piece == [from : Nat, to : Nat, raw : BOOLEAN]

ScanTypeOK ==
    /\ size \in Nat
    /\ found \in SUBSET Match
    /\ pending \in SUBSET found
    /\ selected \in Seq(found)
    /\ lastEnd \in Int
    /\ done \in 0..Len(selected)
    /\ cursor \in Nat
    /\ pieces \in Seq(Piece)

\* A text of n characters in which the recognisers match the set ms.
StartWith(n, ms) ==
    /\ size = n /\ found = ms /\ pending = ms
    /\ selected = << >> /\ lastEnd = -1
    /\ done = 0 /\ cursor = 0 /\ pieces = << >>

\* The same as a step: the locals of a new call.
Begin(n, ms) ==
    /\ size' = n /\ found' = ms /\ pending' = ms
    /\ selected' = << >> /\ lastEnd' = -1
    /\ done' = 0 /\ cursor' = 0 /\ pieces' = << >>

\* The key of matches.sort: start, then the longest, then the kind.
Before(m, n) ==
    \/ m.start < n.start
    \/ m.start = n.start /\ m.end > n.end
    \/ m.start = n.start /\ m.end = n.end /\ Rank[m.kind] < Rank[n.kind]

\* Mutation of Overlaps: a match right behind the last one is skipped as well.
OverlapsOrTouches(m) == m.start <= lastEnd

\* ent.start < last_end
Overlaps(m) == m.start < lastEnd

\* One turn of the loop of _find_entities: the next match is selected, unless
\* it overlaps the last one that was.
Visit ==
    \E m \in pending :
        /\ \A n \in pending : ~Before(n, m)
        /\ pending' = pending \ {m}
        /\ IF Overlaps(m)
           THEN UNCHANGED <<selected, lastEnd>>
           ELSE /\ selected' = Append(selected, m)
                /\ lastEnd' = m.end
        /\ UNCHANGED <<size, found, done, cursor, pieces>>

Found == pending = {}

\* Mutation of Resume: the text after a token begins with the entity again.
ResumeAtStart(ent) == ent.start

\* cursor = ent.end
Resume(ent) == ent.end

\* One turn of the loop of sanitize_text: the text up to the entity, then its token.
Replace ==
    /\ Found /\ done < Len(selected)
    /\ LET ent == selected[done + 1]
       IN /\ pieces' = pieces \o << [from |-> cursor, to |-> ent.start, raw |-> TRUE],
                                    [from |-> ent.start, to |-> ent.end, raw |-> FALSE] >>
          /\ cursor' = Resume(ent)
    /\ done' = done + 1
    /\ UNCHANGED <<size, found, pending, selected, lastEnd>>

Replaced == Found /\ done = Len(selected)

\* output.append(text[cursor:])
Rest == [from |-> cursor, to |-> size, raw |-> TRUE]
Output == Append(pieces, Rest)

ScanInit ==
    \E n \in Nat : \E ms \in SUBSET {m \in Match : m.end <= n} : StartWith(n, ms)

ScanSpec == ScanInit /\ [][Visit \/ Replace]_scanVars

----------------------------------------------------------------------------
(* Properties.                                                             *)

\* The output is the text, cut: the pieces follow each other without gap or
\* overlap from the first character on, so that nothing the user wrote is
\* lost or doubled between two tokens (sanitize_text's cursor).
TilesText ==
    /\ \A i \in DOMAIN Output : i > 1 => Output[i].from = Output[i - 1].to
    /\ Output[1].from = 0
    /\ \A i \in DOMAIN Output : Output[i].from <= Output[i].to

\* No match is left as it was: every interval a recogniser matched has at least
\* a part replaced, although most overlapping matches are never selected.
NoMatchLeftWhole ==
    Replaced =>
        \A i \in DOMAIN Output : Output[i].raw =>
            \A m \in found : ~(Output[i].from <= m.start /\ m.end <= Output[i].to)

============================================================================
