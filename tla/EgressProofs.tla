---------------------------- MODULE EgressProofs ----------------------------
(***************************************************************************)
(* For any payloads, recognisers, digests and keys, across crashes and key *)
(* rotations: the output of the sanitizer tiles the text, no match is left *)
(* whole, tokens that were sent resolve, and an entity has one token.      *)
(***************************************************************************)
EXTENDS Egress, TLAPS

Chosen == 1..Len(selected)

\* The end of the last entity that was replaced.
EndOf(n) == IF n = 0 THEN 0 ELSE selected[n].end

\* What is pending starts behind what was selected; what was visited starts in it.
ChosenApart ==
    /\ \A m \in found : m.end <= size
    /\ lastEnd = IF selected = << >> THEN -1 ELSE selected[Len(selected)].end
    /\ \A i, j \in Chosen : i < j => selected[i].end <= selected[j].start
    /\ \A i \in Chosen : \A m \in pending : selected[i].start <= m.start
    /\ \A m \in found \ pending : \E i \in Chosen :
         selected[i].start <= m.start /\ m.start < selected[i].end

\* What is replaced, and the pieces so far.
PiecesFit ==
    /\ done > 0 => pending = {}
    /\ cursor = EndOf(done)
    /\ pieces = << >> <=> done = 0
    /\ pieces # << >> => pieces[1].from = 0 /\ pieces[Len(pieces)].to = cursor
    /\ \A i \in 1..Len(pieces) : pieces[i].from <= pieces[i].to
    /\ \A i \in 2..Len(pieces) : pieces[i].from = pieces[i - 1].to

\* A piece of the text is before or behind each entity.
RawBetween ==
    \A i \in 1..Len(pieces) : pieces[i].raw =>
        \A j \in Chosen : pieces[i].to <= selected[j].start \/ selected[j].end <= pieces[i].from

ScanInv == ScanTypeOK /\ ChosenApart /\ PiecesFit /\ RawBetween

----------------------------------------------------------------------------

\* Two elements appended to a sequence.
LEMMA AppendTwo ==
    ASSUME NEW S, NEW s \in Seq(S), NEW a \in S, NEW b \in S
    PROVE  /\ s \o << a, b >> \in Seq(S)
           /\ Len(s \o << a, b >>) = Len(s) + 2
           /\ \A i \in 1..Len(s) : (s \o << a, b >>)[i] = s[i]
           /\ (s \o << a, b >>)[Len(s) + 1] = a
           /\ (s \o << a, b >>)[Len(s) + 2] = b
  OBVIOUS

\* A new text: nothing is selected or replaced.
LEMMA StartInv ==
    ASSUME NEW n \in Nat, NEW ms \in SUBSET {m \in Match : m.end <= n}, StartWith(n, ms)
    PROVE  ScanInv
  BY DEF StartWith, ScanInv, ScanTypeOK, ChosenApart, PiecesFit, RawBetween, Chosen, EndOf, Match

LEMMA BeginInv ==
    ASSUME NEW n \in Nat, NEW ms \in SUBSET {m \in Match : m.end <= n}, Begin(n, ms)
    PROVE  ScanInv'
  BY DEF Begin, ScanInv, ScanTypeOK, ChosenApart, PiecesFit, RawBetween, Chosen, EndOf, Match

\* One turn of _find_entities.
LEMMA VisitInv ==
    ASSUME ScanInv, Visit
    PROVE  ScanInv'
<1>1. PICK m \in pending : /\ \A n \in pending : ~Before(n, m)
                           /\ pending' = pending \ {m}
                           /\ IF Overlaps(m)
                              THEN UNCHANGED <<selected, lastEnd>>
                              ELSE selected' = Append(selected, m) /\ lastEnd' = m.end
                           /\ UNCHANGED <<size, found, done, cursor, pieces>>
  BY DEF Visit
<1>2. /\ m \in found /\ m \in Match /\ m.start \in Nat /\ m.end \in Nat /\ m.start < m.end
      /\ m.end <= size
      /\ done = 0 /\ done \in Nat
      /\ selected \in Seq(found) /\ Len(selected) \in Nat
      /\ \A i \in Chosen : selected[i] \in found
      /\ \A n \in found : n \in Match /\ n.start \in Nat /\ n.end \in Nat /\ n.start < n.end
  BY <1>1 DEF ScanInv, ScanTypeOK, ChosenApart, PiecesFit, Match, Chosen
\* The order of the visit: m starts first of what is pending.
<1>3. \A n \in pending : m.start <= n.start
  BY <1>1, <1>2 DEF Before, ScanInv, ScanTypeOK
<1>4. CASE Overlaps(m)
  <2>1. selected' = selected /\ lastEnd' = lastEnd /\ Chosen' = Chosen
    BY <1>1, <1>4 DEF Chosen
  <2>2. ScanTypeOK'
    BY <1>1, <1>2, <2>1 DEF ScanInv, ScanTypeOK
  <2>3. selected # << >>
    BY <1>2, <1>4 DEF Overlaps, ScanInv, ChosenApart
  <2>4. /\ Len(selected) \in Chosen
        /\ selected[Len(selected)].start <= m.start
        /\ m.start < selected[Len(selected)].end
    BY <1>2, <1>4, <2>3 DEF Overlaps, ScanInv, ChosenApart, Chosen
  <2>5. ChosenApart'
    BY <1>1, <2>1, <2>4 DEF ScanInv, ChosenApart
  <2>6. PiecesFit' /\ RawBetween'
    BY <1>1, <1>2, <2>1 DEF ScanInv, PiecesFit, RawBetween, EndOf
  <2> QED  BY <2>2, <2>5, <2>6 DEF ScanInv
<1>5. CASE ~Overlaps(m)
  <2>1. selected' = Append(selected, m) /\ lastEnd' = m.end
    BY <1>1, <1>5
  <2>2. /\ selected' \in Seq(found)
        /\ Len(selected') = Len(selected) + 1
        /\ \A i \in Chosen : selected'[i] = selected[i]
        /\ selected'[Len(selected) + 1] = m
        /\ Chosen' = Chosen \cup {Len(selected) + 1}
    BY <1>2, <2>1 DEF Chosen
  <2>3. ScanTypeOK'
    BY <1>1, <1>2, <2>1, <2>2 DEF ScanInv, ScanTypeOK
  <2>4. \A i \in Chosen : selected[i].end <= m.start
    <3> SUFFICES ASSUME NEW i \in Chosen PROVE selected[i].end <= m.start
      OBVIOUS
    <3>1. Len(selected) \in Chosen /\ selected # << >>
      BY <1>2 DEF Chosen
    <3>2. selected[Len(selected)].end <= m.start
      BY <1>2, <1>5, <3>1 DEF Overlaps, ScanInv, ChosenApart
    <3>3. CASE i = Len(selected)
      BY <3>2, <3>3
    <3>4. CASE i < Len(selected)
      <4>1. selected[i].end <= selected[Len(selected)].start
        BY <3>1, <3>4 DEF ScanInv, ChosenApart
      <4>2. selected[i] \in found /\ selected[Len(selected)] \in found
        BY <1>2, <3>1
      <4> QED  BY <1>2, <3>2, <4>1, <4>2
    <3> QED  BY <1>2, <3>3, <3>4 DEF Chosen
  <2>5. selected' # << >> /\ selected'[Len(selected')] = m
    BY <1>2, <2>2
  <2>6. \A i, j \in Chosen' : i < j => selected'[i].end <= selected'[j].start
    <3> SUFFICES ASSUME NEW i \in Chosen', NEW j \in Chosen', i < j
                 PROVE  selected'[i].end <= selected'[j].start
      OBVIOUS
    <3>1. i \in Chosen  BY <1>2, <2>2 DEF Chosen
    <3>2. CASE j \in Chosen
      BY <2>2, <3>1, <3>2 DEF ScanInv, ChosenApart
    <3>3. CASE j = Len(selected) + 1
      BY <2>2, <2>4, <3>1, <3>3
    <3> QED  BY <2>2, <3>2, <3>3
  <2>7. \A i \in Chosen' : \A n \in pending' : selected'[i].start <= n.start
    BY <1>1, <1>3, <2>2 DEF ScanInv, ChosenApart
  <2>8. \A n \in found' \ pending' : \E i \in Chosen' :
          selected'[i].start <= n.start /\ n.start < selected'[i].end
    <3> SUFFICES ASSUME NEW n \in found' \ pending'
                 PROVE  \E i \in Chosen' : selected'[i].start <= n.start
                                           /\ n.start < selected'[i].end
      OBVIOUS
    <3>1. CASE n = m
      BY <1>2, <2>2, <3>1
    <3>2. CASE n \in found \ pending
      <4>1. PICK i \in Chosen : selected[i].start <= n.start /\ n.start < selected[i].end
        BY <3>2 DEF ScanInv, ChosenApart
      <4> QED  BY <2>2, <4>1
    <3> QED  BY <1>1, <3>1, <3>2
  <2>9. ChosenApart'
    BY <1>1, <2>1, <2>5, <2>6, <2>7, <2>8 DEF ScanInv, ChosenApart
  <2>10. PiecesFit'
    BY <1>1, <1>2 DEF ScanInv, PiecesFit, EndOf
  <2>11. RawBetween'
    BY <1>1, <1>2 DEF ScanInv, PiecesFit, RawBetween, ScanTypeOK
  <2> QED  BY <2>3, <2>9, <2>10, <2>11 DEF ScanInv
<1> QED  BY <1>4, <1>5

\* One turn of the loop of sanitize_text.
LEMMA ReplaceInv ==
    ASSUME ScanInv, Replace
    PROVE  ScanInv'
<1> DEFINE ent == selected[done + 1]
           raw == [from |-> cursor, to |-> ent.start, raw |-> TRUE]
           token == [from |-> ent.start, to |-> ent.end, raw |-> FALSE]
<1>1. /\ pending = {} /\ done < Len(selected)
      /\ pieces' = pieces \o << raw, token >>
      /\ cursor' = ent.end /\ done' = done + 1
      /\ UNCHANGED <<size, found, pending, selected, lastEnd>>
  BY DEF Replace, Found, Resume
<1>2. /\ selected \in Seq(found) /\ Len(selected) \in Nat /\ done \in Nat
      /\ \A i \in Chosen : selected[i].start \in Nat /\ selected[i].end \in Nat
                           /\ selected[i].start < selected[i].end
      /\ done + 1 \in Chosen
      /\ done > 0 => done \in Chosen
      /\ pieces \in Seq(Piece) /\ Len(pieces) \in Nat /\ cursor \in Nat
  <2>1. /\ selected \in Seq(found) /\ found \subseteq Match /\ done \in 0..Len(selected)
        /\ pieces \in Seq(Piece) /\ cursor \in Nat
    BY DEF ScanInv, ScanTypeOK
  <2>2. \A i \in Chosen : selected[i] \in Match
    BY <2>1 DEF Chosen
  <2>3. \A i \in Chosen : selected[i].start \in Nat /\ selected[i].end \in Nat
                          /\ selected[i].start < selected[i].end
    BY <2>2 DEF Match
  <2> QED  BY <1>1, <2>1, <2>3 DEF Chosen
<1>3. cursor <= ent.start /\ ent.start \in Nat /\ ent.end \in Nat /\ ent.start < ent.end
  BY <1>2 DEF ScanInv, ChosenApart, PiecesFit, EndOf
<1>4. raw \in Piece /\ token \in Piece
  BY <1>2, <1>3 DEF Piece
<1>5. /\ pieces' \in Seq(Piece) /\ Len(pieces') = Len(pieces) + 2
      /\ \A i \in 1..Len(pieces) : pieces'[i] = pieces[i]
      /\ pieces'[Len(pieces) + 1] = raw /\ pieces'[Len(pieces) + 2] = token
  BY <1>1, <1>2, <1>4, AppendTwo
<1>6. \A i \in 1..Len(pieces') :
        i \in 1..Len(pieces) \/ i = Len(pieces) + 1 \/ i = Len(pieces) + 2
  <2>1. Len(pieces') = Len(pieces) + 2 /\ Len(pieces) \in Nat
    BY <1>2, <1>5
  <2> QED  BY <2>1
<1> HIDE DEF ent
<1>7. ScanTypeOK'
  BY <1>1, <1>2, <1>3, <1>5 DEF ScanInv, ScanTypeOK
<1>8. ChosenApart'
  BY <1>1 DEF ScanInv, ChosenApart, Chosen
<1>9. PiecesFit'
  <2>1. (cursor = EndOf(done))'
    BY <1>1, <1>2 DEF EndOf, ent
  <2>2. pieces' # << >> /\ done' # 0 /\ pieces'[Len(pieces')].to = cursor'
    BY <1>1, <1>2, <1>5
  <2>3. pieces'[1].from = 0
    <3>1. CASE pieces = << >>
      BY <1>2, <1>5, <3>1 DEF ScanInv, PiecesFit, EndOf
    <3>2. CASE pieces # << >>
      BY <1>2, <1>5, <3>2 DEF ScanInv, PiecesFit
    <3> QED  BY <3>1, <3>2
  <2>4. \A i \in 1..Len(pieces') : pieces'[i].from <= pieces'[i].to
    <3> SUFFICES ASSUME NEW i \in 1..Len(pieces') PROVE pieces'[i].from <= pieces'[i].to
      OBVIOUS
    <3>1. CASE i \in 1..Len(pieces)
      BY <1>5, <3>1 DEF ScanInv, PiecesFit
    <3>2. CASE i = Len(pieces) + 1
      BY <1>3, <1>5, <3>2
    <3>3. CASE i = Len(pieces) + 2
      BY <1>3, <1>5, <3>3
    <3> QED  BY <1>6, <3>1, <3>2, <3>3
  <2>5. \A i \in 2..Len(pieces') : pieces'[i].from = pieces'[i - 1].to
    <3> SUFFICES ASSUME NEW i \in 2..Len(pieces') PROVE pieces'[i].from = pieces'[i - 1].to
      OBVIOUS
    <3>1. CASE i \in 2..Len(pieces)
      <4>1. i \in 1..Len(pieces) /\ i - 1 \in 1..Len(pieces)
        BY <1>2, <3>1
      <4>2. pieces'[i] = pieces[i] /\ pieces'[i - 1] = pieces[i - 1]
        BY <1>5, <4>1
      <4>3. pieces[i].from = pieces[i - 1].to
        BY <3>1 DEF ScanInv, PiecesFit
      <4> QED  BY <4>2, <4>3
    <3>2. CASE i = Len(pieces) + 1
      BY <1>2, <1>5, <3>2 DEF ScanInv, PiecesFit
    <3>3. CASE i = Len(pieces) + 2
      BY <1>2, <1>5, <3>3
    <3>4. i \in 1..Len(pieces') /\ i >= 2
      <4>1. Len(pieces') \in Nat
        BY <1>2, <1>5
      <4> QED  BY <4>1
    <3>5. i \in 1..Len(pieces) => i \in 2..Len(pieces)
      BY <1>2, <3>4
    <3> QED  BY <1>6, <3>1, <3>2, <3>3, <3>4, <3>5
  <2>6. done' > 0 => pending' = {}
    BY <1>1
  <2>7. (pieces = << >> <=> done = 0)'
    BY <2>2
  <2>8. (pieces # << >> => pieces[1].from = 0 /\ pieces[Len(pieces)].to = cursor)'
    BY <2>2, <2>3
  <2> QED  BY <2>1, <2>4, <2>5, <2>6, <2>7, <2>8 DEF PiecesFit
<1>10. RawBetween'
  <2>1. \A j \in Chosen : ent.start <= selected[j].start \/ selected[j].end <= cursor
    <3> SUFFICES ASSUME NEW j \in Chosen
                 PROVE  ent.start <= selected[j].start \/ selected[j].end <= cursor
      OBVIOUS
    <3>1. CASE j > done + 1
      BY <1>2, <1>3, <3>1 DEF ScanInv, ChosenApart, ent
    <3>2. CASE j = done + 1
      BY <1>2, <1>3, <3>2 DEF ent
    <3>3. CASE j = done
      BY <1>2, <3>3 DEF ScanInv, PiecesFit, EndOf, Chosen
    <3>4. CASE j < done
      <4>1. selected[j].end <= selected[done].start /\ selected[done].start < selected[done].end
        BY <1>2, <3>4 DEF ScanInv, ChosenApart, Chosen
      <4> QED  BY <1>2, <3>4, <4>1 DEF ScanInv, PiecesFit, EndOf, Chosen
    <3> QED  BY <1>2, <3>1, <3>2, <3>3, <3>4 DEF Chosen
  <2>2. Chosen' = Chosen /\ selected' = selected
    BY <1>1 DEF Chosen
  <2>3. ASSUME NEW i \in 1..Len(pieces'), pieces'[i].raw, NEW j \in Chosen
        PROVE  pieces'[i].to <= selected[j].start \/ selected[j].end <= pieces'[i].from
    <3>1. CASE i \in 1..Len(pieces)
      BY <1>5, <2>3, <3>1 DEF ScanInv, RawBetween
    <3>2. CASE i = Len(pieces) + 1
      BY <1>5, <2>1, <3>2
    <3>3. i # Len(pieces) + 2
      BY <1>5, <2>3
    <3> QED  BY <1>6, <3>1, <3>2, <3>3
  <2> QED  BY <2>2, <2>3 DEF RawBetween
<1> QED  BY <1>7, <1>8, <1>9, <1>10 DEF ScanInv

----------------------------------------------------------------------------

\* What the output is: the pieces, and the text behind the last entity.
LEMMA OutputPieces ==
    ASSUME ScanInv
    PROVE  /\ Len(pieces) \in Nat /\ Len(Output) = Len(pieces) + 1
           /\ DOMAIN Output = 1..(Len(pieces) + 1)
           /\ \A i \in 1..Len(pieces) : Output[i] = pieces[i]
           /\ Output[Len(pieces) + 1] = Rest
           /\ cursor \in Nat /\ size \in Nat /\ cursor <= size
<1>1. pieces \in Seq(Piece) /\ cursor \in Nat /\ size \in Nat
  BY DEF ScanInv, ScanTypeOK
<1>2. Rest \in Piece
  BY <1>1 DEF Rest, Piece
<1>3. /\ selected \in Seq(found) /\ done \in 0..Len(selected) /\ Len(selected) \in Nat
      /\ \A m \in found : m.end <= size
      /\ cursor = EndOf(done)
  BY DEF ScanInv, ScanTypeOK, ChosenApart, PiecesFit
<1>4. cursor <= size
  <2>1. CASE done = 0
    BY <1>1, <1>3, <2>1 DEF EndOf
  <2>2. CASE done # 0
    <3>1. selected[done] \in found
      BY <1>3, <2>2
    <3> QED  BY <1>3, <2>2, <3>1 DEF EndOf
  <2> QED  BY <2>1, <2>2
<1> QED  BY <1>1, <1>2, <1>4 DEF Output

\* The output tiles the text when the invariant holds.
LEMMA InvTiles ==
    ASSUME ScanInv
    PROVE  TilesText
<1>1. ASSUME NEW i \in DOMAIN Output, i > 1
      PROVE  Output[i].from = Output[i - 1].to
  <2>1. CASE i \in 1..Len(pieces)
    <3>1. i \in 2..Len(pieces) /\ i - 1 \in 1..Len(pieces)
      BY <1>1, <2>1, OutputPieces
    <3>2. pieces[i].from = pieces[i - 1].to
      BY <3>1 DEF ScanInv, PiecesFit
    <3> QED  BY <2>1, <3>1, <3>2, OutputPieces
  <2>2. CASE i = Len(pieces) + 1
    <3>1. pieces # << >> /\ i - 1 = Len(pieces) /\ i - 1 \in 1..Len(pieces)
      BY <1>1, <2>2, OutputPieces
    <3>2. pieces[Len(pieces)].to = cursor
      BY <3>1 DEF ScanInv, PiecesFit
    <3> QED  BY <2>2, <3>1, <3>2, OutputPieces DEF Rest
  <2> QED  BY <1>1, <2>1, <2>2, OutputPieces
<1>2. Output[1].from = 0
  <2>1. CASE pieces = << >>
    BY <2>1, OutputPieces DEF Rest, ScanInv, PiecesFit, EndOf
  <2>2. CASE pieces # << >>
    <3>1. 1 \in 1..Len(pieces)
      BY <2>2, OutputPieces DEF ScanInv, ScanTypeOK
    <3> QED  BY <2>2, <3>1, OutputPieces DEF ScanInv, PiecesFit
  <2> QED  BY <2>1, <2>2
<1>3. ASSUME NEW i \in DOMAIN Output
      PROVE  Output[i].from <= Output[i].to
  <2>1. CASE i \in 1..Len(pieces)
    BY <2>1, OutputPieces DEF ScanInv, PiecesFit
  <2>2. CASE i = Len(pieces) + 1
    BY <2>2, OutputPieces DEF Rest
  <2> QED  BY <1>3, <2>1, <2>2, OutputPieces
<1> QED  BY <1>1, <1>2, <1>3 DEF TilesText

\* No match is left whole when the invariant holds: each starts in a selected
\* entity, and a piece of the text is before or behind it.
LEMMA InvNoneWhole ==
    ASSUME ScanInv
    PROVE  NoMatchLeftWhole
<1> SUFFICES ASSUME Replaced,
                    NEW o \in DOMAIN Output, Output[o].raw, NEW m \in found,
                    Output[o].from <= m.start, m.end <= Output[o].to
             PROVE  FALSE
  BY DEF NoMatchLeftWhole
<1>1. /\ selected \in Seq(found) /\ Len(selected) \in Nat
      /\ done = Len(selected) /\ pending = {}
      /\ m.start \in Nat /\ m.end \in Nat /\ m.start < m.end
      /\ pieces \in Seq(Piece)
  BY DEF Replaced, Found, ScanInv, ScanTypeOK, Match
<1>2. PICK i \in Chosen : selected[i].start <= m.start /\ m.start < selected[i].end
  BY <1>1 DEF ScanInv, ChosenApart
<1>3. selected[i] \in found /\ selected[i].start \in Nat /\ selected[i].end \in Nat
  BY <1>1 DEF Chosen, ScanInv, ScanTypeOK, Match
<1>4. CASE o \in 1..Len(pieces)
  <2>1. /\ pieces[o].raw /\ pieces[o] \in Piece
        /\ pieces[o].from <= m.start /\ m.end <= pieces[o].to
    BY <1>1, <1>4, OutputPieces
  <2>2. pieces[o].to <= selected[i].start \/ selected[i].end <= pieces[o].from
    BY <1>4, <2>1 DEF ScanInv, RawBetween
  <2>3. pieces[o].to \in Nat /\ pieces[o].from \in Nat
    BY <2>1 DEF Piece
  <2> QED  BY <1>1, <1>2, <1>3, <2>1, <2>2, <2>3
<1>5. CASE o = Len(pieces) + 1
  <2>1. cursor <= m.start
    BY <1>5, OutputPieces DEF Rest
  <2>2. Len(selected) \in Chosen /\ cursor = selected[Len(selected)].end
    BY <1>1, <1>2 DEF Chosen, ScanInv, PiecesFit, EndOf
  <2>3. /\ selected[Len(selected)].start \in Nat
        /\ selected[Len(selected)].start < selected[Len(selected)].end
    <3>1. selected[Len(selected)] \in Match
      BY <1>1, <2>2 DEF Chosen, ScanInv, ScanTypeOK
    <3> QED  BY <3>1 DEF Match
  <2>4. selected[i].end <= cursor
    <3>1. CASE i = Len(selected)
      BY <2>2, <1>3, <3>1
    <3>2. CASE i < Len(selected)
      <4>1. selected[i].end <= selected[Len(selected)].start
        BY <2>2, <3>2 DEF ScanInv, ChosenApart
      <4> QED  BY <1>3, <2>2, <2>3, <4>1, OutputPieces
    <3> QED  BY <1>1, <3>1, <3>2 DEF Chosen
  <2> QED  BY <1>1, <1>2, <1>3, <2>1, <2>4, OutputPieces
<1> QED  BY <1>4, <1>5, OutputPieces

\* One text, for any matches: every piece of it is in the output once, and every
\* match has a part replaced (egress_sanitizer's _find_entities and sanitize_text).
THEOREM TextIsTiled == ScanSpec => [](TilesText /\ NoMatchLeftWhole)
<1>1. ScanInit => ScanInv
  BY StartInv DEF ScanInit
<1>2. ScanInv /\ [Visit \/ Replace]_scanVars => ScanInv'
  <2> SUFFICES ASSUME ScanInv, [Visit \/ Replace]_scanVars PROVE ScanInv'
    OBVIOUS
  <2>1. CASE Visit
    BY <2>1, VisitInv
  <2>2. CASE Replace
    BY <2>2, ReplaceInv
  <2>3. CASE UNCHANGED scanVars
    BY <2>3 DEF scanVars, ScanInv, ScanTypeOK, ChosenApart, PiecesFit, RawBetween, Chosen, EndOf
  <2> QED  BY <2>1, <2>2, <2>3
<1>3. ScanInv => TilesText /\ NoMatchLeftWhole
  BY InvTiles, InvNoneWhole
<1> QED  BY <1>1, <1>2, <1>3, PTL DEF ScanSpec

----------------------------------------------------------------------------

Stages == {"down", "idle", "fields", "scan", "saveScan", "saveIdle"}

\* The map has a token for this value.
Resolves(map, i) == \E e \in map : e.token = i.token /\ e.value = i.value

OneEntryEach(map) == \A d, e \in map : d.token = e.token => d = e

\* The map in memory and, when it is whole, the one on disk have all that was sent.
MapsResolve ==
    /\ stage \in Stages
    /\ OneEntryEach(entries)
    /\ mapFile # Torn => OneEntryEach(mapFile)
    /\ stage # "down" => \A i \in issued : Resolves(entries, i)
    /\ mapFile # Torn => \A i \in issued : Resolves(mapFile, i)
    /\ \A t \in tokens : Resolves(entries, t)
    /\ stage \in {"idle", "fields", "scan"} => mapFile = entries
    /\ stage \in {"down", "idle", "saveIdle"} => tokens = {}

\* The n-th token that is tried for an entity.
Try(key, value, kind, n) ==
    LET digest == Digest(key, value, kind)
    IN SubSeq(digest, 1, IF n < Len(digest) THEN n ELSE Len(digest))

\* Those before the n-th are another value's.
TakenBelow(map, key, value, kind, n) ==
    \A k \in 1..(n - 1) : \E e \in map : e.token = Try(key, value, kind, k) /\ e.value # value

\* A token is the first of its entity's that was not taken.
IsFirst(map, i, key) ==
    \E n \in Nat \ {0} :
        i.token = Try(key, i.value, i.kind, n) /\ TakenBelow(map, key, i.value, i.kind, n)

FirstFree ==
    /\ ringKey \in Nat \ {0} /\ entityKey \in Nat
    /\ stage # "down" => \A i \in issued : IsFirst(entries, i, i.key)
    /\ mapFile # Torn => \A i \in issued : IsFirst(mapFile, i, i.key)
    /\ \A t \in tokens : IsFirst(entries, t, entityKey)
    /\ tokens # {} => entityKey # 0

\* What the loop of _token_for has tried.
Trying ==
    /\ level \in Nat \ {0}
    /\ level > 1 =>
        /\ stage = "scan" /\ Found /\ ~Replaced
        /\ entityKey # 0
        /\ TakenBelow(entries, entityKey, Value, Entity.kind, level)

TokenInv == MapsResolve /\ FirstFree /\ Trying /\ OneTokenPerEntity

----------------------------------------------------------------------------

LEMMA TokenInit ==
    ASSUME Init
    PROVE  TokenInv
<1>1. /\ stage = "down" /\ mapFile = {} /\ entries = {} /\ issued = {} /\ tokens = {}
      /\ ringKey = 1 /\ entityKey = 0 /\ level = 1
  BY DEF Init
<1>2. MapsResolve
  BY <1>1 DEF MapsResolve, Stages, OneEntryEach
<1>3. FirstFree
  BY <1>1 DEF FirstFree
<1>4. Trying
  BY <1>1 DEF Trying
<1>5. OneTokenPerEntity
  BY <1>1 DEF OneTokenPerEntity
<1> QED  BY <1>2, <1>3, <1>4, <1>5 DEF TokenInv

\* Putting a token that is not taken keeps what every other token stands for.
LEMMA PutKeeps ==
    ASSUME NEW map, NEW e, OneEntryEach(map), \A d \in map : d.token = e.token => d.value = e.value
    PROVE  /\ OneEntryEach(Put(map, e))
           /\ Resolves(Put(map, e), e)
           /\ \A i : Resolves(map, i) => Resolves(Put(map, e), i)
  BY DEF OneEntryEach, Put, Resolves

LEMMA PutKeepsTaken ==
    ASSUME NEW map, NEW e, OneEntryEach(map), \A d \in map : d.token = e.token => d.value = e.value,
           NEW key, NEW value, NEW kind, NEW n, TakenBelow(map, key, value, kind, n)
    PROVE  TakenBelow(Put(map, e), key, value, kind, n)
<1> SUFFICES ASSUME NEW k \in 1..(n - 1)
             PROVE  \E c \in Put(map, e) : c.token = Try(key, value, kind, k) /\ c.value # value
  BY DEF TakenBelow
<1>1. PICK d \in map : d.token = Try(key, value, kind, k) /\ d.value # value
  BY DEF TakenBelow
<1>2. CASE d.token = e.token
  BY <1>1, <1>2 DEF Put
<1>3. CASE d.token # e.token
  BY <1>1, <1>3 DEF Put
<1> QED  BY <1>2, <1>3

LEMMA PutKeepsFirst ==
    ASSUME NEW map, NEW e, OneEntryEach(map), \A d \in map : d.token = e.token => d.value = e.value,
           NEW key, NEW i, IsFirst(map, i, key)
    PROVE  IsFirst(Put(map, e), i, key)
<1>1. PICK n \in Nat \ {0} :
        i.token = Try(key, i.value, i.kind, n) /\ TakenBelow(map, key, i.value, i.kind, n)
  BY DEF IsFirst
<1>2. TakenBelow(Put(map, e), key, i.value, i.kind, n)
  BY <1>1, PutKeepsTaken
<1> QED  BY <1>1, <1>2 DEF IsFirst

\* Two entries of one entity that are both the first free are the same token.
LEMMA FirstIsUnique ==
    ASSUME NEW map, OneEntryEach(map), NEW key,
           NEW i, NEW j, i.value = j.value, i.kind = j.kind,
           Resolves(map, i), Resolves(map, j), IsFirst(map, i, key), IsFirst(map, j, key)
    PROVE  i.token = j.token
<1>1. PICK n \in Nat \ {0} :
        i.token = Try(key, i.value, i.kind, n) /\ TakenBelow(map, key, i.value, i.kind, n)
  BY DEF IsFirst
<1>2. PICK k \in Nat \ {0} :
        j.token = Try(key, j.value, j.kind, k) /\ TakenBelow(map, key, j.value, j.kind, k)
  BY DEF IsFirst
<1>3. ~(n < k)
  <2> SUFFICES ASSUME n < k PROVE FALSE
    OBVIOUS
  <2>1. n \in 1..(k - 1)
    BY <1>1, <1>2
  <2>2. PICK e \in map : e.token = i.token /\ e.value # i.value
    BY <1>1, <1>2, <2>1 DEF TakenBelow
  <2> QED  BY <2>2 DEF Resolves, OneEntryEach
<1>4. ~(k < n)
  <2> SUFFICES ASSUME k < n PROVE FALSE
    OBVIOUS
  <2>1. k \in 1..(n - 1)
    BY <1>1, <1>2
  <2>2. PICK e \in map : e.token = j.token /\ e.value # j.value
    BY <1>1, <1>2, <2>1 DEF TakenBelow
  <2> QED  BY <2>2 DEF Resolves, OneEntryEach
<1>5. n = k
  BY <1>1, <1>2, <1>3, <1>4
<1> QED  BY <1>1, <1>2, <1>5

----------------------------------------------------------------------------
(* The steps.                                                              *)

\* Steps of a call that leave both maps alone.
LEMMA QuietTokens ==
    ASSUME TokenInv, level = 1,
           stage \in {"idle", "fields", "scan"}, stage' \in {"fields", "scan"},
           tokens' = tokens \/ tokens' = {},
           UNCHANGED <<ringKey, mapFile, entityKey, entries, level, issued>>
    PROVE  TokenInv'
<1>1. MapsResolve'
  BY DEF TokenInv, MapsResolve, Stages, OneEntryEach
<1>2. FirstFree'
  BY DEF TokenInv, FirstFree
<1>3. Trying' /\ OneTokenPerEntity'
  BY DEF TokenInv, Trying, OneTokenPerEntity
<1> QED  BY <1>1, <1>2, <1>3 DEF TokenInv

LEMMA BootTokens ==
    ASSUME TokenInv, BootProcess
    PROVE  TokenInv'
<1>1. /\ stage = "down" /\ stage' = "idle" /\ mapFile # Torn /\ entries' = mapFile
      /\ UNCHANGED <<ringKey, mapFile, entityKey, tokens, level, issued>>
      /\ tokens = {} /\ level = 1
  BY DEF TokenInv, MapsResolve, Trying, BootProcess, Loaded
<1>2. MapsResolve'
  BY <1>1 DEF TokenInv, MapsResolve, Stages, OneEntryEach
<1>3. FirstFree'
  BY <1>1 DEF TokenInv, FirstFree
<1>4. Trying' /\ OneTokenPerEntity'
  BY <1>1 DEF TokenInv, Trying, OneTokenPerEntity
<1> QED  BY <1>2, <1>3, <1>4 DEF TokenInv

LEMMA SaveTokens ==
    ASSUME TokenInv, Save
    PROVE  TokenInv'
<1>1. /\ stage \in {"saveScan", "saveIdle"} /\ stage' \in {"scan", "idle"}
      /\ stage' = "idle" => stage = "saveIdle"
      /\ mapFile' = entries
      /\ UNCHANGED <<ringKey, entityKey, entries, tokens, level, issued>>
      /\ level = 1
  BY DEF TokenInv, Trying, Save
<1>2. MapsResolve'
  BY <1>1 DEF TokenInv, MapsResolve, Stages, OneEntryEach
<1>3. FirstFree'
  BY <1>1 DEF TokenInv, FirstFree
<1>4. Trying' /\ OneTokenPerEntity'
  BY <1>1 DEF TokenInv, Trying, OneTokenPerEntity
<1> QED  BY <1>2, <1>3, <1>4 DEF TokenInv

LEMMA RotateTokens ==
    ASSUME TokenInv, RotateKeys
    PROVE  TokenInv'
<1>1. /\ stage = "idle" /\ stage' = "saveIdle"
      /\ ringKey' = ringKey + 1 /\ mapFile' = Torn
      /\ UNCHANGED <<entityKey, entries, tokens, level, issued>>
      /\ level = 1
  BY DEF TokenInv, Trying, RotateKeys
<1>2. MapsResolve'
  BY <1>1 DEF TokenInv, MapsResolve, Stages, OneEntryEach
<1>3. FirstFree'
  BY <1>1 DEF TokenInv, FirstFree
<1>4. Trying' /\ OneTokenPerEntity'
  BY <1>1 DEF TokenInv, Trying, OneTokenPerEntity
<1> QED  BY <1>2, <1>3, <1>4 DEF TokenInv

LEMMA CrashTokens ==
    ASSUME TokenInv, Crash
    PROVE  TokenInv'
<1>1. /\ stage' = "down" /\ entityKey' = 0 /\ entries' = {} /\ tokens' = {} /\ level' = 1
      /\ UNCHANGED <<ringKey, mapFile, issued>>
  BY DEF Crash, Forget
<1>2. MapsResolve'
  BY <1>1 DEF TokenInv, MapsResolve, Stages, OneEntryEach
<1>3. FirstFree'
  BY <1>1 DEF TokenInv, FirstFree
<1>4. Trying' /\ OneTokenPerEntity'
  BY <1>1 DEF TokenInv, Trying, OneTokenPerEntity
<1> QED  BY <1>2, <1>3, <1>4 DEF TokenInv

\* The key that is used is the one of the tokens made so far.
LEMMA KeyOfTokens ==
    ASSUME TokenInv
    PROVE  /\ Key \in Nat \ {0}
           /\ \A t \in tokens : IsFirst(entries, t, Key)
           /\ TakenBelow(entries, Key, Value, Entity.kind, level)
<1>1. Key \in Nat \ {0} /\ (entityKey # 0 => Key = entityKey)
  BY DEF TokenInv, FirstFree, Key
<1>2. \A t \in tokens : IsFirst(entries, t, Key)
  BY <1>1 DEF TokenInv, FirstFree
<1>3. CASE level = 1
  BY <1>1, <1>2, <1>3 DEF TakenBelow
<1>4. CASE level # 1
  <2>1. level > 1
    BY <1>4 DEF TokenInv, Trying
  <2>2. entityKey # 0 /\ TakenBelow(entries, entityKey, Value, Entity.kind, level)
    BY <2>1 DEF TokenInv, Trying
  <2> QED  BY <1>1, <1>2, <2>2
<1> QED  BY <1>3, <1>4

LEMMA LongerTokens ==
    ASSUME TokenInv, TryLonger
    PROVE  TokenInv'
<1>1. /\ stage = "scan" /\ Found /\ ~Replaced /\ Taken
      /\ level' = Longer /\ entityKey' = Key
      /\ UNCHANGED <<ringKey, mapFile, stage, entries, tokens, issued, payload, field, scanVars>>
  BY DEF TryLonger
<1>2. MapsResolve'
  BY <1>1 DEF TokenInv, MapsResolve, Stages, OneEntryEach
<1>3. FirstFree'
  <2>1. /\ ringKey' \in Nat \ {0} /\ entityKey' \in Nat \ {0}
        /\ \A t \in tokens : IsFirst(entries, t, entityKey')
    BY <1>1, KeyOfTokens DEF TokenInv, FirstFree
  <2> QED  BY <1>1, <2>1 DEF TokenInv, FirstFree
<1>4. Trying'
  <2>1. level \in Nat \ {0} /\ (level' = level \/ level' = level + 1)
    BY <1>1 DEF Longer, TokenInv, Trying
  <2>2. Value' = Value /\ Entity' = Entity /\ Found' = Found /\ Replaced' = Replaced
    BY <1>1 DEF Value, Slice, Text, Entity, Found, Replaced, scanVars
  <2>3. TakenBelow(entries, Key, Value, Entity.kind, level)
    BY KeyOfTokens
  <2>4. \E e \in entries : e.token = Try(Key, Value, Entity.kind, level) /\ e.value # Value
    BY <1>1 DEF Taken, Candidate, Try
  <2>5. TakenBelow(entries, Key, Value, Entity.kind, level + 1)
    <3> SUFFICES ASSUME NEW k \in 1..level
                 PROVE  \E e \in entries :
                          e.token = Try(Key, Value, Entity.kind, k) /\ e.value # Value
      BY <2>1 DEF TakenBelow
    <3>1. CASE k = level
      BY <2>4, <3>1
    <3>2. CASE k # level
      BY <2>1, <2>3, <3>2 DEF TakenBelow
    <3> QED  BY <3>1, <3>2
  <2>6. TakenBelow(entries, Key, Value, Entity.kind, level')
    BY <2>1, <2>3, <2>5
  <2> QED  BY <1>1, <2>1, <2>2, <2>6, KeyOfTokens DEF Trying
<1>5. OneTokenPerEntity'
  BY <1>1 DEF TokenInv, OneTokenPerEntity
<1> QED  BY <1>2, <1>3, <1>4, <1>5 DEF TokenInv

LEMMA TokenizeTokens ==
    ASSUME TokenInv, Tokenize
    PROVE  TokenInv'
<1> DEFINE e == [token |-> Candidate, value |-> Value, kind |-> Entity.kind]
<1>1. /\ stage = "scan" /\ stage' = "saveScan" /\ ~Taken /\ mapFile' = Torn
      /\ entries' = Put(entries, e) /\ tokens' = Put(tokens, e)
      /\ entityKey' = Key /\ level' = 1
      /\ UNCHANGED <<ringKey, issued>>
  BY DEF Tokenize
<1>2. /\ e.token = Candidate /\ e.value = Value /\ e.kind = Entity.kind
      /\ \A d \in entries : d.token = e.token => d.value = e.value
  BY <1>1 DEF Taken
<1>3. e.token = Try(Key, e.value, e.kind, level)
  BY <1>2 DEF Candidate, Try
<1> HIDE DEF e
<1>4. OneEntryEach(entries)
  BY DEF TokenInv, MapsResolve
<1>5. /\ OneEntryEach(entries') /\ Resolves(entries', e)
      /\ \A i : Resolves(entries, i) => Resolves(entries', i)
  BY <1>1, <1>2, <1>4, PutKeeps
<1>6. \A i, key : IsFirst(entries, i, key) => IsFirst(entries', i, key)
  BY <1>1, <1>2, <1>4, PutKeepsFirst
<1>7. \A t \in tokens' : t = e \/ t \in tokens
  BY <1>1 DEF Put
<1>8. IsFirst(entries', e, Key)
  <2>1. level \in Nat \ {0} /\ TakenBelow(entries, Key, e.value, e.kind, level)
    BY <1>2, KeyOfTokens DEF TokenInv, Trying
  <2>2. IsFirst(entries, e, Key)
    BY <1>3, <2>1 DEF IsFirst
  <2> QED  BY <1>6, <2>2
<1>9. MapsResolve'
  <2>1. \A t \in tokens' : Resolves(entries', t)
    BY <1>5, <1>7 DEF TokenInv, MapsResolve
  <2>2. \A i \in issued' : Resolves(entries', i)
    BY <1>1, <1>5 DEF TokenInv, MapsResolve
  <2> QED  BY <1>1, <1>5, <2>1, <2>2 DEF MapsResolve, Stages
<1>10. FirstFree'
  <2>1. Key \in Nat \ {0} /\ \A t \in tokens' : IsFirst(entries', t, Key)
    BY <1>6, <1>7, <1>8, KeyOfTokens
  <2>2. \A i \in issued' : IsFirst(entries', i, i.key)
    BY <1>1, <1>6 DEF TokenInv, FirstFree
  <2>3. ringKey' \in Nat \ {0}
    BY <1>1 DEF TokenInv, FirstFree
  <2> QED  BY <1>1, <2>1, <2>2, <2>3 DEF FirstFree
<1>11. Trying' /\ OneTokenPerEntity'
  BY <1>1 DEF TokenInv, Trying, OneTokenPerEntity
<1> QED  BY <1>9, <1>10, <1>11 DEF TokenInv

LEMMA FinishTokens ==
    ASSUME TokenInv, Finish
    PROVE  TokenInv'
<1>1. /\ stage = "fields" /\ stage' = "idle" /\ tokens' = {} /\ level' = 1
      /\ UNCHANGED <<ringKey, mapFile, entityKey, entries>>
  BY DEF Finish, Forget
<1>2. \/ issued' = issued
      \/ issued' = issued \cup {[token |-> e.token, value |-> e.value, kind |-> e.kind,
                                 key |-> entityKey] : e \in tokens}
  BY DEF Finish, Emit
<1>3. /\ mapFile = entries
      /\ OneEntryEach(entries)
      /\ \A i \in issued : Resolves(entries, i) /\ IsFirst(entries, i, i.key)
      /\ \A t \in tokens : Resolves(entries, t) /\ IsFirst(entries, t, entityKey)
  BY <1>1 DEF TokenInv, MapsResolve, FirstFree
<1>4. \A i \in issued' : Resolves(entries, i) /\ IsFirst(entries, i, i.key)
  <2> SUFFICES ASSUME NEW i \in issued', i \notin issued
               PROVE  Resolves(entries, i) /\ IsFirst(entries, i, i.key)
    BY <1>3
  <2>1. PICK t \in tokens : i = [token |-> t.token, value |-> t.value, kind |-> t.kind,
                                 key |-> entityKey]
    BY <1>2
  <2>2. i.token = t.token /\ i.value = t.value /\ i.kind = t.kind /\ i.key = entityKey
    BY <2>1
  <2>3. Resolves(entries, t) /\ IsFirst(entries, t, entityKey)
    BY <1>3
  <2> QED  BY <2>2, <2>3 DEF Resolves, IsFirst
<1>5. MapsResolve'
  BY <1>1, <1>3, <1>4 DEF MapsResolve, Stages
<1>6. FirstFree'
  BY <1>1, <1>3, <1>4 DEF TokenInv, FirstFree
<1>7. Trying'
  BY <1>1 DEF Trying
<1>8. OneTokenPerEntity'
  <2> SUFFICES ASSUME NEW i \in issued', NEW j \in issued',
                      i.key = j.key, i.value = j.value, i.kind = j.kind
               PROVE  i.token = j.token
    BY DEF OneTokenPerEntity
  <2> QED  BY <1>3, <1>4, FirstIsUnique
<1> QED  BY <1>5, <1>6, <1>7, <1>8 DEF TokenInv

LEMMA TokenStep ==
    ASSUME TokenInv, [Next]_vars
    PROVE  TokenInv'
<1>1. CASE Send
  <2>1. /\ stage = "idle" /\ stage' = "fields" /\ tokens' = {}
        /\ UNCHANGED <<ringKey, mapFile, entityKey, entries, level, issued>>
    BY <1>1 DEF Send
  <2>2. level = 1
    BY <2>1 DEF TokenInv, Trying
  <2> QED  BY <2>1, <2>2, QuietTokens
<1>2. CASE NextField
  <2>1. /\ stage = "fields" /\ stage' = "scan"
        /\ UNCHANGED <<ringKey, mapFile, entityKey, entries, tokens, level, issued>>
    BY <1>2 DEF NextField
  <2>2. level = 1
    BY <2>1 DEF TokenInv, Trying
  <2> QED  BY <2>1, <2>2, QuietTokens
<1>3. CASE FindEntities
  <2>1. /\ stage = "scan" /\ pending # {}
        /\ UNCHANGED <<ringKey, mapFile, entityKey, entries, stage, tokens, level, issued>>
    BY <1>3 DEF FindEntities, Visit, procVars
  <2>2. level = 1
    BY <2>1 DEF TokenInv, Trying, Found
  <2> QED  BY <2>1, <2>2, QuietTokens
<1>4. CASE FieldDone
  <2>1. /\ stage = "scan" /\ stage' = "fields" /\ Replaced
        /\ UNCHANGED <<ringKey, mapFile, entityKey, entries, tokens, level, issued>>
    BY <1>4 DEF FieldDone
  <2>2. level = 1
    BY <2>1 DEF TokenInv, Trying
  <2> QED  BY <2>1, <2>2, QuietTokens
<1>5. CASE UNCHANGED vars
  <2>1. /\ MapsResolve' = MapsResolve /\ OneTokenPerEntity' = OneTokenPerEntity
    BY <1>5 DEF vars, procVars, MapsResolve, OneTokenPerEntity
  <2>2. FirstFree' = FirstFree
    BY <1>5 DEF vars, procVars, FirstFree
  <2>3. Value' = Value /\ Entity' = Entity /\ Found' = Found /\ Replaced' = Replaced
    BY <1>5 DEF vars, procVars, Value, Slice, Text, Entity, Found, Replaced, scanVars
  <2>4. Trying' = Trying
    BY <1>5, <2>3 DEF vars, procVars, Trying
  <2> QED  BY <2>1, <2>2, <2>4 DEF TokenInv
<1> QED
  BY <1>1, <1>2, <1>3, <1>4, <1>5, BootTokens, SaveTokens, RotateTokens, CrashTokens,
     LongerTokens, TokenizeTokens, FinishTokens DEF Next, Sending

LEMMA TokensKept == Spec => []TokenInv
  BY TokenInit, TokenStep, PTL DEF Spec

\* Whatever was sent can be read again: a token that left stands in the map of
\* every later process for the one value it replaced, whatever crashes between
\* the two halves of a save, rotations and collisions there were.
THEOREM SentTokensResolve == Spec => []IssuedTokensResolve
<1>1. ASSUME TokenInv PROVE IssuedTokensResolve
  <2> SUFFICES ASSUME stage # "down", NEW i \in issued
               PROVE  {e.value : e \in {d \in entries : d.token = i.token}} = {i.value}
    BY DEF IssuedTokensResolve
  <2>1. PICK e \in entries : e.token = i.token /\ e.value = i.value
    BY <1>1 DEF TokenInv, MapsResolve, Resolves
  <2>2. \A d \in entries : d.token = i.token => d = e
    BY <1>1, <2>1 DEF TokenInv, MapsResolve, OneEntryEach
  <2> QED  BY <2>1, <2>2
<1> QED  BY <1>1, TokensKept, PTL

\* Under one key an entity has one token, in whichever order the values that
\* collide with it came.
THEOREM TokensAreStable == Spec => []OneTokenPerEntity
<1>1. ASSUME TokenInv PROVE OneTokenPerEntity
  BY <1>1 DEF TokenInv
<1> QED  BY <1>1, TokensKept, PTL

----------------------------------------------------------------------------
(* The texts.                                                              *)

\* The field in the scan is a text of the payload, whose matches lie in it.
FieldsInv ==
    /\ ScanInv
    /\ recognise \in Recognisers
    /\ stage \in {"fields", "scan", "saveScan"} => payload \in Payloads
    /\ todo \subseteq DOMAIN payload
    /\ DOMAIN kept = DOMAIN payload

LEMMA FieldsInit ==
    ASSUME Init
    PROVE  FieldsInv
<1>1. ScanInv
  <2>1. {} \in SUBSET {m \in Match : m.end <= 0} /\ StartWith(0, {})
    BY DEF Init
  <2> QED  BY <2>1, StartInv
<1>2. /\ recognise \in Recognisers /\ stage = "down" /\ todo = {}
      /\ kept = payload /\ sent = {}
  BY DEF Init
<1> QED  BY <1>1, <1>2 DEF FieldsInv

\* Steps that leave the texts alone.
LEMMA QuietFields ==
    ASSUME FieldsInv,
           stage' \in {"fields", "scan", "saveScan"} => stage \in {"fields", "scan", "saveScan"},
           UNCHANGED <<config, recognise, payload, todo, kept, scanVars, sent>>
    PROVE  FieldsInv'
<1>1. ScanInv' = ScanInv
  BY DEF scanVars, ScanInv, ScanTypeOK, ChosenApart, PiecesFit, RawBetween, Chosen, EndOf
<1> QED  BY <1>1 DEF FieldsInv

\* A call ends, or its process.
LEMMA ForgetFields ==
    ASSUME FieldsInv, Forget, Begin(0, {}), stage' \in {"down", "idle"},
           recognise' = recognise
    PROVE  FieldsInv'
<1>1. {} \in SUBSET {m \in Match : m.end <= 0}
  OBVIOUS
<1>2. ScanInv'
  BY <1>1, BeginInv
<1>3. payload' = Nothing /\ kept' = Nothing /\ todo' = {}
  BY DEF Forget
<1> QED  BY <1>2, <1>3 DEF FieldsInv

LEMMA NextFieldFields ==
    ASSUME FieldsInv, NextField
    PROVE  FieldsInv'
<1>1. PICK f \in todo : todo' = todo \ {f} /\ Begin(Len(payload[f]), recognise[payload[f]])
  BY DEF NextField
<1>2. /\ stage = "fields"
      /\ UNCHANGED <<config, recognise, payload, kept, sent>>
  BY DEF NextField
<1>3. payload \in Payloads /\ f \in DOMAIN payload /\ recognise \in Recognisers
  BY <1>1, <1>2 DEF FieldsInv
<1>4. /\ Len(payload[f]) \in Nat
      /\ \A m \in recognise[payload[f]] :
           m \in [start : Nat, end : 0..Len(payload[f]), kind : Kinds] /\ m.start < m.end
  BY <1>3, EgressAssumption
<1>5. recognise[payload[f]] \in SUBSET {m \in Match : m.end <= Len(payload[f])}
  <2> SUFFICES ASSUME NEW m \in recognise[payload[f]]
               PROVE  m \in Match /\ m.end <= Len(payload[f])
    OBVIOUS
  <2>1. m \in [start : Nat, end : 0..Len(payload[f]), kind : Kinds] /\ m.start < m.end
    BY <1>4
  <2> QED  BY <1>4, <2>1 DEF Match
<1>6. ScanInv'
  BY <1>1, <1>4, <1>5, BeginInv
<1> QED  BY <1>1, <1>2, <1>3, <1>6 DEF FieldsInv

LEMMA FieldsStep ==
    ASSUME FieldsInv, [Next]_vars
    PROVE  FieldsInv'
<1>1. CASE BootProcess \/ Save \/ RotateKeys \/ TryLonger \/ UNCHANGED vars
  <2>1. /\ stage' \in {"fields", "scan", "saveScan"} => stage \in {"fields", "scan", "saveScan"}
        /\ UNCHANGED <<config, recognise, payload, todo, kept, scanVars, sent>>
    BY <1>1 DEF BootProcess, Save, RotateKeys, TryLonger, vars, procVars
  <2> QED  BY <2>1, QuietFields
<1>2. CASE Crash
  <2>1. /\ Forget /\ Begin(0, {}) /\ stage' = "down" /\ recognise' = recognise
    BY <1>2 DEF Crash
  <2> QED  BY <2>1, ForgetFields
<1>3. CASE Finish
  <2>1. Forget /\ Begin(0, {}) /\ stage' = "idle" /\ recognise' = recognise
    BY <1>3 DEF Finish
  <2> QED  BY <2>1, ForgetFields
<1>4. CASE Send
  <2>1. /\ payload' \in Payloads /\ todo' \subseteq DOMAIN payload'
        /\ DOMAIN kept' = DOMAIN payload' /\ sent' = {}
        /\ UNCHANGED <<recognise, scanVars>>
    BY <1>4 DEF Send
  <2>2. ScanInv' = ScanInv
    BY <2>1 DEF scanVars, ScanInv, ScanTypeOK, ChosenApart, PiecesFit, RawBetween, Chosen, EndOf
  <2> QED  BY <2>1, <2>2 DEF FieldsInv
<1>5. CASE NextField
  BY <1>5, NextFieldFields
<1>6. CASE FindEntities
  <2>1. Visit /\ UNCHANGED <<config, recognise, stage, payload, todo, kept, sent>>
    BY <1>6 DEF FindEntities, procVars
  <2>2. ScanInv'
    BY <2>1, VisitInv DEF FieldsInv
  <2> QED  BY <2>1, <2>2 DEF FieldsInv
<1>7. CASE Tokenize
  <2>1. /\ Replace /\ stage = "scan"
        /\ UNCHANGED <<config, recognise, payload, todo, kept, sent>>
    BY <1>7 DEF Tokenize
  <2>2. ScanInv'
    BY <2>1, ReplaceInv DEF FieldsInv
  <2> QED  BY <2>1, <2>2 DEF FieldsInv
<1>8. CASE FieldDone
  <2>1. /\ stage = "scan" /\ DOMAIN kept' = DOMAIN kept
        /\ UNCHANGED <<config, recognise, payload, todo, scanVars, sent>>
    BY <1>8 DEF FieldDone
  <2>2. ScanInv' = ScanInv
    BY <2>1 DEF scanVars, ScanInv, ScanTypeOK, ChosenApart, PiecesFit, RawBetween, Chosen, EndOf
  <2> QED  BY <2>1, <2>2 DEF FieldsInv
<1> QED
  BY <1>1, <1>2, <1>3, <1>4, <1>5, <1>6, <1>7, <1>8 DEF Next, Sending

LEMMA FieldsKept == Spec => []FieldsInv
  BY FieldsInit, FieldsStep, PTL DEF Spec

\* What EntityScan promises of one text holds of every field the gateway sends
\* through the sanitizer: cut without loss, no match left whole.
THEOREM FieldsAreTiled == Spec => [](TilesText /\ NoMatchLeftWhole)
<1>1. FieldsInv => TilesText /\ NoMatchLeftWhole
  BY InvTiles, InvNoneWhole DEF FieldsInv
<1> QED  BY <1>1, FieldsKept, PTL

----------------------------------------------------------------------------
(* The types.                                                              *)

\* What the two invariants above leave open.
RestTyped ==
    /\ config \in Config
    /\ ringKey \in 1..MaxKey /\ entityKey \in 0..ringKey
    /\ payload \in Payloads \cup {Nothing}
    /\ level \in 1..(Slices + 1)
    /\ mapFile = Torn \/ mapFile \subseteq entries \/ stage = "down"

LEMMA RestInit ==
    ASSUME Init
    PROVE  RestTyped
<1>1. MaxKey \in Nat \ {0} /\ Slices \in Nat
  BY EgressAssumption
<1>2. /\ config \in Config /\ ringKey = 1 /\ entityKey = 0 /\ level = 1
      /\ payload = Nothing /\ stage = "down"
  BY ConfigAssumption DEF Init
<1> QED  BY <1>1, <1>2 DEF RestTyped

LEMMA RestStep ==
    ASSUME RestTyped, [Next]_vars
    PROVE  RestTyped'
<1>1. MaxKey \in Nat /\ Slices \in Nat
  BY EgressAssumption
<1>2. Key \in 1..ringKey
  BY <1>1 DEF RestTyped, Key
<1>3. CASE BootProcess
  BY <1>3 DEF BootProcess, Loaded, RestTyped
<1>4. CASE RotateKeys
  BY <1>1, <1>4 DEF RotateKeys, RestTyped
<1>5. CASE Crash
  <2>1. /\ payload' = Nothing /\ level' = 1 /\ stage' = "down" /\ entityKey' = 0
        /\ UNCHANGED <<config, ringKey>>
    BY <1>5 DEF Crash, Forget
  <2> QED  BY <1>1, <2>1 DEF RestTyped
<1>6. CASE Send
  BY <1>6 DEF Send, RestTyped
<1>7. CASE NextField \/ FindEntities \/ FieldDone
  BY <1>7 DEF NextField, FindEntities, FieldDone, procVars, RestTyped
<1>8. CASE TryLonger
  <2>1. level' \in 1..(Slices + 1)
    BY <1>1, <1>8 DEF TryLonger, Longer, RestTyped
  <2> QED  BY <1>1, <1>2, <1>8, <2>1 DEF TryLonger, RestTyped
<1>9. CASE Tokenize
  <2>1. /\ mapFile' = Torn /\ level' = 1 /\ entityKey' = Key
        /\ UNCHANGED <<config, ringKey, payload>>
    BY <1>9 DEF Tokenize
  <2> QED  BY <1>1, <1>2, <2>1 DEF RestTyped
<1>10. CASE Finish
  <2>1. /\ payload' = Nothing /\ level' = 1 /\ stage = "fields"
        /\ UNCHANGED <<config, ringKey, mapFile, entityKey, entries>>
    BY <1>10 DEF Finish, Forget
  <2> QED  BY <1>1, <2>1 DEF RestTyped
<1>11. CASE Save
  BY <1>11 DEF Save, RestTyped
<1>12. CASE UNCHANGED vars
  BY <1>12 DEF vars, procVars, RestTyped
<1> QED
  BY <1>3, <1>4, <1>5, <1>6, <1>7, <1>8, <1>9, <1>10, <1>11, <1>12 DEF Next, Sending

\* Keys and levels stay in their bounds, the fields at hand are those of the
\* payload, and what the file has the process has in memory: EntityMapStore is
\* never behind what it saved.
THEOREM EgressTyped == Spec => []EgressTypeOK
<1>1. Spec => []RestTyped
  BY RestInit, RestStep, PTL DEF Spec
<1>2. RestTyped /\ TokenInv /\ FieldsInv => EgressTypeOK
  BY DEF EgressTypeOK, RestTyped, TokenInv, MapsResolve, Stages, FieldsInv, ScanInv
<1> QED  BY <1>1, <1>2, TokensKept, FieldsKept, PTL

=============================================================================
