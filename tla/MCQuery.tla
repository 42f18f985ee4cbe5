------------------------------ MODULE MCQuery ------------------------------
(* A segment that shows two wordings to OCR only, captured again by another run, *)
(* and a window without a title.  Days of two hours; the user lives two hours    *)
(* east, and the clocks go forward at instant 3.  The windows are checked in     *)
(* zones that go forward or back in either hour of a day.                        *)
EXTENDS Query

CONSTANTS Film, Win, P1, P2

Word == "word"
Plain == [wording |-> Word, said |-> << >>]
Yesterday == [wording |-> "yesterday", said |-> [p \in {"yesterday"} |-> 0]]

MCShots(id) == IF id = Film THEN 2 ELSE 1
MCAsks(p) == IF p = P1 THEN {Yesterday} ELSE {Plain}
MCAt(id, n) == IF id = Film THEN 2 * n - 1 ELSE 2
MCVision(id, n) == Fails
MCOcr(id, n) == IF id = Film THEN IF n = 1 THEN {Word, "yesterday"} ELSE {Word} ELSE NoText
MCTitles == {NoText}

MCZone == [at |-> 3, before |-> 2, after |-> 3]
MCZones == {MCZone} \cup [at : {5, 6}, before : {2}, after : {1, 3}]
MCInstants == -4..14

============================================================================
