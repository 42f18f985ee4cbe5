---------------------------- MODULE RecordStore ----------------------------
(***************************************************************************)
(* What the encrypted vault promises to the code that stores evidence in   *)
(* it, with no key, file or rotation in sight: a record reads as the value *)
(* last put into it, the entity map only gains tokens, and the one thing   *)
(* that loses a record is the death of the process -- at most the record   *)
(* being written at that moment, or all of them if the keyring was.        *)
(***************************************************************************)
CONSTANTS Records,     \* record ids of the metadata and of the media store
          EntityMap,   \* the entity map, one record of its own
          Values, Tokens,
          Absent,      \* what a record never written reads as
          Lost         \* what a record that can no longer be read reads as

VARIABLES val,         \* what each record reads as
          up           \* the process that owns the vault is running

Items == Records \cup {EntityMap}

Init ==
    /\ val = [r \in Items |-> IF r = EntityMap THEN {} ELSE Absent]
    /\ up = FALSE

Start == ~up /\ up' = TRUE /\ UNCHANGED val

Put(r, v) ==
    /\ up
    /\ val' = [val EXCEPT ![r] = v]
    /\ UNCHANGED up

AddToken(t) ==
    /\ up
    /\ val[EntityMap] # Lost
    /\ val' = [val EXCEPT ![EntityMap] = @ \cup {t}]
    /\ UNCHANGED up

Stored == {r \in Items : val[r] \notin {Absent, {}}}

Die ==
    /\ up
    /\ up' = FALSE
    /\ \E S \in SUBSET Items :
         /\ (\A r, s \in S : r = s) \/ Stored \subseteq S
         /\ val' = [r \in Items |-> IF r \in S THEN Lost ELSE val[r]]

Next ==
    \/ Start
    \/ \E r \in Records, v \in Values : Put(r, v)
    \/ \E t \in Tokens : AddToken(t)
    \/ Die

Spec == Init /\ [][Next]_<<val, up>>

============================================================================
