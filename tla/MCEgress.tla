------------------------------ MODULE MCEgress ------------------------------
(* Texts over two letters.  Of a text of three letters the recognisers find *)
(* any of four overlapping intervals, in one of another; the first slices of *)
(* the digests of "a" and "b" under the first key are the same.  One of the *)
(* payloads has its text once more as the key of a dictionary.              *)
EXTENDS Egress

A == <<"a">>
B == <<"b">>
ABA == <<"a", "b", "a">>

MCRank == [EMAIL |-> 1, NAME |-> 2]

Hit(s, e, k) == [start |-> s, end |-> e, kind |-> k]

Intervals == {Hit(0, 1, "NAME"), Hit(1, 2, "NAME"), Hit(0, 2, "EMAIL"), Hit(1, 3, "NAME")}

MCRecognisers ==
    {[t \in {B, ABA} |-> IF t = B THEN {Hit(0, 1, "NAME")} ELSE ms] : ms \in SUBSET Intervals}

MCPayloads == {[query |-> ABA], [query |-> B, facts_key |-> B], [query |-> ABA, facts |-> B]}

Cloud == [enabled |-> TRUE, cloud |-> TRUE, sanitize |-> TRUE, raw |-> FALSE, packet |-> TRUE]
MCConfigs == {Cloud, [Cloud EXCEPT !.sanitize = FALSE, !.raw = TRUE, !.packet = FALSE]}

MCDigest(key, value, kind) ==
    << IF key = 1 /\ value \in {A, B} THEN <<0, << >>, "">> ELSE <<key, value, kind>>,
       <<key, value, kind>> >>

============================================================================
