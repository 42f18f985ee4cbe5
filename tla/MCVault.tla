------------------------------ MODULE MCVault ------------------------------
(* One process over a small vault, for TLC: three keys are a first key and *)
(* two rotations, the second of which finds what a crash in the first left. *)
EXTENDS VaultRefinement

============================================================================
