---------------------------- MODULE MCEvidence ----------------------------
(* Two processes of either kind, one after the other or at once; each `run` *)
(* takes up to MaxSamples samples, of any of the samplers, and a `keys      *)
(* rotate` rewraps every file there is.                                     *)
EXTENDS Evidence

CONSTANTS run, keys

MCProcs == {run, keys}

============================================================================
