------------------------------ MODULE MCGuard ------------------------------
(* One thread (every command but `run`, and the plugin host) nests calls;   *)
(* two are enough for the interleavings of `run`'s sampling threads, whose  *)
(* calls are denied ones: of the builtin plugins only the gateway has the   *)
(* network, and no sampler calls it.                                        *)
EXTENDS NetworkGuard

CONSTANTS capture, audio

OneThread == {capture}
TwoThreads == {capture, audio}

============================================================================
