----------------------------- MODULE RunSession -----------------------------
(***************************************************************************)
(* The capture loop and the input listeners in one process of `autocapture *)
(* run` (cli.py cmd_run, which starts and stops the audio and the window   *)
(* sampler next to them: see Evidence).                                    *)
(***************************************************************************)
EXTENDS CaptureLoop, InputTracker

VARIABLE main          \* where cmd_run is

vars == <<main, captureVars, inputVars>>

Init == CaptureInit /\ InputInit /\ main = "capture.start"

StartBoth ==
    \/ /\ main = "capture.start" /\ StartCapture
       /\ main' = "input.start"
       /\ UNCHANGED inputVars
    \/ /\ main = "input.start" /\ StartListeners
       /\ main' = "running"
       /\ UNCHANGED captureVars

\* Ctrl+C: capture.stop() sets the flag and waits for the thread, or for five
\* seconds; then input.stop().  The process ends and takes the threads with it.
Stop ==
    \/ /\ main = "running" /\ SetStopFlag
       /\ main' = "capture.join"
       /\ UNCHANGED inputVars
    \/ /\ main = "capture.join" /\ StopListeners
       /\ main' = "stopped"
       /\ UNCHANGED captureVars
    \/ /\ main = "stopped"
       /\ main' = "gone"
       /\ UNCHANGED <<captureVars, inputVars>>

Alive == main # "gone"

Next ==
    \/ StartBoth \/ Stop
    \/ Alive /\ CaptureThread /\ UNCHANGED <<main, inputVars>>
    \/ Alive /\ (\E l \in Listeners : Listener(l)) /\ UNCHANGED <<main, captureVars>>

Spec == Init /\ [][Next]_vars

============================================================================
