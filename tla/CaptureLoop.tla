----------------------------- MODULE CaptureLoop -----------------------------
(***************************************************************************)
(* The loop of the capture thread (plugins/builtin/capture_windows         *)
(* _run_loop) over iter_screenshots, with the rate that                    *)
(* plugins/builtin/backpressure_basic proposes after every frame.  What a  *)
(* flushed segment goes through is Evidence's subject; here it is written  *)
(* or it is not.                                                           *)
(*                                                                         *)
(* A frame is its number.  The clock is time.time(): it may be set, back   *)
(* or forward.  The time that really passes is kept beside it, for the     *)
(* dwell time of the rate.                                                 *)
(***************************************************************************)
EXTENDS Integers, Sequences

CONSTANTS
    SegmentSeconds, FpsTarget,                   \* capture.video
    MinFps, MaxFps, StepFps, MaxQueue,           \* backpressure
    Hysteresis,                                  \* backpressure.hysteresis_s
    MaxNow, MaxPause, MaxFrames                  \* BOUNDS: the clock, the time between
                                                 \* two frames, the frames

ASSUME CaptureAssumption ==
    /\ SegmentSeconds \in Nat /\ Hysteresis \in Nat
    /\ MaxNow \in Nat /\ MaxPause \in Nat /\ MaxFrames \in Nat
    /\ FpsTarget \in Nat /\ MinFps \in Nat /\ MaxFps \in Nat /\ StepFps \in Nat /\ MaxQueue \in Nat

VARIABLES
    pc, stop,          \* where the thread is; its stop Event
    shot,              \* frames taken
    frames,            \* the frames of the segment being filled
    segments,          \* the segments flushed: [n, frames]
    sequence, segmentStart, fps,
    now,               \* the clock when the last frame was taken
    lastChange,        \* BackpressureController._last_change
    held,              \* history: time that has passed since the rate last changed
    skipped            \* history: by how much the clock was set forward since then

captureVars ==
    <<pc, stop, shot, frames, segments, sequence, segmentStart, fps, now, lastChange, held, skipped>>

CaptureInit ==
    /\ pc = "off" /\ stop = FALSE
    /\ shot = 0 /\ frames = << >> /\ segments = << >>
    /\ sequence = 0 /\ segmentStart = 0 /\ fps = FpsTarget /\ now = 0
    /\ lastChange = 0 /\ held = Hysteresis /\ skipped = 0

\* start(): a new thread, unless there is one.
StartCapture ==
    /\ pc = "off"
    /\ pc' = "loop" /\ stop' = FALSE /\ segmentStart' \in 0..MaxNow
    /\ UNCHANGED <<shot, frames, segments, sequence, fps, now, lastChange, held, skipped>>

\* The stop flag of stop().
SetStopFlag ==
    /\ stop' = TRUE
    /\ UNCHANGED <<pc, shot, frames, segments, sequence, segmentStart, fps, now,
                   lastChange, held, skipped>>

Least(a, b) == IF a < b THEN a ELSE b
Most(a, b) == IF a > b THEN a ELSE b

\* time.time() after some time, in which the clock may have been set.
ReadClock ==
    /\ now' \in 0..MaxNow
    /\ \E pause \in 0..MaxPause :
         /\ held' = held + pause
         /\ skipped' = skipped + Most(0, now' - now - pause)

\* The next screenshot.  With the stop flag set it is thrown away and the thread
\* ends, with the frames it still holds.
NextFrame ==
    /\ pc = "loop"
    /\ IF stop
       THEN pc' = "ended" /\ UNCHANGED <<shot, frames, now, held, skipped>>
       ELSE /\ shot < MaxFrames
            /\ shot' = shot + 1 /\ frames' = Append(frames, shot + 1)
            /\ ReadClock
            /\ pc' = IF now' - segmentStart >= SegmentSeconds THEN "flush" ELSE "adjust"
    /\ UNCHANGED <<stop, segments, sequence, segmentStart, fps, lastChange>>

\* Mutation of NewBuffer: the buffer is kept.
NewBufferKept == frames

\* frames = []
NewBuffer == << >>

\* The disk is not full: _flush_segment, and the next segment begins.
FlushSegment ==
    /\ pc = "flush"
    /\ segments' = Append(segments, [n |-> sequence, frames |-> frames])
    /\ frames' = NewBuffer /\ sequence' = sequence + 1 /\ segmentStart' = now
    /\ pc' = "adjust"
    /\ UNCHANGED <<stop, shot, fps, now, lastChange, held, skipped>>

\* The disk is full, or a store, the journal or the ledger raises.
FlushRefused ==
    /\ pc = "flush"
    /\ pc' = "ended"
    /\ stop' \in {stop, TRUE}
    /\ UNCHANGED <<shot, frames, segments, sequence, segmentStart, fps, now,
                   lastChange, held, skipped>>

\* Mutation of Changed: raising the rate is not remembered.
ChangedDown(depth) == IF depth > MaxQueue THEN now ELSE lastChange

\* _last_change = now, whether or not the rate was at its limit.
Changed(depth) == IF depth > MaxQueue \/ depth = 0 THEN now ELSE lastChange

\* BackpressureController.adjust, whose queue depth is the frames held.  (The bit
\* rate is 8000 in every call and its result dropped.)  iter_screenshots was given
\* the first fps and never sees another.
AdjustRate ==
    /\ pc = "adjust"
    /\ LET depth == Len(frames)
       IN IF now - lastChange < Hysteresis
          THEN UNCHANGED <<fps, lastChange>>
          ELSE /\ fps' = IF depth > MaxQueue THEN Most(MinFps, fps - StepFps)
                         ELSE IF depth = 0 THEN Least(MaxFps, fps + StepFps) ELSE fps
               /\ lastChange' = Changed(depth)
    /\ IF fps' = fps THEN UNCHANGED <<held, skipped>> ELSE held' = 0 /\ skipped' = 0
    /\ pc' = "loop"
    /\ UNCHANGED <<stop, shot, frames, segments, sequence, segmentStart, now>>

CaptureThread == NextFrame \/ FlushSegment \/ FlushRefused \/ AdjustRate

----------------------------------------------------------------------------
(* Properties.                                                             *)

\* The last frame in the first n segments of s.
LastIn(s, n) == IF n = 0 THEN 0 ELSE s[n].frames[Len(s[n].frames)]

\* fs are the frames that were taken after frame k.
Follow(fs, k) == \A i \in DOMAIN fs : fs[i] = k + i

\* Every frame taken is in exactly one segment, in order, or among those held
\* since the last flush; the segments are numbered without gap, so that none
\* replaces another.  The frames held when the thread ends are lost without a
\* trace, and this permits it: it says that no others are.
FramesAccounted ==
    /\ \A n \in DOMAIN segments :
         /\ segments[n].n = n - 1 /\ segments[n].frames # << >>
         /\ Follow(segments[n].frames, LastIn(segments, n - 1))
    /\ Follow(frames, LastIn(segments, Len(segments)))
    /\ shot = LastIn(segments, Len(segments)) + Len(frames)

\* "minimum dwell time per setting (hysteresis)" (docs/
\* autocapture_nx_blueprint_final.md:650): in the time that really passes, two
\* changes of the rate are Hysteresis seconds apart.  The code measures that with
\* the clock it is given: set back it only makes the dwell time longer, but by as
\* much as it is set forward in between, the second change may come too early.
BoundedToggles == [][fps' # fps => held + skipped >= Hysteresis]_captureVars

============================================================================
