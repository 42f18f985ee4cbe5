-------------------------- MODULE RunSessionProofs --------------------------
(***************************************************************************)
(* For any rates, bounds and clocks: no two events of the listeners have   *)
(* one id, the rate changes no more often than the dwell time lets it, and *)
(* every frame is in one segment or still held.                            *)
(***************************************************************************)
EXTENDS RunSession, TLAPS

\* What bounds the numbers of the events l has put into the journal.
Bound(l) == IF at[l] = "append" THEN number[l] ELSE IF at[l] = "count" THEN number[l] + 1 ELSE val

\* Events of l whose append is done and whose increment is not.
Ahead(l) == IF at[l] = "count" THEN 1 ELSE 0

ListenersInv ==
    /\ at \in [Listeners -> {"off", "idle", "append", "count", "dead"}]
    /\ number \in [Listeners -> Nat] /\ val \in Nat
    /\ events \in Seq([who : Listeners, n : Nat])
    /\ main \in {"capture.start", "input.start"} => \A l \in Listeners : at[l] = "off"
    /\ \A l \in Listeners : at[l] \in {"append", "count"} => number[l] <= val
    /\ \A l \in Listeners : \A i \in DOMAIN events : events[i].who = l => events[i].n < Bound(l)
    /\ EventsCounted

\* Since the last change of the rate the clock has gone on by no more than the time
\* that passed and what it was set forward by; before the first, time enough has.
RateInv ==
    /\ fps \in Int /\ lastChange \in Nat /\ now \in Nat /\ held \in Nat /\ skipped \in Nat
    /\ \/ now - lastChange <= held + skipped
       \/ Hysteresis <= held + skipped

\* A step changes the rate after the dwell time only.
Dwells == fps' # fps => held + skipped >= Hysteresis

----------------------------------------------------------------------------

LEMMA ListenersInit ==
    ASSUME Init
    PROVE  ListenersInv
<1>1. /\ at = [l \in Listeners |-> "off"] /\ val = 0 /\ number = [l \in Listeners |-> 0]
      /\ events = << >>
  BY DEF Init, InputInit
<1>2. Len(events) = 0 /\ DOMAIN events = {}
  BY <1>1
<1> QED  BY <1>1, <1>2 DEF ListenersInv, EventsCounted, Listeners

LEMMA EventTypes ==
    ASSUME ListenersInv
    PROVE  /\ Len(events) \in Nat /\ DOMAIN events = 1..Len(events)
           /\ \A i \in DOMAIN events : events[i].who \in Listeners /\ events[i].n \in Nat
<1>1. events \in Seq([who : Listeners, n : Nat])
  BY DEF ListenersInv
<1>2. Len(events) \in Nat /\ DOMAIN events = 1..Len(events)
  BY <1>1
<1> DEFINE E == [who : Listeners, n : Nat]
<1>3. \A e \in E : e.who \in Listeners /\ e.n \in Nat
  OBVIOUS
<1> HIDE DEF E
<1>4. events \in Seq(E)
  BY <1>1 DEF E
<1>5. \A i \in 1..Len(events) : events[i] \in E
  BY <1>4
<1> QED  BY <1>2, <1>3, <1>5

\* Two threads: what a step of one leaves of the other.
LEMMA EventArrivesInv ==
    ASSUME ListenersInv, NEW l \in Listeners, EventArrives(l), main' = main
    PROVE  ListenersInv'
<1>1. /\ at[l] = "idle"
      /\ number' = [number EXCEPT ![l] = val] /\ at' = [at EXCEPT ![l] = "append"]
      /\ UNCHANGED <<val, events>>
  BY DEF EventArrives
<1>2. main' \notin {"capture.start", "input.start"}
  BY <1>1 DEF ListenersInv
<1>3. \A k \in Listeners : \A i \in DOMAIN events' :
        events'[i].who = k => events'[i].n < Bound(k)'
  BY <1>1 DEF ListenersInv, Bound
<1>4. EventsCounted'
  BY <1>1 DEF ListenersInv, EventsCounted, Listeners
<1> QED  BY <1>1, <1>2, <1>3, <1>4 DEF ListenersInv

LEMMA JournalEventInv ==
    ASSUME ListenersInv, NEW l \in Listeners, JournalEvent(l), main' = main
    PROVE  ListenersInv'
<1>1. /\ at[l] = "append"
      /\ events' = Append(events, [who |-> l, n |-> number[l]])
      /\ at' = [at EXCEPT ![l] = "count"]
      /\ UNCHANGED <<val, number>>
  BY DEF JournalEvent
<1>2. main' \notin {"capture.start", "input.start"}
  BY <1>1 DEF ListenersInv
<1>3. /\ events \in Seq([who : Listeners, n : Nat]) /\ Len(events) \in Nat
      /\ number[l] \in Nat /\ number[l] <= val
      /\ [who |-> l, n |-> number[l]] \in [who : Listeners, n : Nat]
  BY <1>1 DEF ListenersInv
<1>4. /\ events' \in Seq([who : Listeners, n : Nat])
      /\ Len(events') = Len(events) + 1 /\ DOMAIN events' = 1..(Len(events) + 1)
      /\ DOMAIN events = 1..Len(events)
      /\ events'[Len(events) + 1] = [who |-> l, n |-> number[l]]
      /\ \A i \in 1..Len(events) : events'[i] = events[i]
  BY <1>1, <1>3
<1>5. \A i \in 1..Len(events) : events[i].who = l => events[i].n < number[l]
  BY <1>1, <1>4 DEF ListenersInv, Bound
<1>6. \A k \in Listeners : \A i \in DOMAIN events' :
        events'[i].who = k => events'[i].n < Bound(k)'
  <2> SUFFICES ASSUME NEW k \in Listeners, NEW i \in 1..(Len(events) + 1), events'[i].who = k
               PROVE  events'[i].n < Bound(k)'
    BY <1>4
  <2>1. CASE k = l
    <3>1. Bound(k)' = number[l] + 1
      BY <1>1, <2>1 DEF Bound, ListenersInv
    <3>2. CASE i = Len(events) + 1
      BY <1>3, <1>4, <3>1, <3>2
    <3>3. CASE i # Len(events) + 1
      <4>1. i \in 1..Len(events)
        BY <1>3, <3>3
      <4>2. events'[i] = events[i] /\ events[i].n \in Nat
        BY <1>4, <4>1, EventTypes
      <4> QED  BY <1>3, <1>5, <2>1, <3>1, <4>1, <4>2
    <3> QED  BY <3>2, <3>3
  <2>2. CASE k # l
    <3>1. Bound(k)' = Bound(k)
      BY <1>1, <2>2 DEF Bound, ListenersInv
    <3>2. i # Len(events) + 1
      BY <1>4, <2>2
    <3>3. i \in 1..Len(events) /\ events'[i] = events[i]
      BY <1>3, <1>4, <3>2
    <3>4. \A j \in 1..Len(events) : events[j].who = k => events[j].n < Bound(k)
      BY EventTypes DEF ListenersInv
    <3>5. events[i].who = k
      BY <3>3
    <3> QED  BY <3>1, <3>3, <3>4, <3>5
  <2> QED  BY <2>1, <2>2
<1>7. EventsCounted'
  <2>1. \A i, j \in DOMAIN events' : i # j => events'[i] # events'[j]
    <3>1. \A i \in 1..Len(events) : events[i] # [who |-> l, n |-> number[l]]
      BY <1>3, <1>5
    <3>2. \A i, j \in 1..Len(events) : i # j => events[i] # events[j]
      BY <1>4 DEF ListenersInv, EventsCounted
    <3> SUFFICES ASSUME NEW i \in 1..(Len(events) + 1), NEW j \in 1..(Len(events) + 1), i # j
                 PROVE  events'[i] # events'[j]
      BY <1>4
    <3>3. CASE i = Len(events) + 1
      <4>1. j \in 1..Len(events)
        BY <1>3, <3>3
      <4> QED  BY <1>4, <3>1, <3>3, <4>1
    <3>4. CASE j = Len(events) + 1
      <4>1. i \in 1..Len(events)
        BY <1>3, <3>4
      <4> QED  BY <1>4, <3>1, <3>4, <4>1
    <3>5. CASE i # Len(events) + 1 /\ j # Len(events) + 1
      <4>1. i \in 1..Len(events) /\ j \in 1..Len(events)
        BY <1>3, <3>5
      <4> QED  BY <1>4, <3>2, <4>1
    <3> QED  BY <3>3, <3>4, <3>5
  <2>2. val' = Len(events') - (IF at'["key"] = "count" THEN 1 ELSE 0)
                            - (IF at'["mouse"] = "count" THEN 1 ELSE 0)
    <3>1. val = Len(events) - (IF at["key"] = "count" THEN 1 ELSE 0)
                            - (IF at["mouse"] = "count" THEN 1 ELSE 0)
      BY DEF ListenersInv, EventsCounted
    <3>2. at'[l] = "count" /\ \A k \in Listeners \ {l} : at'[k] = at[k]
      BY <1>1 DEF ListenersInv
    <3>3. CASE l = "key"
      BY <1>1, <1>3, <1>4, <3>1, <3>2, <3>3 DEF Listeners
    <3>4. CASE l = "mouse"
      BY <1>1, <1>3, <1>4, <3>1, <3>2, <3>4 DEF Listeners
    <3> QED  BY <3>3, <3>4 DEF Listeners
  <2> QED  BY <2>1, <2>2 DEF EventsCounted
<1>8. \A k \in Listeners : at'[k] \in {"append", "count"} => number'[k] <= val'
  BY <1>1, <1>3 DEF ListenersInv
<1> QED  BY <1>1, <1>2, <1>4, <1>6, <1>7, <1>8 DEF ListenersInv

LEMMA CountEventInv ==
    ASSUME ListenersInv, NEW l \in Listeners, CountEvent(l), main' = main
    PROVE  ListenersInv'
<1>1. /\ at[l] = "count" /\ val' = val + 1
      /\ at' = [at EXCEPT ![l] = IF halted THEN "off" ELSE "idle"]
      /\ UNCHANGED <<number, events>>
  BY DEF CountEvent, Counted
<1>2. main' \notin {"capture.start", "input.start"}
  BY <1>1 DEF ListenersInv
<1>3. number[l] \in Nat /\ number[l] <= val /\ val \in Nat
  BY <1>1 DEF ListenersInv
<1>4. \A k \in Listeners : \A i \in DOMAIN events' :
        events'[i].who = k => events'[i].n < Bound(k)'
  <2> SUFFICES ASSUME NEW k \in Listeners, NEW i \in DOMAIN events, events[i].who = k
               PROVE  events[i].n < Bound(k)'
    BY <1>1
  <2>1. events[i].n < Bound(k) /\ events[i].n \in Nat
    BY EventTypes DEF ListenersInv
  <2>2. CASE k = l
    BY <1>1, <1>3, <2>1, <2>2 DEF Bound, ListenersInv
  <2>3. CASE k # l
    BY <1>1, <1>3, <2>1, <2>3 DEF Bound, ListenersInv
  <2> QED  BY <2>2, <2>3
<1>5. EventsCounted'
  <2>1. at'[l] # "count" /\ \A k \in Listeners \ {l} : at'[k] = at[k]
    BY <1>1 DEF ListenersInv
  <2>2. Len(events) \in Nat
    BY EventTypes
  <2>3. /\ \A i, j \in DOMAIN events : i # j => events[i] # events[j]
        /\ val = Len(events) - (IF at["key"] = "count" THEN 1 ELSE 0)
                             - (IF at["mouse"] = "count" THEN 1 ELSE 0)
    BY DEF ListenersInv, EventsCounted
  <2>4. CASE l = "key"
    BY <1>1, <1>3, <2>1, <2>2, <2>3, <2>4 DEF EventsCounted, Listeners
  <2>5. CASE l = "mouse"
    BY <1>1, <1>3, <2>1, <2>2, <2>3, <2>5 DEF EventsCounted, Listeners
  <2> QED  BY <2>4, <2>5 DEF Listeners
<1>6. \A k \in Listeners : at'[k] \in {"append", "count"} => number'[k] <= val'
  BY <1>1, <1>3 DEF ListenersInv
<1> QED  BY <1>1, <1>2, <1>3, <1>4, <1>5, <1>6 DEF ListenersInv

\* A listener dies, the listeners begin or are told to stop: nobody gets to
\* append or count, and who was there stays or goes before the append.
LEMMA ListenersQuiet ==
    ASSUME ListenersInv, UNCHANGED <<val, number, events>>,
           at' \in [Listeners -> {"off", "idle", "append", "count", "dead"}],
           \A l \in Listeners :
               \/ at'[l] = at[l]
               \/ at'[l] \in {"off", "idle", "dead"} /\ at[l] # "count",
           main' \in {"capture.start", "input.start"} => \A l \in Listeners : at'[l] = "off"
    PROVE  ListenersInv'
<1>1. \A l \in Listeners : \A i \in DOMAIN events' :
        events'[i].who = l => events'[i].n < Bound(l)'
  <2> SUFFICES ASSUME NEW l \in Listeners, NEW i \in DOMAIN events, events[i].who = l
               PROVE  events[i].n < Bound(l)'
    OBVIOUS
  <2>1. events[i].n < Bound(l) /\ events[i].n \in Nat
    BY EventTypes DEF ListenersInv
  <2>2. CASE at'[l] = at[l]
    BY <2>1, <2>2 DEF Bound
  <2>3. CASE at'[l] \in {"off", "idle", "dead"} /\ at[l] # "count"
    BY <2>1, <2>3 DEF Bound, ListenersInv
  <2> QED  BY <2>2, <2>3
<1>2. \A l \in Listeners : at'[l] = "count" <=> at[l] = "count"
  OBVIOUS
<1>3. EventsCounted'
  BY <1>2 DEF ListenersInv, EventsCounted, Listeners
<1> QED  BY <1>1, <1>3 DEF ListenersInv

LEMMA ListenersStep ==
    ASSUME ListenersInv, [Next]_vars
    PROVE  ListenersInv'
<1>1. ASSUME NEW l \in Listeners, Listener(l), main' = main PROVE ListenersInv'
  <2>1. CASE JournalRefuses(l)
    <3>1. /\ at[l] = "append" /\ at' = [at EXCEPT ![l] = "dead"]
          /\ UNCHANGED <<val, number, events>>
      BY <2>1 DEF JournalRefuses
    <3> QED  BY <1>1, <3>1, ListenersQuiet DEF ListenersInv
  <2> QED  BY <1>1, <2>1, EventArrivesInv, JournalEventInv, CountEventInv DEF Listener
<1>2. CASE StartBoth
  <2>1. CASE main = "capture.start"
    BY <1>2, <2>1, ListenersQuiet DEF StartBoth, inputVars, ListenersInv
  <2>2. CASE main = "input.start"
    <3>1. /\ StartListeners /\ main' = "running"
          /\ \A l \in Listeners : at[l] = "off"
      BY <1>2, <2>2 DEF StartBoth, ListenersInv
    <3>2. /\ UNCHANGED <<val, number, events>>
          /\ \A l \in Listeners : at'[l] \in {"off", "idle"}
          /\ at' \in [Listeners -> {"off", "idle", "append", "count", "dead"}]
      BY <3>1 DEF StartListeners
    <3> QED  BY <3>1, <3>2, ListenersQuiet
  <2> QED  BY <1>2, <2>1, <2>2 DEF StartBoth
<1>3. CASE Stop
  <2>1. /\ UNCHANGED <<val, number, events>>
        /\ \/ at' = at
           \/ at' = [l \in Listeners |-> IF at[l] = "idle" THEN "off" ELSE at[l]]
        /\ main' \notin {"capture.start", "input.start"}
    BY <1>3 DEF Stop, StopListeners, inputVars
  <2>2. CASE at' = at
    BY <2>1, <2>2, ListenersQuiet DEF ListenersInv
  <2>3. CASE at' = [l \in Listeners |-> IF at[l] = "idle" THEN "off" ELSE at[l]]
    <3>1. at' \in [Listeners -> {"off", "idle", "append", "count", "dead"}]
      BY <2>3 DEF ListenersInv
    <3> QED  BY <2>1, <2>3, <3>1, ListenersQuiet
  <2> QED  BY <2>1, <2>2, <2>3
<1>4. CASE UNCHANGED <<main, inputVars>>
  BY <1>4, ListenersQuiet DEF inputVars, ListenersInv
<1> QED
  BY <1>1, <1>2, <1>3, <1>4 DEF Next, vars

\* However the keyboard and the mouse listener overtake each other between the
\* read of the shared counter and its increment, no event gets another's id.
THEOREM EventsAreCounted == Spec => []EventsCounted
<1>1. ListenersInv => EventsCounted
  BY DEF ListenersInv
<1> QED  BY <1>1, ListenersInit, ListenersStep, PTL DEF Spec

----------------------------------------------------------------------------

LEMMA RateInit ==
    ASSUME Init
    PROVE  RateInv
<1>1. fps = FpsTarget /\ lastChange = 0 /\ now = 0 /\ held = Hysteresis /\ skipped = 0
  BY DEF Init, CaptureInit
<1> QED  BY <1>1, CaptureAssumption DEF RateInv

LEMMA ReadClockInv ==
    ASSUME RateInv, ReadClock, UNCHANGED <<fps, lastChange>>
    PROVE  RateInv'
<1>1. PICK pause \in 0..MaxPause :
        held' = held + pause /\ skipped' = skipped + Most(0, now' - now - pause)
  BY DEF ReadClock
<1>2. PICK t : t = now'
  OBVIOUS
<1>3. PICK n, c, h, k : n = now /\ c = lastChange /\ h = held /\ k = skipped
  OBVIOUS
<1>4. /\ t \in Nat /\ n \in Nat /\ c \in Nat /\ h \in Nat /\ k \in Nat
      /\ pause \in Nat /\ Hysteresis \in Nat
      /\ fps' \in Int /\ lastChange' = c
  BY <1>2, <1>3, CaptureAssumption DEF ReadClock, RateInv
<1>5. PICK a : a = Most(0, t - n - pause)
  OBVIOUS
<1>6. a \in Nat /\ t - n <= pause + a
  BY <1>4, <1>5 DEF Most
<1>7. held' = h + pause /\ skipped' = k + a
  BY <1>1, <1>2, <1>3, <1>5
<1>8. n - c <= h + k => t - c <= (h + pause) + (k + a)
  BY <1>4, <1>6
<1>9. Hysteresis <= h + k => Hysteresis <= (h + pause) + (k + a)
  BY <1>4, <1>6
<1>10. n - c <= h + k \/ Hysteresis <= h + k
  BY <1>3 DEF RateInv
<1>11. (h + pause) + (k + a) = held' + skipped' /\ t - c = now' - lastChange'
  BY <1>2, <1>4, <1>7
<1>12. held' \in Nat /\ skipped' \in Nat /\ now' \in Nat /\ lastChange' \in Nat
  BY <1>2, <1>4, <1>6, <1>7
<1>13. now' - lastChange' <= held' + skipped' \/ Hysteresis <= held' + skipped'
  BY <1>8, <1>9, <1>10, <1>11
<1> QED  BY <1>4, <1>12, <1>13 DEF RateInv

LEMMA AdjustRateInv ==
    ASSUME RateInv, AdjustRate
    PROVE  RateInv' /\ Dwells
<1> DEFINE depth == Len(frames)
<1>1. /\ \/ UNCHANGED <<fps, lastChange>>
         \/ /\ ~(now - lastChange < Hysteresis)
            /\ fps' = IF depth > MaxQueue THEN Most(MinFps, fps - StepFps)
                      ELSE IF depth = 0 THEN Least(MaxFps, fps + StepFps) ELSE fps
            /\ lastChange' = Changed(depth)
      /\ IF fps' = fps THEN UNCHANGED <<held, skipped>> ELSE held' = 0 /\ skipped' = 0
      /\ now' = now
  BY DEF AdjustRate
<1>2. /\ Hysteresis \in Nat /\ MinFps \in Nat /\ MaxFps \in Nat /\ StepFps \in Nat
      /\ fps \in Int /\ lastChange \in Nat /\ now \in Nat /\ held \in Nat /\ skipped \in Nat
  BY CaptureAssumption DEF RateInv
<1>3. CASE UNCHANGED <<fps, lastChange>>
  BY <1>1, <1>3 DEF RateInv, Dwells
<1>4. CASE /\ ~(now - lastChange < Hysteresis)
           /\ fps' = IF depth > MaxQueue THEN Most(MinFps, fps - StepFps)
                     ELSE IF depth = 0 THEN Least(MaxFps, fps + StepFps) ELSE fps
           /\ lastChange' = Changed(depth)
  <2>1. /\ fps' \in Int
        /\ lastChange' = now \/ (lastChange' = lastChange /\ fps' = fps)
    BY <1>2, <1>4 DEF Changed, Most, Least
  <2>2. Hysteresis <= held + skipped
    BY <1>2, <1>4 DEF RateInv
  <2>3. CASE fps' = fps
    BY <1>1, <1>2, <2>1, <2>2, <2>3 DEF RateInv, Dwells
  <2>4. CASE fps' # fps
    BY <1>1, <1>2, <2>1, <2>2, <2>4 DEF RateInv, Dwells
  <2> QED  BY <2>3, <2>4
<1> QED  BY <1>1, <1>3, <1>4

LEMMA RateStep ==
    ASSUME RateInv, [Next]_vars
    PROVE  RateInv' /\ Dwells
<1>1. CASE AdjustRate
  BY <1>1, AdjustRateInv
<1>2. CASE UNCHANGED <<fps, lastChange>> /\ (ReadClock \/ UNCHANGED <<now, held, skipped>>)
  <2>1. CASE ReadClock
    BY <1>2, <2>1, ReadClockInv DEF Dwells
  <2>2. CASE UNCHANGED <<now, held, skipped>>
    BY <1>2, <2>2 DEF RateInv, Dwells
  <2> QED  BY <1>2, <2>1, <2>2
<1>3. [Next]_vars => \/ AdjustRate
                     \/ UNCHANGED <<fps, lastChange>> /\ (ReadClock \/ UNCHANGED <<now, held, skipped>>)
  BY DEF Next, StartBoth, Stop, StartCapture, SetStopFlag, CaptureThread, NextFrame,
         FlushSegment, FlushRefused, Listener, vars, captureVars
<1> QED  BY <1>1, <1>2, <1>3

\* For any clock, set back or forward at any frame: two changes of the rate are the
\* dwell time apart, less what the clock was set forward by in between.
THEOREM TogglesAreBounded == Spec => BoundedToggles
<1>1. RateInv /\ [Next]_vars => [fps' # fps => held + skipped >= Hysteresis]_captureVars
  BY RateStep DEF Dwells
<1> QED  BY <1>1, RateInit, RateStep, PTL DEF Spec, BoundedToggles

----------------------------------------------------------------------------
(* The frames.                                                             *)

Segment == [n : Nat, frames : Seq(Nat)]

\* A segment that is to be flushed has a frame in it.
FramesInv ==
    /\ shot \in Nat /\ frames \in Seq(Nat) /\ segments \in Seq(Segment)
    /\ sequence = Len(segments)
    /\ pc = "flush" => frames # << >>
    /\ FramesAccounted

LEMMA FramesInit ==
    ASSUME Init
    PROVE  FramesInv
<1>1. shot = 0 /\ frames = << >> /\ segments = << >> /\ sequence = 0 /\ pc = "off"
  BY DEF Init, CaptureInit
<1>2. Len(segments) = 0 /\ Len(frames) = 0 /\ DOMAIN segments = {} /\ DOMAIN frames = {}
  BY <1>1
<1> QED  BY <1>1, <1>2 DEF FramesInv, FramesAccounted, LastIn, Follow

LEMMA LastFrameTyped ==
    ASSUME FramesInv
    PROVE  LastIn(segments, Len(segments)) \in Nat
<1>1. segments \in Seq(Segment) /\ Len(segments) \in Nat /\ DOMAIN segments = 1..Len(segments)
  BY DEF FramesInv
<1>2. CASE Len(segments) = 0
  BY <1>2 DEF LastIn
<1>3. CASE Len(segments) # 0
  <2>1. PICK s \in Segment : s = segments[Len(segments)] /\ s.frames # << >>
    BY <1>1, <1>3 DEF FramesInv, FramesAccounted
  <2>2. s.frames \in Seq(Nat)
    BY DEF Segment
  <2>3. PICK fs \in Seq(Nat) : fs = s.frames /\ fs # << >>
    BY <2>1, <2>2
  <2>4. Len(fs) \in 1..Len(fs) /\ DOMAIN fs = 1..Len(fs)
    BY <2>3
  <2>5. fs[Len(fs)] \in Nat
    BY <2>3, <2>4
  <2> QED  BY <1>3, <2>1, <2>3, <2>5 DEF LastIn
<1> QED  BY <1>2, <1>3

LEMMA NextFrameInv ==
    ASSUME FramesInv, NextFrame
    PROVE  FramesInv'
<1>1. segments' = segments /\ sequence' = sequence
  BY DEF NextFrame
<1>2. CASE stop
  BY <1>1, <1>2 DEF NextFrame, FramesInv, FramesAccounted
<1>3. CASE ~stop
  <2>1. shot' = shot + 1 /\ frames' = Append(frames, shot + 1)
    BY <1>3 DEF NextFrame
  <2>2. shot \in Nat /\ frames \in Seq(Nat)
    BY DEF FramesInv
  <2>3. /\ frames' \in Seq(Nat) /\ Len(frames) \in Nat
        /\ Len(frames') = Len(frames) + 1 /\ DOMAIN frames' = 1..(Len(frames) + 1)
        /\ DOMAIN frames = 1..Len(frames)
        /\ frames'[Len(frames) + 1] = shot + 1
        /\ \A i \in 1..Len(frames) : frames'[i] = frames[i]
    BY <2>1, <2>2
  <2>4. PICK last \in Nat : last = LastIn(segments, Len(segments))
    BY LastFrameTyped
  <2>5. Follow(frames, last) /\ shot = last + Len(frames)
    BY <2>4 DEF FramesInv, FramesAccounted
  <2>6. Follow(frames', last)
    <3> SUFFICES ASSUME NEW i \in 1..(Len(frames) + 1)
                 PROVE  frames'[i] = last + i
      BY <2>3 DEF Follow
    <3>1. CASE i = Len(frames) + 1
      BY <2>3, <2>5, <3>1
    <3>2. CASE i # Len(frames) + 1
      <4>1. i \in 1..Len(frames)
        BY <2>3, <3>2
      <4> QED  BY <2>3, <2>5, <4>1 DEF Follow
    <3> QED  BY <3>1, <3>2
  <2>7. shot' = last + Len(frames')
    BY <2>1, <2>2, <2>3, <2>5
  <2>8. frames' # << >>
    <3>1. Len(frames') # 0 /\ Len(<< >>) = 0
      BY <2>3
    <3> QED  BY <3>1
  <2>9. FramesAccounted'
    BY <1>1, <2>4, <2>6, <2>7 DEF FramesInv, FramesAccounted
  <2>10. segments' \in Seq(Segment) /\ sequence' = Len(segments')
    BY <1>1 DEF FramesInv
  <2>11. shot' \in Nat
    BY <2>1, <2>2
  <2> QED  BY <2>3, <2>8, <2>9, <2>10, <2>11 DEF FramesInv
<1> QED  BY <1>2, <1>3

LEMMA FlushSegmentInv ==
    ASSUME FramesInv, FlushSegment
    PROVE  FramesInv'
<1> DEFINE item == [n |-> sequence, frames |-> frames]
           len == Len(segments)
<1>1. /\ segments' = Append(segments, item) /\ frames' = << >> /\ sequence' = sequence + 1
      /\ pc' = "adjust" /\ shot' = shot /\ pc = "flush"
  BY DEF FlushSegment, NewBuffer
<1>2. /\ frames \in Seq(Nat) /\ segments \in Seq(Segment) /\ frames # << >>
      /\ sequence = len
  BY <1>1 DEF FramesInv
<1>3. len \in Nat /\ Len(frames) \in Nat \ {0} /\ DOMAIN frames = 1..Len(frames)
  BY <1>2
<1>4. item \in Segment /\ item.n = len /\ item.frames = frames
  BY <1>2, <1>3 DEF Segment
<1> HIDE DEF item
<1>5. /\ segments' \in Seq(Segment)
      /\ Len(segments') = len + 1 /\ DOMAIN segments' = 1..(len + 1)
      /\ DOMAIN segments = 1..len
      /\ segments'[len + 1] = item
      /\ \A i \in 1..len : segments'[i] = segments[i]
  BY <1>1, <1>2, <1>4
<1>6. \A n \in 0..len : LastIn(segments', n) = LastIn(segments, n)
  BY <1>3, <1>5 DEF LastIn
<1>7. Follow(frames, LastIn(segments, len)) /\ shot = LastIn(segments, len) + Len(frames)
  BY DEF FramesInv, FramesAccounted
<1>8. LastIn(segments', len + 1) = shot
  <2>1. LastIn(segments', len + 1) = frames[Len(frames)]
    BY <1>3, <1>4, <1>5 DEF LastIn
  <2>2. Len(frames) \in DOMAIN frames
    BY <1>3
  <2> QED  BY <1>7, <2>1, <2>2 DEF Follow
<1>9. ASSUME NEW n \in 1..(len + 1)
      PROVE  /\ segments'[n].n = n - 1 /\ segments'[n].frames # << >>
             /\ Follow(segments'[n].frames, LastIn(segments', n - 1))
  <2>1. CASE n = len + 1
    <3>1. n - 1 = len /\ n - 1 \in 0..len
      BY <1>3, <2>1
    <3> QED  BY <1>2, <1>4, <1>5, <1>6, <1>7, <2>1, <3>1
  <2>2. CASE n # len + 1
    <3>1. n \in 1..len /\ n - 1 \in 0..len
      BY <1>3, <2>2
    <3>2. segments'[n] = segments[n] /\ LastIn(segments', n - 1) = LastIn(segments, n - 1)
      BY <1>5, <1>6, <3>1
    <3>3. /\ segments[n].n = n - 1 /\ segments[n].frames # << >>
          /\ Follow(segments[n].frames, LastIn(segments, n - 1))
      BY <1>5, <3>1 DEF FramesInv, FramesAccounted
    <3> QED  BY <3>2, <3>3
  <2> QED  BY <2>1, <2>2
<1>10. Len(frames') = 0 /\ DOMAIN frames' = {} /\ frames' \in Seq(Nat)
  BY <1>1
<1>11. Follow(frames', LastIn(segments', Len(segments')))
  BY <1>10 DEF Follow
<1>12. shot \in Nat
  BY DEF FramesInv
<1>13. shot' = LastIn(segments', Len(segments')) + Len(frames')
  BY <1>1, <1>5, <1>8, <1>10, <1>12
<1>14. FramesAccounted'
  BY <1>5, <1>9, <1>11, <1>13 DEF FramesAccounted
<1> QED  BY <1>1, <1>2, <1>5, <1>10, <1>12, <1>14 DEF FramesInv

LEMMA FramesStep ==
    ASSUME FramesInv, [Next]_vars
    PROVE  FramesInv'
<1>1. CASE UNCHANGED <<shot, frames, segments, sequence>> /\ (pc' = pc \/ pc' # "flush")
  BY <1>1 DEF FramesInv, FramesAccounted
<1>2. [Next]_vars => \/ NextFrame \/ FlushSegment
                     \/ UNCHANGED <<shot, frames, segments, sequence>> /\ (pc' = pc \/ pc' # "flush")
  BY DEF Next, StartBoth, Stop, StartCapture, SetStopFlag, CaptureThread,
         FlushRefused, AdjustRate, vars, captureVars
<1> QED  BY <1>1, <1>2, NextFrameInv, FlushSegmentInv

\* For any clock and any length of a segment: a frame is written once, in order,
\* or is among those held when the thread ends (_run_loop's buffer).
THEOREM FramesAreAccounted == Spec => []FramesAccounted
<1>1. FramesInv => FramesAccounted
  BY DEF FramesInv
<1> QED  BY <1>1, FramesInit, FramesStep, PTL DEF Spec

=============================================================================
