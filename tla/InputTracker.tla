---------------------------- MODULE InputTracker ----------------------------
(***************************************************************************)
(* The keyboard and the mouse listener of plugins/builtin/input_windows:   *)
(* two threads of pynput that call back into on_key_press and on_click,    *)
(* which share the counter seq without a lock.  Between the reading of the *)
(* counter and the increment lies the append to the journal.  (The         *)
(* increment itself is a few bytecodes without a call, in which CPython    *)
(* 3.10 and later do not switch threads.)                                  *)
(***************************************************************************)
EXTENDS Naturals, Sequences

CONSTANTS Mode,        \* capture.input_tracking.mode: "raw", "off", ...
          MaxEvents    \* BOUND on the events of the journal

Listeners == {"key", "mouse"}

VARIABLES
    at,                \* [Listeners -> off, idle, append, count or dead]
    halted,            \* the listeners were told to stop
    val,               \* seq["val"]
    number,            \* [Listeners -> the number its event has been given]
    events             \* the input events of the journal: [who, n]

inputVars == <<at, halted, val, number, events>>

InputInit ==
    /\ at = [l \in Listeners |-> "off"] /\ halted = FALSE
    /\ val = 0 /\ number = [l \in Listeners |-> 0] /\ events = << >>

\* start()
StartListeners ==
    /\ at' = [l \in Listeners |-> IF Mode = "off" THEN "off" ELSE "idle"]
    /\ UNCHANGED <<halted, val, number, events>>

\* The callback is entered and builds its entry.
EventArrives(l) ==
    /\ at[l] = "idle" /\ Len(events) < MaxEvents
    /\ number' = [number EXCEPT ![l] = val]
    /\ at' = [at EXCEPT ![l] = "append"]
    /\ UNCHANGED <<halted, val, events>>

JournalEvent(l) ==
    /\ at[l] = "append"
    /\ events' = Append(events, [who |-> l, n |-> number[l]])
    /\ at' = [at EXCEPT ![l] = "count"]
    /\ UNCHANGED <<halted, val, number>>

\* The append raises: pynput ends the listener, and the counter stays.
JournalRefuses(l) ==
    /\ at[l] = "append"
    /\ at' = [at EXCEPT ![l] = "dead"]
    /\ UNCHANGED <<halted, val, number, events>>

\* Mutation of Counted: the number read before the append is increased.
CountedFromRead(l) == number[l] + 1

\* seq["val"] += 1
Counted(l) == val + 1

CountEvent(l) ==
    /\ at[l] = "count"
    /\ val' = Counted(l)
    /\ at' = [at EXCEPT ![l] = IF halted THEN "off" ELSE "idle"]
    /\ UNCHANGED <<halted, number, events>>

\* stop(): the listeners are told, not waited for.
StopListeners ==
    /\ halted' = TRUE
    /\ at' = [l \in Listeners |-> IF at[l] = "idle" THEN "off" ELSE at[l]]
    /\ UNCHANGED <<val, number, events>>

Listener(l) == EventArrives(l) \/ JournalEvent(l) \/ JournalRefuses(l) \/ CountEvent(l)

----------------------------------------------------------------------------
(* Properties.                                                             *)

\* However the listeners overtake each other, no event_id (key_<n>, mouse_<n>) is
\* given twice in a session, and the counter has counted every event but those in
\* between.  The `sequence` of an event is <n> alone: one of the keyboard and one of
\* the mouse may have the same.
EventsCounted ==
    /\ \A i, j \in DOMAIN events : i # j => events[i] # events[j]
    /\ val = Len(events) - (IF at["key"] = "count" THEN 1 ELSE 0)
                         - (IF at["mouse"] = "count" THEN 1 ELSE 0)

============================================================================
