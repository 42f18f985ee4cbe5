----------------------------- MODULE TimeIntent -----------------------------
(***************************************************************************)
(* The parser of time phrases (plugins/builtin/time_advanced): which       *)
(* window of UTC instants a query speaks of.                               *)
(*                                                                         *)
(* Instants and wall times are counted in hours, a day has Day of them.  A *)
(* zone goes over once from one UTC offset to another, at an instant: what *)
(* zoneinfo knows of it around one DST change.  Of a query's text only the *)
(* time phrases in it are kept.                                            *)
(***************************************************************************)
EXTENDS Integers

CONSTANTS Day,         \* hours of a day (24 in the code)
          Zones,       \* zones: [at, before, after]
          Instants     \* the instants the properties are checked at

\* No day begins within the time a change of the clocks skips or repeats; it may
\* begin or end where that time does.
ASSUME TimeAssumption ==
    /\ Day \in Nat \ {0} /\ Instants \subseteq Int
    /\ Zones \subseteq [at : Int, before : Int, after : Int]
    /\ \A z \in Zones :
         LET old == z.at + z.before
             new == z.at + z.after
         IN /\ old < new => (new - 1) \div Day = old \div Day
            /\ new < old => (old - 1) \div Day = new \div Day

Offset(z, t) == IF t < z.at THEN z.before ELSE z.after
Wall(z, t) == t + Offset(z, t)
DateOf(z, t) == Wall(z, t) \div Day

\* The fold of an aware datetime: 1 when its wall time comes for the second time.
Fold(z, t) == IF t >= z.at /\ Wall(z, t) - z.before < z.at THEN 1 ELSE 0

\* datetime.replace(tzinfo, fold).astimezone(utc): the offset is the one under
\* which the wall time exists; if both or neither fit, fold says which.
Instant(z, wall, fold) ==
    LET first == wall - z.before
        second == wall - z.after
    IN IF (first < z.at) # (second >= z.at)
       THEN IF first < z.at THEN first ELSE second
       ELSE IF fold = 0 THEN first ELSE second

\* now.replace(hour=0, minute=0, second=0, microsecond=0): the fold of now stays.
Midnight(z, now) == DateOf(z, now) * Day

\* Mutation of DaysAfter: a day later is Day hours later.
DaysAfterInHours(z, now, n) == Instant(z, Midnight(z, now), Fold(z, now)) + n * Day

\* Adding days to an aware datetime moves its wall time and forgets its fold.
DaysAfter(z, now, n) ==
    Instant(z, Midnight(z, now) + n * Day, IF n = 0 THEN Fold(z, now) ELSE 0)

\* What a query may say, in the order the parser asks.
Phrases == <<"today", "yesterday", "tomorrow", "between", "last", "date", "hour">>
None == << >>           \* no time window

\* said: a function from the phrases found in the text to their numbers.
Heard(said) ==
    CHOOSE i \in DOMAIN Phrases :
        Phrases[i] \in DOMAIN said /\ \A j \in 1..(i - 1) : Phrases[j] \notin DOMAIN said

Window(from, to) == [start |-> from, end |-> to]

\* TimeIntentParser.parse under the tie breaker tie (0: earliest, 1: latest).
Parse(said, now, z, tie) ==
    IF DOMAIN said = {} THEN None
    ELSE LET phrase == Phrases[Heard(said)]
             arg == said[phrase]
             day(n) == Instant(z, n * Day, tie)
         IN CASE phrase = "today" -> Window(DaysAfter(z, now, 0), DaysAfter(z, now, 1))
              [] phrase = "yesterday" -> Window(DaysAfter(z, now, -1), DaysAfter(z, now, 0))
              [] phrase = "tomorrow" -> Window(DaysAfter(z, now, 1), DaysAfter(z, now, 2))
              [] phrase = "between" -> Window(day(arg[1]), day(arg[2] + 1))
              [] phrase = "last" -> Window(now - arg, now)
              [] phrase = "date" -> Window(day(arg), day(arg) + Day)
              [] phrase = "hour" ->
                   LET start == Instant(z, arg[1] * Day + arg[2], tie)
                   IN Window(start, start + 1)

----------------------------------------------------------------------------
(* What a window should be.                                                *)

\* The window is exactly the instants at which the zone's calendar shows one of
\* the days from first to last.
IsDays(w, z, first, last) ==
    \A t \in Instants : (w.start <= t /\ t < w.end) <=> DateOf(z, t) \in first..last

\* today, yesterday, tomorrow and between ... and ..., asked at now, name calendar
\* days, of 23, 24 or 25 hours, also where midnight is skipped.  Asked in an hour
\* that comes for the second time, today keeps that fold, hence the condition.
LocalDays(z, now) ==
    LET d == DateOf(z, now)
        parse(phrase, arg) == Parse([p \in {phrase} |-> arg], now, z, 0)
    IN /\ Fold(z, now) = 0 =>
            /\ IsDays(parse("today", 0), z, d, d)
            /\ IsDays(parse("yesterday", 0), z, d - 1, d - 1)
            /\ IsDays(parse("tomorrow", 0), z, d + 1, d + 1)
       /\ \A n \in 0..2 : IsDays(parse("between", <<d, d + n>>), z, d, d + n)

\* The instants at which that holds in all zones.
GoodHours == {now \in Instants : \A z \in Zones : LocalDays(z, now)}

============================================================================
