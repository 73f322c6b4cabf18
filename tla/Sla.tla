-------------------------------- MODULE Sla --------------------------------
(***************************************************************************)
(* The calendar of the service levels: minutes are counted from Monday to  *)
(* Friday between two hours of the day, holidays excluded. An instant is a *)
(* natural number of units, Minute of which make a minute, from 0:00 of a  *)
(* Sunday.                                                                 *)
(***************************************************************************)
EXTENDS Naturals, FiniteSets

CONSTANTS Minute,                      \* units in a minute
          Day,                         \* units in a day
          BUSINESS_START, BUSINESS_END,\* opening and closing, in units from 0:00
          Holidays,                    \* days that are closed
          MaxStart, MaxMinutes         \* bounds of what is asked

ASSUME CalendarAssumption ==
    /\ Minute \in Nat \ {0} /\ Day \in Nat \ {0}
    /\ BUSINESS_START \in Nat /\ BUSINESS_END \in Nat
    /\ BUSINESS_START < BUSINESS_END /\ BUSINESS_END < Day
    /\ (BUSINESS_END - BUSINESS_START) % Minute = 0
    /\ MaxStart \in Nat /\ MaxMinutes \in Nat
    \* No month goes by without an open day: after a holiday comes one.
    /\ Holidays \subseteq Nat
    /\ \A h \in Holidays : \E k \in 1..27 : (h + k) % 7 \in 1..5 /\ h + k \notin Holidays

VARIABLE asked      \* a deadline: [start, minutes]

DayOf(d) == d \div Day
isBusinessDay(d) == (DayOf(d) % 7) \in 1..5 /\ DayOf(d) \notin Holidays
startOfBusinessDay(d) == DayOf(d) * Day + BUSINESS_START
endOfBusinessDay(d) == DayOf(d) * Day + BUSINESS_END
nextDay(d) == (DayOf(d) + 1) * Day + BUSINESS_START

\* The instants looked at one after the other, and whether the search stops at one. At most
\* 31 are looked at; the next one is taken as it is.
Candidate(d, i) == IF i = 0 THEN d ELSE (DayOf(d) + i) * Day + BUSINESS_START
StopsAt(d, i) == LET c == Candidate(d, i) IN isBusinessDay(c) /\ c < endOfBusinessDay(c)
nextBusinessInstant(d) ==
    IF \A i \in 0..30 : ~StopsAt(d, i) THEN Candidate(d, 31)
    ELSE LET c == Candidate(d, CHOOSE i \in 0..30 :
                                 StopsAt(d, i) /\ \A j \in 0..(i - 1) : ~StopsAt(d, j))
         IN  IF c < startOfBusinessDay(c) THEN startOfBusinessDay(c) ELSE c

\* From an open instant. A day gives its whole minutes.
Available(cursor) == (endOfBusinessDay(cursor) - cursor) \div Minute
Advance[cursor \in Nat] ==
    [remaining \in Nat |->
        IF remaining = 0 THEN cursor
        ELSE IF remaining <= Available(cursor) THEN cursor + remaining * Minute
        ELSE Advance[nextBusinessInstant(nextDay(cursor))][remaining - Available(cursor)]]

\* A plausible bug: a start outside the opening hours is not moved to the next one.
addBusinessMinutes_Wrong(start, minutes) ==
    IF start < startOfBusinessDay(start) THEN Advance[start][minutes]
    ELSE Advance[nextBusinessInstant(start)][minutes]
addBusinessMinutes(start, minutes) == Advance[nextBusinessInstant(start)][minutes]

SlaInit == asked \in [start : 0..MaxStart, minutes : {0}]
\* The same request under a longer target.
Lengthen == asked.minutes < MaxMinutes /\ asked' = [asked EXCEPT !.minutes = @ + 1]
SlaSpec == SlaInit /\ [][Lengthen]_asked

-----------------------------------------------------------------------------
IsOpen(t) == isBusinessDay(t) /\ startOfBusinessDay(t) <= t /\ t < endOfBusinessDay(t)
OpenBetween(s, t) == Cardinality({u \in s..(t - 1) : IsOpen(u)})

\* A deadline leaves exactly the minutes of its target open after the start, but for
\* the part of a minute that the first day cannot give; a longer target is never due
\* earlier; and it never falls before the minutes have passed on the clock, which is
\* what the engine relies on (addBusinessMinutes).
DeadlineLeavesItsMinutes ==
    LET due == addBusinessMinutes(asked.start, asked.minutes)
        open == OpenBetween(asked.start, due)
    IN  /\ asked.minutes * Minute <= open
        /\ open < (asked.minutes + 1) * Minute
        /\ asked.start + asked.minutes * Minute <= due
        /\ due <= addBusinessMinutes(asked.start, asked.minutes + 1)
        /\ IsOpen(due) \/ due = endOfBusinessDay(due)
=============================================================================
