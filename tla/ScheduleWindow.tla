--------------------------- MODULE ScheduleWindow ---------------------------
(***************************************************************************)
(* The weekly windows of the bandwidth schedules: when one matches, which  *)
(* ranges of each day it covers and when two of them overlap.              *)
(***************************************************************************)
EXTENDS Integers

CONSTANTS
  DaysPerWeek,    \* 7 in the code
  MinutesPerDay   \* 1440 in the code

ASSUME CalendarAssumption == DaysPerWeek \in Nat \ {0} /\ MinutesPerDay \in Nat \ {0}

Days    == 0 .. DaysPerWeek - 1
Minutes == 0 .. MinutesPerDay - 1
Times   == [day : Days, minute : Minutes]

\* A rule's days_of_week, start_minute and end_minute.
WindowSet == [days : SUBSET Days \ {{}}, start : Minutes, end : Minutes]

DayAfter(day)  == IF day = DaysPerWeek - 1 THEN 0 ELSE day + 1
DayBefore(day) == IF day = 0 THEN DaysPerWeek - 1 ELSE day - 1

\* Mistake: the minutes after midnight are looked up under their own day.
MatchesSameDay(w, t) ==
  /\ t.day \in w.days
  /\ \/ w.start = w.end
     \/ w.start < w.end /\ w.start <= t.minute /\ t.minute < w.end
     \/ w.end < w.start /\ (w.start <= t.minute \/ t.minute < w.end)

\* scheduleMatches: a window whose ends are equal is the whole day; one that
\* ends before it starts runs past midnight and belongs to the day it starts.
ScheduleMatches(w, t) ==
  \/ w.start = w.end /\ t.day \in w.days
  \/ w.start < w.end /\ t.day \in w.days /\ w.start <= t.minute /\ t.minute < w.end
  \/ w.end < w.start /\ t.day \in w.days /\ w.start <= t.minute
  \/ w.end < w.start /\ DayBefore(t.day) \in w.days /\ t.minute < w.end

DayRange(day, start, end) == [day |-> day, start |-> start, end |-> end]

\* dayRanges: the window cut at midnight.
DayRanges(w) ==
  IF w.start = w.end THEN {DayRange(day, 0, MinutesPerDay) : day \in w.days}
  ELSE IF w.start < w.end THEN {DayRange(day, w.start, w.end) : day \in w.days}
  ELSE {DayRange(day, w.start, MinutesPerDay) : day \in w.days}
         \cup {DayRange(DayAfter(day), 0, w.end) : day \in w.days}

WindowsOverlap(a, b) ==
  \E r \in DayRanges(a), s \in DayRanges(b) :
    r.day = s.day /\ r.start < s.end /\ s.start < r.end
=============================================================================
