--------------------------- MODULE MarketCalendar ---------------------------
(***************************************************************************)
(* The NYSE calendar of agent/market_calendar.py: a table of closures and  *)
(* half days for five years, and the walks over it that every other part   *)
(* asks (sessions before a date, the next session, the settlement of a     *)
(* fill).  Outside the table the code raises instead of guessing; here the *)
(* answer is then Uncovered.                                               *)
(*                                                                         *)
(* A day is its distance from Monday, 1 January 2024.                      *)
(***************************************************************************)
EXTENDS Integers, FiniteSets

MIN_YEAR == 2024
MAX_YEAR == 2028
Years == MIN_YEAR..MAX_YEAR

IsLeap(y) == y % 4 = 0               \* no century falls in the range
YearStart(y) == 365 * (y - MIN_YEAR) + (y - MIN_YEAR + 3) \div 4
MonthStart(y, m) ==
    <<0, 31, 59, 90, 120, 151, 181, 212, 243, 273, 304, 334>>[m]
        + IF m > 2 /\ IsLeap(y) THEN 1 ELSE 0
DayOf(y, m, d) == YearStart(y) + MonthStart(y, m) + d - 1
Weekday(d) == d % 7                  \* 0 is Monday

FirstDay == 0
LastDay == DayOf(MAX_YEAR, 12, 31)
Days == FirstDay..LastDay
Uncovered == -1

HolidayTable == <<
    {<<1, 1>>, <<1, 15>>, <<2, 19>>, <<3, 29>>, <<5, 27>>, <<6, 19>>, <<7, 4>>, <<9, 2>>,
     <<11, 28>>, <<12, 25>>},
    {<<1, 1>>, <<1, 20>>, <<2, 17>>, <<4, 18>>, <<5, 26>>, <<6, 19>>, <<7, 4>>, <<9, 1>>,
     <<11, 27>>, <<12, 25>>},
    {<<1, 1>>, <<1, 19>>, <<2, 16>>, <<4, 3>>, <<5, 25>>, <<6, 19>>, <<7, 3>>, <<9, 7>>,
     <<11, 26>>, <<12, 25>>},
    {<<1, 1>>, <<1, 18>>, <<2, 15>>, <<3, 26>>, <<5, 31>>, <<6, 18>>, <<7, 5>>, <<9, 6>>,
     <<11, 25>>, <<12, 24>>},
    {<<1, 17>>, <<2, 21>>, <<4, 14>>, <<5, 29>>, <<6, 19>>, <<7, 4>>, <<9, 4>>, <<11, 23>>,
     <<12, 25>>} >>
EarlyCloseTable == <<
    {<<7, 3>>, <<11, 29>>, <<12, 24>>},
    {<<7, 3>>, <<11, 28>>, <<12, 24>>},
    {<<11, 27>>, <<12, 24>>},
    {<<11, 26>>},
    {<<7, 3>>, <<11, 24>>} >>
DatesOf(table) ==
    UNION {{DayOf(y, h[1], h[2]) : h \in table[y - MIN_YEAR + 1]} : y \in Years}

\* mutant: a Saturday New Year observed on the Friday before, as the table once had it
HolidaysOfASaturdayNewYear == DatesOf(HolidayTable) \cup {DayOf(2027, 12, 31)}

Holidays == DatesOf(HolidayTable)
EarlyCloses == DatesOf(EarlyCloseTable)

Covered(d) == d \in Days             \* _check_range
IsTradingDay(d) == Weekday(d) < 5 /\ d \notin Holidays
IsEarlyClose(d) == d \in EarlyCloses

-----------------------------------------------------------------------------
(***************************************************************************)
(* The walks.  They stop at the sessions they look for, which no closure   *)
(* of the table puts further than Reach days away.                         *)
(***************************************************************************)
Reach == 15

TrailingSessions(d, n) ==
    LET Sessions(from) == {s \in from..d : s >= FirstDay /\ IsTradingDay(s)}
        Enough == {k \in (d - Reach)..d : Cardinality(Sessions(k)) = n}
    IN IF ~Covered(d) \/ Enough = {} THEN {Uncovered}
       ELSE Sessions(CHOOSE k \in Enough : TRUE)

NextTradingDay(d) ==
    LET after == {s \in (d + 1)..(d + Reach) : Covered(s) /\ IsTradingDay(s)}
    IN IF ~Covered(d) \/ after = {} THEN Uncovered
       ELSE CHOOSE s \in after : \A r \in after : s <= r

\* mutant: the next weekday, whether or not the market opens on it
SettlementDateByWeekday(d) ==
    IF ~Covered(d) \/ ~IsTradingDay(d) THEN Uncovered
    ELSE IF Weekday(d) = 4 THEN d + 3 ELSE d + 1

\* T+1, and only a session has fills.
SettlementDate(d) == IF Covered(d) /\ IsTradingDay(d) THEN NextTradingDay(d) ELSE Uncovered

(***************************************************************************)
(* Instants: four slots a day, before the open, until the hour a half day  *)
(* closes, until the regular close, and after it.                          *)
(***************************************************************************)
SlotsOfDay == 4
Date(t) == t \div SlotsOfDay         \* session_for_instant
OpenOf(d) == d * SlotsOfDay + 1
CloseOf(d) == d * SlotsOfDay + IF IsEarlyClose(d) THEN 2 ELSE 3
InSessionAt(t) == IsTradingDay(Date(t)) /\ OpenOf(Date(t)) <= t /\ t < CloseOf(Date(t))
SettlementInstant(t) ==
    LET d == SettlementDate(Date(t)) IN IF d = Uncovered THEN Uncovered ELSE OpenOf(d)

\* assert_calendar_coverage_at_startup
ExpiryWarningDays == 90
ExercisesCalendar(mode) == mode \in {"PAPER", "PRODUCTION_ACTIVE"}
Coverage(mode, today) ==
    IF today > LastDay THEN IF ExercisesCalendar(mode) THEN "refused" ELSE "warned"
    ELSE IF today >= LastDay - ExpiryWarningDays THEN "warned" ELSE "silent"
=============================================================================
