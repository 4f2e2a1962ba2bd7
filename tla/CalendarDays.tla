---------------------------- MODULE CalendarDays ----------------------------
(***************************************************************************)
(* The loop lives through the calendar, day after day, past its last one:  *)
(* it is started (agent/startup.py asks for coverage), reconciles with the *)
(* trailing sessions (agent/daytrade.py), books what was filled with its   *)
(* settlement (agent/ledger.py) and, once the market has closed, asks when *)
(* it opens next (agent/run_loop.py).  A question outside the table raises *)
(* out of the loop.                                                        *)
(***************************************************************************)
EXTENDS MarketCalendar, Sequences

CONSTANTS Modes, Past
ASSUME DaysAssumption == Past \in Nat  \* days looked at past the table

VARIABLES
    day,     \* today
    mode,    \* the mode the loop is configured for
    loop,    \* "down", "up", or "raised": stopped by an uncovered question
    begun,   \* the last sessions that opened, oldest first
    settles  \* when the fills of the last of them settle

vars == <<day, mode, loop, begun, settles>>
Window == 5                          \* _WINDOW_SESSIONS

IsSession(d) == Covered(d) /\ IsTradingDay(d)
Newest(s) == s[Len(s)]
Extended(s, d) == IF Len(s) < Window THEN Append(s, d) ELSE Append(Tail(s), d)

Init ==
    /\ day = FirstDay /\ mode \in Modes /\ loop = "down"
    /\ begun = <<>> /\ settles = Uncovered

Dawns(d) ==
    /\ day' = d
    /\ begun' = IF IsSession(d) THEN Extended(begun, d) ELSE begun
    /\ settles' = IF IsSession(d) THEN SettlementDate(d) ELSE settles
NextDay ==
    /\ day < LastDay + Past
    /\ Dawns(day + 1)
    /\ UNCHANGED <<mode, loop>>

StartLoop ==
    /\ loop # "up"
    /\ Coverage(mode, day) # "refused"
    /\ loop' = "up"
    /\ UNCHANGED <<day, mode, begun, settles>>
StopLoop == loop = "up" /\ loop' = "down" /\ UNCHANGED <<day, mode, begun, settles>>

\* A cycle in which an order was filled reads the lots.
BookFill ==
    /\ loop = "up" /\ ExercisesCalendar(mode) /\ IsSession(day)
    /\ SettlementDate(day) = Uncovered
    /\ loop' = "raised"
    /\ UNCHANGED <<day, mode, begun, settles>>
\* seconds_until_next_session_open, when the market is closed.
AskNextOpen ==
    /\ loop = "up"
    /\ NextTradingDay(day) = Uncovered
    /\ loop' = "raised"
    /\ UNCHANGED <<day, mode, begun, settles>>

-----------------------------------------------------------------------------
(***************************************************************************)
(* The exchange's rules, against which the table was verified.             *)
(***************************************************************************)
Weekdays(y, m, from, to, w) ==
    {d \in DayOf(y, m, from)..DayOf(y, m, to) : Weekday(d) = w}
The(S) == CHOOSE d \in S : TRUE
Monday(y, m, from) == The(Weekdays(y, m, from, from + 6, 0))
Thanksgiving(y) == The(Weekdays(y, 11, 22, 28, 3))
Easter(y) ==
    LET d == (19 * (y % 19) + 24) % 30
        e == (2 * (y % 4) + 4 * (y % 7) + 6 * d + 5) % 7
        late == e = 6 /\ (d = 29 \/ (d = 28 /\ y % 19 > 10))
    IN DayOf(y, 3, 22) + d + e - IF late THEN 7 ELSE 0
\* A Saturday holiday is observed the day before, a Sunday one the day after.
Observed(d) == CASE Weekday(d) = 5 -> d - 1 [] Weekday(d) = 6 -> d + 1 [] OTHER -> d
\* A Saturday New Year would close the last day of the year before: it does not.
NewYear(y) == IF Weekday(DayOf(y, 1, 1)) = 5 THEN {} ELSE {Observed(DayOf(y, 1, 1))}

ClosuresOf(y) ==
    NewYear(y) \cup
    {Monday(y, 1, 15), Monday(y, 2, 15), Easter(y) - 2, Monday(y, 5, 25),
     Observed(DayOf(y, 6, 19)), Observed(DayOf(y, 7, 4)), Monday(y, 9, 1), Thanksgiving(y),
     Observed(DayOf(y, 12, 25))}
Closures == UNION {ClosuresOf(y) : y \in Years}
Opens(d) == Weekday(d) < 5 /\ d \notin Closures
HalfDays ==
    {Thanksgiving(y) + 1 : y \in Years}
        \cup {d \in UNION {{DayOf(y, 7, 3), DayOf(y, 12, 24)} : y \in Years} : Opens(d)}

Next == NextDay \/ StartLoop \/ StopLoop \/ BookFill \/ AskNextOpen
Spec == Init /\ [][Next]_vars

-----------------------------------------------------------------------------
\* The table opens the market exactly on the days the exchange's rules do, and ends
\* early exactly on its half days: fifty-odd dates typed by hand (market_calendar.py:164).
CalendarFollowsRules ==
    Covered(day) => /\ IsTradingDay(day) <=> Opens(day)
                    /\ IsEarlyClose(day) <=> day \in HalfDays

\* The window a day-trade count looks at is the last five sessions that opened, today's
\* included, on a session, a weekend or a holiday alike (daytrade.py:74).
WindowIsTheLastFive ==
    Covered(day) /\ Len(begun) = Window =>
        TrailingSessions(day, Window) = {begun[i] : i \in 1..Window}

\* The settlement date given to a fill of one session is the day the next session opens,
\* across every weekend and holiday of the table (market_calendar.py:379).
SettlesAtTheNextSession ==
    [][day' # day /\ IsSession(day') /\ begun # <<>> => settles = day']_vars

\* The end of the table shows as a refusal or a warning of the startup, never as an error
\* out of a running loop (market_calendar.py:219, the docstring of the startup check).
EndShowsAtStartup == loop # "raised"
=============================================================================
