----------------------------- MODULE MCTrading -----------------------------
(* Thanksgiving 2024 for Trading: a session, a holiday, a half day, a      *)
(* weekend and two sessions.                                               *)
EXTENDS Trading

Thanksgiving == DayOf(2024, 11, 28)
DayBefore == Thanksgiving - 1
TuesdayAfter == Thanksgiving + 5
NoneOrTwoDays == <<0, 2 * SlotsOfDay>>
=============================================================================
