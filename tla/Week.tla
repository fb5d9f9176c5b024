--------------------------------- MODULE Week --------------------------------
(* The calendar of the weekly roundup: the week it covers (social/selector.py) *)
(* and when its loop fires (social_weekly_cron.py).  Time 0 is a Monday,       *)
(* 00:00 UTC; a unit is as fine as the clock.                                  *)
EXTENDS Integers

CONSTANTS
    Day,      \* units in a day
    Second,   \* units in a second
    FireDay,  \* DESK_SOCIAL_WEEKLY_DAY, 0 for Monday
    FireAt    \* DESK_SOCIAL_WEEKLY_AT, in units since midnight

WeekAssumption ==
    /\ {Day, Second} \subseteq Nat \ {0} /\ Second <= Day
    /\ FireDay \in 0 .. 6
    /\ FireAt \in 0 .. Day - Second

WeekLen == 7 * Day

Today(t) == t \div Day
Weekday(t) == Today(t) % 7

\* week_window_for: from Monday of the week before, 00:00:00, to its Sunday, 23:59:59.
WindowStart(t) == (Today(t) - (Weekday(t) + 7)) * Day
WindowEnd(t) == WindowStart(t) + WeekLen - Second
InWindow(ko, t) == WindowStart(t) <= ko /\ ko <= WindowEnd(t)

\* _next_fire
Candidate(t) == (Today(t) + ((FireDay - Weekday(t)) % 7)) * Day + FireAt
NextFire(t) == IF Candidate(t) <= t THEN Candidate(t) + WeekLen ELSE Candidate(t)

\* Whole seconds, and at least one.
SleepLen(t) ==
    LET left == (NextFire(t) - t) \div Second IN (IF left > 1 THEN left ELSE 1) * Second
=============================================================================
