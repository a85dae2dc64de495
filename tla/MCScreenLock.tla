---------------------------- MODULE MCScreenLock ----------------------------
EXTENDS ScreenLockInvariant, TLC

CONSTANT r1

EveryDay == 0 .. Week - 1
Hours(start, end, days) == [start |-> start, end |-> end, days |-> days]
Due(start, end, days) == [start |-> start, end |-> end, days |-> days, routine |-> r1]
Household(allow, windows, daily, play, rest) ==
  [allow |-> allow, windows |-> windows, daily |-> daily, play |-> play, rest |-> rest]

\* A day of four slots.  A curfew and a meter; a routine due on one day of two;
\* sittings inside a curfew that ends at midnight; and hours and a bedtime routine
\* that run past midnight.
ByDay == Household({Hours(1, 3, EveryDay)}, {}, 1, 0, 0)
SchoolDays == Household({}, {Due(1, 2, {0}), Due(3, 0, {1})}, 0, 0, 0)
Sittings == Household({Hours(1, 0, EveryDay)}, {Due(1, 2, {1})}, 2, 1, 1)
Night == Household({Hours(2, 1, EveryDay)}, {Due(3, 1, {0})}, 1, 0, 0)

DaySchedules == {ByDay, SchoolDays, Sittings}
NightOnly == {Night}
AllSchedules == DaySchedules \cup NightOnly
Ahead == {1, None}
=============================================================================
