----------------------------- MODULE LockMachine -----------------------------
(***************************************************************************)
(* What a kiosk tablet does at an instant, and until when: the pure        *)
(* machine of src/src/lock-machine.ts.  Instants count slots from the      *)
(* midnight that opens day 0; a day has DayLen slots and a weekday mask    *)
(* Week days (24 hours and 7 in the code).  The family's time zone keeps   *)
(* its offset: a daylight-saving change is not modelled.                   *)
(***************************************************************************)
EXTENDS Integers, FiniteSets, FiniteSetsExt

CONSTANTS
  DayLen,  \* slots of a day
  Week,    \* days of a weekday mask
  None     \* no bound, no override, no routine

ASSUME LockMachineAssumption ==
  DayLen \in Nat \ {0} /\ Week \in Nat \ {0} /\ None \notin Nat

\* A window: "HH:MM" to "HH:MM" on the days of a mask.
Hhmm == 0 .. DayLen - 1
Mask == SUBSET (0 .. Week - 1)
Window == [start : Hhmm, end : Hhmm, days : Mask]

LockStates == {"LOCKED_ROUTINE", "LOCKED_HOURS", "LOCKED_BUDGET", "LOCKED_BREAK",
               "PENDING_APPROVAL", "UNLOCKED"}

Day(t) == t \div DayLen
Minute(t) == t % DayLen
Midnight(d) == d * DayLen

\* A window covers [start, end) on the days of its mask; with end <= start it
\* runs past midnight, and its morning tail belongs to the mask of the day before.
CrossesMidnight(w) == w.end <= w.start
Masked(w, d) == d % Week \in w.days

WindowActive(w, t) ==
  \/ /\ ~CrossesMidnight(w)
     /\ Masked(w, Day(t)) /\ Minute(t) \in w.start .. w.end - 1
  \/ /\ CrossesMidnight(w)
     /\ \/ Masked(w, Day(t)) /\ Minute(t) >= w.start
        \/ Masked(w, Day(t) + Week - 1) /\ Minute(t) < w.end

SomeActive(ws, t) == \E w \in ws : WindowActive(w, t)

Soonest(times) ==
  IF times \subseteq {None} THEN None ELSE Min(times \ {None})

\* The starts, or the ends, of a window on the masked days from today on.  The
\* end of a window that crosses midnight falls on the day after its mask's.
BoundariesOf(w, edge, t) ==
  LET mins == IF edge = "start" THEN w.start ELSE w.end
      shift == IF edge = "end" /\ CrossesMidnight(w) THEN 1 ELSE 0
  IN {Midnight(Day(t) + off + shift) + mins :
        off \in {o \in 0 .. Week : Masked(w, Day(t) + o)}}

NextBoundary(ws, edge, t) ==
  Soonest({b \in UNION {BoundariesOf(w, edge, t) : w \in ws} : b > t})

\* Slip: the next opening, though the meter is still spent then.
NextOpening(allow, t) == NextBoundary(allow, "start", t)

\* When a spent kid can use the tablet again: past the meter's reset and inside
\* the household's hours.
BudgetReliefAt(allow, t) ==
  LET reset == Midnight(Day(t) + 1)
  IN IF allow = {} \/ SomeActive(allow, reset) THEN reset
     ELSE NextBoundary(allow, "start", reset - 1)

-----------------------------------------------------------------------------
(* The inputs k: now; override (a row or None); allow and windows, sets of *)
(* windows; runs, today's status of each routine ("in_progress" when it    *)
(* was not started); budget and used (budget 0: unmetered); play, rest,    *)
(* sat and burnAt, the sitting (play or rest 0: no rule; burnAt None: not  *)
(* burned today).                                                          *)

Overridden(k) ==
  k.override # None /\ (k.override.until = None \/ k.override.until > k.now)

Demands(k, status) ==
  \E w \in k.windows : WindowActive(w, k.now) /\ k.runs[w.routine] = status

Remaining(k) == IF k.budget = 0 THEN None ELSE Max({0, k.budget - k.used})

SittingRule(k) == k.play > 0 /\ k.rest > 0
\* Slip: one instant more than the rest the break counts down to.
RestedAfter(k) == k.burnAt = None \/ k.burnAt + k.rest < k.now

Rested(k) == k.burnAt = None \/ k.burnAt + k.rest <= k.now
SatSoFar(k) == IF Rested(k) THEN 0 ELSE k.sat
SittingFull(k) == SittingRule(k) /\ SatSoFar(k) >= k.play

\* Slip: the next lock window is no bound.
BoundsButWindows(k) ==
  {IF Remaining(k) = None THEN None ELSE k.now + Remaining(k),
   IF SittingRule(k) THEN k.now + k.play - SatSoFar(k) ELSE None,
   NextBoundary(k.allow, "end", k.now)}

\* What can end an unlocked stretch.
Bounds(k) ==
  {IF Remaining(k) = None THEN None ELSE k.now + Remaining(k),
   IF SittingRule(k) THEN k.now + k.play - SatSoFar(k) ELSE None,
   NextBoundary(k.allow, "end", k.now),
   NextBoundary(k.windows, "start", k.now)}

\* Which rules have something to say; the first of Precedence that does, decides.
Speaks(k) ==
  [override |-> Overridden(k),
   hours    |-> k.allow # {} /\ ~SomeActive(k.allow, k.now),
   routine  |-> Demands(k, "in_progress"),
   approval |-> Demands(k, "done_pending"),
   budget   |-> Remaining(k) = 0,
   sitting  |-> SittingFull(k),
   open     |-> TRUE]

Precedence == <<"override", "hours", "routine", "approval", "budget", "sitting", "open">>

DecidingRule(k) ==
  LET speaks == Speaks(k)
  IN Precedence[Min({i \in DOMAIN Precedence : speaks[Precedence[i]]})]

Ruling(state, until) == [state |-> state, until |-> until]

ComputeLockState(k) ==
  LET rule == DecidingRule(k)
  IN CASE rule = "override" ->
            Ruling(IF k.override.mode = "unlock" THEN "UNLOCKED" ELSE "LOCKED_ROUTINE",
                   k.override.until)
       [] rule = "hours" -> Ruling("LOCKED_HOURS", NextBoundary(k.allow, "start", k.now))
       [] rule = "routine" -> Ruling("LOCKED_ROUTINE", None)
       [] rule = "approval" -> Ruling("PENDING_APPROVAL", None)
       [] rule = "budget" -> Ruling("LOCKED_BUDGET", BudgetReliefAt(k.allow, k.now))
       [] rule = "sitting" -> Ruling("LOCKED_BREAK", k.burnAt + k.rest)
       [] rule = "open" -> Ruling("UNLOCKED", Soonest(Bounds(k)))
=============================================================================
