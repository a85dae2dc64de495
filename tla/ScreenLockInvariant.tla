-------------------------- MODULE ScreenLockInvariant --------------------------
(***************************************************************************)
(* The inductive invariant of ScreenLock: why the answer a tablet holds is *)
(* still true when it acts on it.  A tablet that missed no change holds    *)
(* the ruling of its instant on the rows as they are now -- but for the    *)
(* rows of the day, which are gone since midnight.                         *)
(***************************************************************************)
EXTENDS ScreenLock

RunsOfADay == [Routines -> {"in_progress", "done_pending", "approved"}]
UsageBy(t) == [used : Nat, earned : 0 .. MaxEarned, sat : Nat, burnAt : 0 .. t \cup {None}]

\* Every row has a number of its own, and each author one row per scope; only a kid's
\* minutes are bought, and they have an end.
OverridesOK ==
  /\ \A o, p \in overrides : o.no = p.no => o = p
  /\ \A o, p \in overrides : o.source = p.source /\ o.scope = p.scope => o = p
  /\ \A o \in By("purchase", overrides) : o.scope = "kid" /\ o.until # None

\* The answer is the ruling of its instant.
AnswerOf(statuses, row) ==
  /\ tablet = Payload(InputsAt(tablet.at, statuses, row))
  /\ IF Day(tablet.at) = Day(now) THEN statuses = runs /\ row = usage
     ELSE runs = NoRuns /\ usage = NoUsage

AnswerOK ==
  ~ tablet.missed => \E statuses \in RunsOfADay, row \in UsageBy(tablet.at) : AnswerOf(statuses, row)

LInv == TypeOK /\ OverridesOK /\ AnswerOK
=============================================================================
