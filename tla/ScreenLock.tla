------------------------------ MODULE ScreenLock ------------------------------
(***************************************************************************)
(* One kid's kiosk tablet and the server that rules it: the overrides of   *)
(* grown-ups and the minutes the kid buys, the routine the tablet waits    *)
(* for, the screen-time meter, the household's hours, and the tablet that  *)
(* keeps the last answer while it is offline.                              *)
(*                                                                         *)
(* Every server handler is one uninterrupted stretch of the event loop as  *)
(* far as these rows go.  The tablet's wrapper is not in this repository:  *)
(* its rules (LOCKED unless UNLOCKED, re-lock at `until`, burn while open) *)
(* are those docs/KIOSK-CONTRACT.md gives it.                              *)
(*                                                                         *)
(* Sources: src/src/lock-machine.ts, src/src/repo-lock.ts,                 *)
(* src/src/routes/lock.ts, src/src/routes/store.ts, src/src/lock-events.ts.*)
(***************************************************************************)
EXTENDS LockMachine

CONSTANTS
  Routines,     \* the kid's routines that have lock windows
  Schedules,    \* the settings grown-ups may save: hours, windows, meter, sittings
  Untils,       \* how far ahead a grown-up's override may end (None: open end)
  Packs,        \* the minutes a screen-time tile sells
  MaxEarned,    \* children.max_earned_min
  MaxReport,    \* MAX_REPORT_SEC: what one usage report may add
  MaxPending,   \* bound on the time burned and not reported
  LastInstant,  \* bound on the clock
  MaxWrites     \* bound: overrides and settings saved

\* A row of lock_overrides that is not cleared; `no` is its rowid.
Override == [no : Nat, mode : {"lock", "unlock"}, source : {"parent", "purchase"},
             scope : {"kid", "household"}, until : Nat \cup {None}]

ASSUME ScreenLockAssumption ==
  /\ \A s \in Schedules :
       s \in [allow : SUBSET Window, windows : SUBSET [start : Hhmm, end : Hhmm, days : Mask, routine : Routines],
              daily : Nat, play : Nat, rest : Nat]
  /\ Untils \subseteq Nat \cup {None} /\ Packs \subseteq Nat \ {0}
  /\ MaxEarned \in Nat /\ MaxReport \in Nat /\ MaxPending \in Nat
  /\ LastInstant \in Nat /\ MaxWrites \in Nat
  /\ None \notin Override

VARIABLES
  now,
  rules,      \* allow_windows, lock_windows and the kid's screen columns
  overrides,  \* lock_overrides rows not cleared
  runs,       \* routine_runs.status of today, by routine
  usage,      \* the screen_usage row of today
  tablet,     \* the answer the tablet holds, and whether it missed a change since
  online,     \* the tablet holds its stream open
  pending,    \* time burned and not reported yet
  writes      \* settings and overrides saved so far (bound)

vars == <<now, rules, overrides, runs, usage, tablet, online, pending, writes>>

NoUsage == [used |-> 0, earned |-> 0, sat |-> 0, burnAt |-> None]
NoRuns == [r \in Routines |-> "in_progress"]

-----------------------------------------------------------------------------
(* Overrides: each author owns one live row per scope.                     *)

Row(mode, source, scope, until) ==
  [no |-> writes + 1, mode |-> mode, source |-> source, scope |-> scope, until |-> until]

By(source, rows) == {o \in rows : o.source = source}

\* Slip: a new override retires every live row of its scope, whoever wrote it.
SupersedeAll(rows, row) == {o \in rows : o.scope # row.scope} \cup {row}

SetOverride(rows, row) ==
  {o \in rows : o.source # row.source \/ o.scope # row.scope} \cup {row}

LiveOverrides(rows, t) == {o \in rows : o.until = None \/ o.until >= t}

Newest(rows) ==
  IF rows = {} THEN None ELSE CHOOSE o \in rows : \A p \in rows : o.no >= p.no

\* Slip: recency decides.
NewestOverride(rows, t) == Newest(LiveOverrides(rows, t))

\* The newest live row of a grown-up; otherwise the minutes the kid bought.
ActiveOverride(rows, t) ==
  LET live == LiveOverrides(rows, t)
  IN  IF By("parent", live) # {} THEN Newest(By("parent", live)) ELSE Newest(By("purchase", live))

ParentLockActive(rows, t) ==
  LET o == ActiveOverride(rows, t)
  IN o # None /\ o.source = "parent" /\ o.mode = "lock"

Bought(rows, t) == By("purchase", LiveOverrides(rows, t))

\* More minutes stack onto what is still running.
ExtendPurchase(rows, minutes, t) ==
  LET running == {o.until : o \in {b \in Bought(rows, t) : b.until > t}}
  IN SetOverride(rows, Row("unlock", "purchase", "kid", Max(running \cup {t}) + minutes))

-----------------------------------------------------------------------------
(* The one ruling, from the rows as they are.                              *)

InputsAt(t, statuses, row) ==
  [now |-> t, override |-> ActiveOverride(overrides, t),
   allow |-> rules.allow, windows |-> rules.windows, runs |-> statuses,
   budget |-> IF rules.daily > 0 THEN rules.daily + row.earned ELSE 0,
   used |-> row.used, play |-> rules.play, rest |-> rules.rest,
   sat |-> row.sat, burnAt |-> row.burnAt]

Inputs == InputsAt(now, runs, usage)

\* What the tablet is handed: the ruling and what is left of the budget.
Payload(k) ==
  LET ruling == ComputeLockState(k)
  IN [state |-> ruling.state, until |-> ruling.until, at |-> k.now,
      left |-> Remaining(k), overridden |-> Overridden(k), missed |-> FALSE]

\* Every change wakes the streams that are open; the others miss it.
Publish ==
  IF online THEN \E k \in {Inputs'} : tablet' = Payload(k) ELSE tablet' = [tablet EXCEPT !.missed = TRUE]

TabletOpen ==
  /\ tablet.state = "UNLOCKED"
  /\ tablet.until # None => now < tablet.until
  /\ tablet.left # None /\ ~tablet.overridden => pending < tablet.left

-----------------------------------------------------------------------------
Init ==
  /\ now = 0
  /\ rules \in Schedules
  /\ overrides = {}
  /\ runs = NoRuns
  /\ usage = NoUsage
  /\ online = TRUE
  /\ pending = 0
  /\ writes = 0
  /\ tablet = Payload(Inputs)

Save == writes < MaxWrites /\ writes' = writes + 1

\* PUT /family/allow-windows, the window routes, PATCH /children/:id/screen-budget.
SaveRules ==
  /\ Save
  /\ \E s \in Schedules \ {rules} : rules' = s
  /\ UNCHANGED <<now, overrides, runs, usage, online, pending>>
  /\ Publish

\* POST /family/override.
PostOverride ==
  /\ Save
  /\ \E mode \in {"lock", "unlock"}, scope \in {"kid", "household"}, ahead \in Untils :
       overrides' = SetOverride(overrides, Row(mode, "parent", scope,
                                  IF ahead = None THEN None ELSE now + ahead))
  /\ UNCHANGED <<now, rules, runs, usage, online, pending>>
  /\ Publish

\* DELETE /family/override/:id, which leaves a purchase alone.
ClearOverride ==
  /\ \E o \in By("parent", overrides) : overrides' = overrides \ {o}
  /\ UNCHANGED <<now, rules, runs, usage, online, pending, writes>>
  /\ Publish

\* A screen-time tile (POST /kids/:id/buy): allowance for a metered kid, an unlock
\* for the others, nothing while a grown-up holds the screen shut.
BuyMinutes ==
  /\ Save
  /\ ~ParentLockActive(overrides, now)
  /\ \E m \in Packs :
       IF rules.daily > 0
       THEN /\ usage.earned + m <= MaxEarned
            /\ usage' = [usage EXCEPT !.earned = @ + m]
            /\ UNCHANGED overrides
       ELSE /\ overrides' = ExtendPurchase(overrides, m, now)
            /\ UNCHANGED usage
  /\ UNCHANGED <<now, rules, runs, online, pending>>
  /\ Publish

\* The run of today is handed in, approved, or sent back.
RunChanges(from, to) ==
  /\ \E r \in Routines : runs[r] = from /\ runs' = [runs EXCEPT ![r] = to]
  /\ UNCHANGED <<now, rules, overrides, usage, online, pending, writes>>
  /\ Publish

HandInRun == RunChanges("in_progress", "done_pending")
ApproveRun == RunChanges("done_pending", "approved")
RejectRun == RunChanges("done_pending", "in_progress")

\* POST /device/usage: refused while an override is in charge; otherwise the delta is
\* clamped (the tablet subtracts what it sent), and it extends the sitting or, after a whole rest, starts a new one.
AddUsage(row, delta) ==
  [row EXCEPT
     !.used = @ + delta,
     !.sat = IF rules.play = 0 \/ rules.rest = 0 THEN 0
             ELSE delta + (IF row.burnAt = None \/ now - row.burnAt >= rules.rest THEN 0 ELSE @),
     !.burnAt = now]

ReportUsage ==
  \E sent \in 1 .. pending :
     LET refused == ActiveOverride(overrides, now) # None
     IN /\ online
        /\ pending' = pending - sent
        /\ usage' = IF refused THEN usage ELSE AddUsage(usage, Min({sent, MaxReport}))
        /\ UNCHANGED <<now, rules, overrides, runs, online, writes>>
        /\ IF refused THEN UNCHANGED tablet ELSE Publish

\* GET /device/state, or the first event of a stream that is opened again.
Poll ==
  /\ online' = TRUE
  /\ \E k \in {Inputs} : tablet' = Payload(k)
  /\ UNCHANGED <<now, rules, overrides, runs, usage, pending, writes>>

GoOffline ==
  /\ online /\ online' = FALSE
  /\ UNCHANGED <<now, rules, overrides, runs, usage, tablet, pending, writes>>

\* Time passes; an open tablet may burn it.  Runs and usage are rows of a local
\* day: at midnight there are none yet.
Tick ==
  /\ now < LastInstant
  /\ now' = now + 1
  /\ IF Day(now') = Day(now) THEN UNCHANGED <<runs, usage>>
     ELSE runs' = NoRuns /\ usage' = NoUsage
  /\ \/ pending' = pending
     \/ TabletOpen /\ ~tablet.overridden /\ pending < MaxPending /\ pending' = pending + 1
  /\ UNCHANGED <<rules, overrides, tablet, online, writes>>

Next ==
  \/ SaveRules \/ PostOverride \/ ClearOverride \/ BuyMinutes
  \/ HandInRun \/ ApproveRun \/ RejectRun
  \/ ReportUsage \/ Poll \/ GoOffline \/ Tick

Spec == Init /\ [][Next]_vars

-----------------------------------------------------------------------------
\* Rows and answers have their shape, and a countdown is to a moment to come.
TypeOK ==
  /\ now \in 0 .. LastInstant
  /\ rules \in Schedules
  /\ overrides \subseteq Override /\ \A o \in overrides : o.no \in 1 .. writes
  /\ runs \in [Routines -> {"in_progress", "done_pending", "approved"}]
  /\ usage \in [used : Nat, earned : 0 .. MaxEarned, sat : Nat,
                burnAt : 0 .. now \cup {None}]
  /\ tablet \in [state : LockStates, until : Nat \cup {None}, at : 0 .. now,
                 left : Nat \cup {None}, overridden : BOOLEAN, missed : BOOLEAN]
  /\ tablet.until # None => tablet.until > tablet.at
  /\ online \in BOOLEAN /\ pending \in Nat /\ writes \in 0 .. MaxWrites

\* At the very instant an override expires its row is still the one in charge
\* (liveOverrides keeps it) and no longer rules (the machine drops it): an older
\* override behind it is passed over.  An answer of that instant is left out.
AnsweredAtExpiry == \E o \in overrides : o.until = tablet.at
UpToDate == ~tablet.missed /\ ~AnsweredAtExpiry

\* A tablet that missed no change is open only when the server would open it: the
\* `until` it counts down to is the earliest moment the answer changes, whatever
\* passes meanwhile (curfew, next window, meter, sitting, override, midnight).
OpenAsRuled ==
  TabletOpen /\ UpToDate =>
    \A k \in {Inputs} : ComputeLockState(k).state = "UNLOCKED"

\* The same for households none of whose windows runs past midnight.
RunsPastMidnight == \E w \in rules.allow \cup rules.windows : CrossesMidnight(w) /\ w.end > 0
OpenAsRuledByDay == RunsPastMidnight \/ OpenAsRuled

\* A spent kid's countdown ends when the tablet can be used, not before and not
\* later: past the reset of the meter and inside the hours (budgetReliefAt).
BudgetCountdownIsReal ==
  tablet.state = "LOCKED_BUDGET" /\ UpToDate =>
    \A k \in {Inputs} :
      /\ now < tablet.until => ComputeLockState(k).state # "UNLOCKED"
      /\ now = tablet.until => ComputeLockState(k).state \notin {"LOCKED_BUDGET", "LOCKED_HOURS"}

\* The newest live word of a grown-up stands: until they say something else or it
\* runs out, the same answer is given whatever the kid buys, hands in or burns and
\* whatever the schedule becomes (authority is not a race).
Word == Newest(By("parent", LiveOverrides(overrides, now)))
GrownUpsWordStands ==
  [][Word # None /\ Word.until # now /\ Word' = Word /\ now' = now
     => \E k \in {Inputs} : \E l \in {Inputs'} : ComputeLockState(l) = ComputeLockState(k)]_vars

\* Minutes the kid paid for run out with the clock and with nothing else: no
\* override of a grown-up, no clearing and no further purchase shortens them.
PaidMinutesKept ==
  [][\A o \in Bought(overrides, now') :
       \E p \in Bought(overrides', now') : p.until >= o.until]_vars
=============================================================================
