--------------------------- MODULE ScreenLockProofs ---------------------------
(***************************************************************************)
(* Proofs about ScreenLock, for every household, every length of the day   *)
(* and of the week and every clock: what a countdown is worth, and whose   *)
(* word counts.  The machine is proved about first, as a function of its   *)
(* inputs (calendar, windows, rules), and the rows and the tablet after.   *)
(***************************************************************************)
EXTENDS ScreenLockInvariant, SumLemmas, TLAPS

-----------------------------------------------------------------------------
(* The least and the greatest of some numbers.                             *)

\* A set of naturals has a least element.
LEMMA Least ==
  ASSUME NEW S \in SUBSET Nat, S # {}
  PROVE  Min(S) \in S /\ \A x \in S : Min(S) <= x
<1>1. PICK n \in S : n \in Nat
  OBVIOUS
<1> DEFINE B == {0 .. m : m \in {x \in S : x <= n}}
           Top == 0 .. n
<1>2. IsFiniteSet(Top)
  BY <1>1, FS_Interval
<1>3. B \in SUBSET (SUBSET Top) /\ B # {}
  BY <1>1
<1>4. PICK U \in B : \A V \in B : V \subseteq U => V = U
  <2> HIDE DEF B, Top
  <2> QED BY <1>2, <1>3, Minimal
<1>5. PICK m \in S : m <= n /\ U = 0 .. m
  OBVIOUS
<1>6. ASSUME NEW x \in S, x < m PROVE FALSE
  <2>1. 0 .. x \in B /\ 0 .. x \subseteq U
    BY <1>1, <1>5, <1>6
  <2>2. 0 .. x = 0 .. m
    BY <1>4, <1>5, <2>1
  <2>3. m \in 0 .. m /\ m \notin 0 .. x
    BY <1>6
  <2> QED BY <2>2, <2>3
<1>7. m \in S /\ \A x \in S : m <= x
  BY <1>5, <1>6
<1> QED BY <1>7 DEF Min

\* The greater of two numbers.
LEMMA Greater ==
  ASSUME NEW a \in Int, NEW b \in Int
  PROVE  Max({a, b}) \in {a, b} /\ Max({a, b}) >= a /\ Max({a, b}) >= b
<1>1. \E x \in {a, b} : \A y \in {a, b} : x >= y
  OBVIOUS
<1> QED BY <1>1 DEF Max

\* The lesser of two numbers.
LEMMA Lesser ==
  ASSUME NEW a \in Nat, NEW b \in Nat
  PROVE  Min({a, b}) \in {a, b}
BY Least

\* The soonest of some bounds is one of them, and none is sooner.
LEMMA SoonestIsLeast ==
  ASSUME NEW times \in SUBSET (Nat \cup {None})
  PROVE  \/ times \subseteq {None} /\ Soonest(times) = None
         \/ /\ Soonest(times) \in times /\ Soonest(times) \in Nat
            /\ \A x \in times : x # None => Soonest(times) <= x
<1>1. CASE times \subseteq {None}
  BY <1>1 DEF Soonest
<1>2. CASE ~ (times \subseteq {None})
  <2>1. times \ {None} \in SUBSET Nat /\ times \ {None} # {}
    BY <1>2
  <2>2. Soonest(times) = Min(times \ {None})
    BY <1>2 DEF Soonest
  <2> QED BY <2>1, <2>2, Least
<1> QED BY <1>1, <1>2

-----------------------------------------------------------------------------
(* The calendar.                                                           *)

\* Division by a positive number.
LEMMA Division ==
  ASSUME NEW x \in Nat, NEW k \in Nat \ {0}
  PROVE  x \div k \in Nat /\ x % k \in 0 .. k - 1 /\ x = (x \div k) * k + (x % k)
<1>1. x \div k \in Int
  OBVIOUS
<1>2. x % k \in 0 .. k - 1
  OBVIOUS
<1>3. x = (x \div k) * k + (x % k)
  OBVIOUS
<1>4. x \div k >= 0
  OBVIOUS
<1> QED BY <1>1, <1>2, <1>3, <1>4

\* What is divided and what is left over.
LEMMA Quotient ==
  ASSUME NEW k \in Nat \ {0}, NEW q \in Nat, NEW m \in 0 .. k - 1
  PROVE  (q * k + m) \div k = q /\ (q * k + m) % k = m
OBVIOUS

\* Multiples add up.
LEMMA Multiples ==
  ASSUME NEW k \in Nat, NEW p \in Nat, NEW q \in Nat
  PROVE  (p + q) * k = p * k + q * k /\ p * k \in Nat /\ q * k \in Nat
OBVIOUS

\* An instant is a day and a slot of it.
LEMMA DayAndMinute ==
  ASSUME NEW t \in Nat
  PROVE  /\ Day(t) \in Nat /\ Minute(t) \in Hhmm /\ Midnight(Day(t)) \in Nat
         /\ t = Midnight(Day(t)) + Minute(t)
BY LockMachineAssumption, Division, Multiples DEF Day, Minute, Midnight, Hhmm

\* A day and a slot of it are an instant.
LEMMA InstantOf ==
  ASSUME NEW d \in Nat, NEW m \in Hhmm
  PROVE  /\ Midnight(d) \in Nat /\ Midnight(d) + m \in Nat
         /\ Day(Midnight(d) + m) = d /\ Minute(Midnight(d) + m) = m
<1>1. d * DayLen \in Nat
  BY LockMachineAssumption, Multiples
<1> QED BY <1>1, LockMachineAssumption, Quotient DEF Day, Minute, Midnight, Hhmm

\* A day is over before the next one begins.
LEMMA DaysApart ==
  ASSUME NEW d \in Nat, NEW e \in Nat, d < e
  PROVE  Midnight(d) \in Nat /\ Midnight(e) \in Nat /\ Midnight(d) + DayLen <= Midnight(e)
BY LockMachineAssumption DEF Midnight

\* The next midnight.
LEMMA NextMidnight ==
  ASSUME NEW d \in Nat
  PROVE  Midnight(d) \in Nat /\ Midnight(d + 1) = Midnight(d) + DayLen
<1>1. (d + 1) * DayLen = d * DayLen + 1 * DayLen /\ d * DayLen \in Nat
  BY LockMachineAssumption, Multiples
<1> QED BY <1>1, LockMachineAssumption DEF Midnight

\* Time and days go the same way.
LEMMA DayGrows ==
  ASSUME NEW t \in Nat, NEW u \in Nat, t <= u
  PROVE  Day(t) <= Day(u)
<1>1. ASSUME Day(u) < Day(t) PROVE FALSE
  <2>1. Midnight(Day(u)) + DayLen <= Midnight(Day(t))
    BY <1>1, DayAndMinute, DaysApart
  <2> QED BY <2>1, DayAndMinute, LockMachineAssumption DEF Hhmm
<1> QED BY <1>1, DayAndMinute

\* Weeks do not show in a mask.
LEMMA WeeksRepeat ==
  ASSUME NEW x \in Nat, NEW q \in Nat
  PROVE  (x + q * Week) % Week = x % Week
<1> DEFINE p == x \div Week
           m == x % Week
<1>1. p \in Nat /\ m \in 0 .. Week - 1 /\ x = p * Week + m
  BY LockMachineAssumption, Division
<1>2. (p + q) * Week = p * Week + q * Week /\ p * Week \in Nat /\ q * Week \in Nat
  BY <1>1, LockMachineAssumption, Multiples
<1>3. p + q \in Nat
  BY <1>1
<1> HIDE DEF p
<1>4. x + q * Week = (p + q) * Week + m
  BY <1>1, <1>2
<1>5. ((p + q) * Week + m) % Week = m
  BY <1>1, <1>3, LockMachineAssumption, Quotient
<1> QED BY <1>4, <1>5

\* A weekday that comes comes within a week.
LEMMA WithinAWeek ==
  ASSUME NEW a \in Nat, NEW d \in Nat, a < d
  PROVE  \E off \in 1 .. Week : a + off <= d /\ (a + off) % Week = d % Week
<1> DEFINE n == d - a - 1
           r == n % Week
           w == (n \div Week) * Week
<1>1. n \in Nat
  OBVIOUS
<1>2. n = w + r /\ r \in 0 .. Week - 1 /\ n \div Week \in Nat
  BY <1>1, LockMachineAssumption, Division
<1>3. w \in Nat
  BY <1>2, LockMachineAssumption, Multiples
<1>4. (a + (r + 1) + w) % Week = (a + (r + 1)) % Week
  BY <1>2, WeeksRepeat
<1> HIDE DEF r, w
<1>5. d = a + (r + 1) + w
  BY <1>2, <1>3
<1>6. r + 1 \in 1 .. Week /\ a + (r + 1) <= d
  BY <1>2, <1>3, <1>5, LockMachineAssumption
<1> QED BY <1>4, <1>5, <1>6

\* The mask of the day before, as the code looks it up.
LEMMA DayBefore ==
  ASSUME NEW d \in Nat
  PROVE  (d + 1 + Week - 1) % Week = d % Week
<1>1. d + 1 + Week - 1 = d + 1 * Week
  BY LockMachineAssumption
<1> QED BY <1>1, WeeksRepeat

-----------------------------------------------------------------------------
(* Windows and their boundaries.                                           *)

\* A window as the machine looks at it, with a routine or without one.
IsWindow(w) == w.start \in Hhmm /\ w.end \in Hhmm /\ w.days \in Mask

\* A window that runs into the morning of the next day.
IntoMorning(w) == CrossesMidnight(w) /\ w.end > 0

\* The boundaries of a window are instants.
LEMMA BoundariesAreInstants ==
  ASSUME NEW w, IsWindow(w), NEW t \in Nat, NEW edge \in {"start", "end"}
  PROVE  BoundariesOf(w, edge, t) \in SUBSET Nat
<1>1. ASSUME NEW off \in 0 .. Week, NEW shift \in {0, 1}, NEW mins \in Hhmm
      PROVE  Midnight(Day(t) + off + shift) + mins \in Nat
  <2>1. Day(t) + off + shift \in Nat
    BY DayAndMinute, LockMachineAssumption
  <2> QED BY <2>1, InstantOf
<1>2. /\ (IF edge = "start" THEN w.start ELSE w.end) \in Hhmm
      /\ (IF edge = "end" /\ CrossesMidnight(w) THEN 1 ELSE 0) \in {0, 1}
  BY DEF IsWindow
<1> QED BY <1>1, <1>2 DEF BoundariesOf

\* The next boundary, if there is one, is to come, is one, and none comes before it.
LEMMA NextBoundaryIsNext ==
  ASSUME NEW ws, \A w \in ws : IsWindow(w), NEW t \in Nat, NEW edge \in {"start", "end"}
  PROVE  \/ /\ NextBoundary(ws, edge, t) = None
            /\ \A w \in ws : \A b \in BoundariesOf(w, edge, t) : ~ (b > t)
         \/ /\ NextBoundary(ws, edge, t) \in Nat /\ NextBoundary(ws, edge, t) > t
            /\ \E w \in ws : NextBoundary(ws, edge, t) \in BoundariesOf(w, edge, t)
            /\ \A w \in ws : \A b \in BoundariesOf(w, edge, t) : b > t => NextBoundary(ws, edge, t) <= b
<1> DEFINE Coming == {b \in UNION {BoundariesOf(w, edge, t) : w \in ws} : b > t}
<1>1. \A w \in ws : BoundariesOf(w, edge, t) \in SUBSET Nat
  BY BoundariesAreInstants
<1>2. Coming \in SUBSET Nat
  BY <1>1
<1>3. Coming \in SUBSET (Nat \cup {None}) /\ None \notin Coming
  BY <1>2, LockMachineAssumption
<1>4. NextBoundary(ws, edge, t) = Soonest(Coming)
  BY DEF NextBoundary
<1>5. \A w \in ws : \A b \in BoundariesOf(w, edge, t) : b > t => b \in Coming
  OBVIOUS
<1>6. \A b \in Coming : b > t /\ \E w \in ws : b \in BoundariesOf(w, edge, t)
  OBVIOUS
<1> HIDE DEF Coming
<1>7. CASE Coming = {}
  <2>1. Soonest(Coming) = None
    BY <1>7 DEF Soonest
  <2> QED BY <1>4, <1>5, <1>7, <2>1
<1>8. CASE Coming # {}
  <2>1. /\ Soonest(Coming) \in Coming /\ Soonest(Coming) \in Nat
        /\ \A x \in Coming : x # None => Soonest(Coming) <= x
    BY <1>3, <1>8, SoonestIsLeast
  <2> QED BY <1>3, <1>4, <1>5, <1>6, <2>1
<1> QED BY <1>7, <1>8

\* A window of a coming day opens by then, on that day or on one like it before.
LEMMA OpensBy ==
  ASSUME NEW w, IsWindow(w), NEW t \in Nat, NEW d \in Nat, Day(t) < d, Masked(w, d)
  PROVE  \E b \in BoundariesOf(w, "start", t) :
            Midnight(Day(t) + 1) <= b /\ b <= Midnight(d) + w.start
<1>1. PICK off \in 1 .. Week : Day(t) + off <= d /\ (Day(t) + off) % Week = d % Week
  BY DayAndMinute, WithinAWeek
<1> DEFINE day == Day(t) + off
           b == Midnight(day) + w.start
<1>2. off \in 0 .. Week /\ Masked(w, day) /\ day \in Nat /\ day <= d /\ Day(t) + 1 <= day /\ Day(t) + 1 \in Nat
  BY <1>1, DayAndMinute DEF Masked
<1>3. Midnight(Day(t) + off + 0) + w.start \in BoundariesOf(w, "start", t)
  BY <1>2 DEF BoundariesOf
<1>4. Day(t) + off + 0 = day
  BY <1>2, DayAndMinute
<1> HIDE DEF day
<1>5. Midnight(Day(t) + 1) <= Midnight(day)
  <2>1. CASE Day(t) + 1 = day
    BY <1>2, <2>1, InstantOf, DaysApart, NextMidnight, DayAndMinute
  <2>2. CASE Day(t) + 1 < day
    BY <1>2, <2>2, DaysApart, LockMachineAssumption
  <2> QED BY <1>2, <2>1, <2>2
<1>6. Midnight(day) <= Midnight(d)
  <2>1. CASE day = d
    BY <1>2, <2>1, NextMidnight
  <2>2. CASE day < d
    BY <1>2, <2>2, DaysApart, LockMachineAssumption
  <2> QED BY <1>2, <2>1, <2>2
<1>7. Midnight(day) \in Nat /\ Midnight(d) \in Nat /\ Midnight(Day(t) + 1) \in Nat /\ w.start \in Nat
  BY <1>2, NextMidnight DEF IsWindow, Hhmm
<1>8. b \in BoundariesOf(w, "start", t)
  BY <1>3, <1>4
<1> QED BY <1>5, <1>6, <1>7, <1>8

\* A window is active at its start.
LEMMA ActiveAtStart ==
  ASSUME NEW w, IsWindow(w), NEW t \in Nat, NEW b \in BoundariesOf(w, "start", t)
  PROVE  WindowActive(w, b)
<1>1. PICK off \in 0 .. Week : Masked(w, Day(t) + off) /\ b = Midnight(Day(t) + off + 0) + w.start
  BY DEF BoundariesOf
<1>2. Day(t) + off \in Nat /\ Day(t) + off + 0 = Day(t) + off
  BY DayAndMinute
<1>3. Day(b) = Day(t) + off /\ Minute(b) = w.start
  BY <1>1, <1>2, InstantOf DEF IsWindow
<1> QED BY <1>1, <1>3 DEF WindowActive, CrossesMidnight, IsWindow, Hhmm

\* A window that has become active since has started since, if it stays within its day.
LEMMA StartedSince ==
  ASSUME NEW w, IsWindow(w), ~ IntoMorning(w), NEW t \in Nat, NEW u \in Nat, t <= u,
         WindowActive(w, u), ~ WindowActive(w, t) \/ Day(t) # Day(u)
  PROVE  \E b \in BoundariesOf(w, "start", t) : t < b /\ b <= u
<1>1. /\ Day(t) \in Nat /\ Minute(t) \in Hhmm /\ t = Midnight(Day(t)) + Minute(t)
      /\ Day(u) \in Nat /\ Minute(u) \in Hhmm /\ u = Midnight(Day(u)) + Minute(u)
      /\ Midnight(Day(t)) \in Nat /\ Midnight(Day(u)) \in Nat
  BY DayAndMinute
<1>2. /\ Masked(w, Day(u)) /\ w.start <= Minute(u)
      /\ ~ CrossesMidnight(w) => Minute(u) < w.end
  BY <1>1 DEF WindowActive, IntoMorning, CrossesMidnight, IsWindow, Hhmm
<1>3. CASE Day(t) = Day(u)
  <2>1. Minute(t) < w.start
    <3>1. Minute(t) <= Minute(u)
      BY <1>1, <1>3 DEF Hhmm
    <3> QED BY <1>1, <1>2, <1>3, <3>1 DEF WindowActive, IsWindow, Hhmm
  <2>2. 0 \in 0 .. Week /\ Day(t) + 0 = Day(t) /\ Day(t) + 0 + 0 = Day(t)
    BY <1>1, LockMachineAssumption
  <2>3. Midnight(Day(t)) + w.start \in BoundariesOf(w, "start", t)
    BY <1>2, <1>3, <2>2 DEF BoundariesOf
  <2> QED BY <1>1, <1>2, <1>3, <2>1, <2>3 DEF IsWindow, Hhmm
<1>4. CASE Day(t) # Day(u)
  <2>1. Day(t) < Day(u)
    BY <1>1, <1>4, DayGrows
  <2>2. PICK b \in BoundariesOf(w, "start", t) :
          Midnight(Day(t) + 1) <= b /\ b <= Midnight(Day(u)) + w.start
    BY <1>1, <1>2, <2>1, OpensBy
  <2>3. b \in Nat
    BY BoundariesAreInstants
  <2>4. Midnight(Day(t) + 1) = Midnight(Day(t)) + DayLen
    BY <1>1, NextMidnight
  <2> QED BY <1>1, <1>2, <2>2, <2>3, <2>4, LockMachineAssumption DEF IsWindow, Hhmm
<1> QED BY <1>3, <1>4

\* A window stays active until it ends, if it stays within its day.
LEMMA ActiveUntilEnd ==
  ASSUME NEW w, IsWindow(w), ~ IntoMorning(w), NEW t \in Nat, WindowActive(w, t)
  PROVE  \E b \in BoundariesOf(w, "end", t) :
            t < b /\ \A u \in Nat : t <= u /\ u < b => WindowActive(w, u)
<1> DEFINE shift == IF CrossesMidnight(w) THEN 1 ELSE 0
           b == Midnight(Day(t) + 0 + shift) + w.end
<1>1. /\ Day(t) \in Nat /\ Minute(t) \in Hhmm /\ t = Midnight(Day(t)) + Minute(t)
      /\ Midnight(Day(t)) \in Nat
  BY DayAndMinute
<1>2. /\ Masked(w, Day(t)) /\ w.start <= Minute(t)
      /\ ~ CrossesMidnight(w) => Minute(t) < w.end
      /\ CrossesMidnight(w) => w.end = 0
  BY <1>1 DEF WindowActive, IntoMorning, CrossesMidnight, IsWindow, Hhmm
<1>3. b \in BoundariesOf(w, "end", t)
  <2>1. 0 \in 0 .. Week /\ Day(t) + 0 = Day(t)
    BY <1>1, LockMachineAssumption
  <2> QED BY <1>2, <2>1 DEF BoundariesOf
<1>4. /\ b \in Nat /\ t < b /\ b <= Midnight(Day(t)) + DayLen
      /\ ~ CrossesMidnight(w) => b = Midnight(Day(t)) + w.end
  <2>1. CASE CrossesMidnight(w)
    <3>1. Day(t) + 0 + shift = Day(t) + 1
      BY <1>1, <2>1
    <3>2. Midnight(Day(t) + 1) = Midnight(Day(t)) + DayLen
      BY <1>1, NextMidnight
    <3>3. b = Midnight(Day(t)) + DayLen
      BY <1>1, <1>2, <2>1, <3>1, <3>2, LockMachineAssumption
    <3> QED BY <1>1, <2>1, <3>3, LockMachineAssumption DEF Hhmm
  <2>2. CASE ~ CrossesMidnight(w)
    <3>1. Day(t) + 0 + shift = Day(t)
      BY <1>1, <2>2
    <3> QED BY <1>1, <1>2, <2>2, <3>1, LockMachineAssumption DEF IsWindow, Hhmm
  <2> QED BY <2>1, <2>2
<1> HIDE DEF b
<1>5. ASSUME NEW u \in Nat, t <= u, u < b PROVE WindowActive(w, u)
  <2>1. /\ Day(u) \in Nat /\ Minute(u) \in Hhmm /\ u = Midnight(Day(u)) + Minute(u)
        /\ Midnight(Day(u)) \in Nat
    BY DayAndMinute
  <2>2. Day(u) = Day(t)
    <3>1. Day(t) <= Day(u)
      BY <1>5, DayGrows
    <3>2. ASSUME Day(t) < Day(u) PROVE FALSE
      <4>1. Midnight(Day(t)) + DayLen <= Midnight(Day(u))
        BY <1>1, <2>1, <3>2, DaysApart
      <4> QED BY <1>1, <1>4, <1>5, <2>1, <4>1, LockMachineAssumption DEF Hhmm
    <3> QED BY <1>1, <2>1, <3>1, <3>2
  <2>3. Minute(t) <= Minute(u) /\ (~ CrossesMidnight(w) => Minute(u) < w.end)
    BY <1>1, <1>4, <1>5, <2>1, <2>2 DEF Hhmm, IsWindow
  <2> QED BY <1>1, <1>2, <2>1, <2>2, <2>3 DEF WindowActive, IsWindow, Hhmm
<1> QED BY <1>3, <1>4, <1>5

-----------------------------------------------------------------------------
(* What the machine decides.                                               *)

\* Inputs as the server gathers them.
InputOK(k) ==
  /\ k \in [now : Nat, override : Override \cup {None},
            allow : SUBSET Window,
            windows : SUBSET [start : Hhmm, end : Hhmm, days : Mask, routine : Routines],
            runs : RunsOfADay, budget : Nat, used : Nat, play : Nat, rest : Nat,
            sat : Nat, burnAt : Nat \cup {None}]
  /\ k.burnAt # None => k.burnAt <= k.now

HoursShut(k) == k.allow # {} /\ ~SomeActive(k.allow, k.now)

\* The first rule that has something to say decides.
LEMMA Decided ==
  ASSUME NEW k, NEW i \in 1 .. 7, Speaks(k)[Precedence[i]],
         \A j \in 1 .. 7 : j < i => ~ Speaks(k)[Precedence[j]]
  PROVE  DecidingRule(k) = Precedence[i]
<1> DEFINE S == {j \in 1 .. 7 : Speaks(k)[Precedence[j]]}
<1>1. DOMAIN Precedence = 1 .. 7
  BY DEF Precedence
<1>2. DecidingRule(k) = Precedence[Min(S)]
  BY <1>1 DEF DecidingRule
<1>3. S \in SUBSET Nat /\ i \in S /\ \A j \in S : ~ (j < i)
  OBVIOUS
<1> HIDE DEF S
<1>4. Min(S) \in S /\ Min(S) <= i
  BY <1>3, Least
<1>5. Min(S) \in Nat /\ ~ (Min(S) < i) /\ i \in Nat
  BY <1>3, <1>4
<1>6. Min(S) = i
  BY <1>4, <1>5
<1> QED BY <1>2, <1>6

\* The rules, one by one.
LEMMA Rules ==
  ASSUME NEW k
  PROVE  /\ Speaks(k)[Precedence[1]] <=> Overridden(k)
         /\ Speaks(k)[Precedence[2]] <=> HoursShut(k)
         /\ Speaks(k)[Precedence[3]] <=> Demands(k, "in_progress")
         /\ Speaks(k)[Precedence[4]] <=> Demands(k, "done_pending")
         /\ Speaks(k)[Precedence[5]] <=> Remaining(k) = 0
         /\ Speaks(k)[Precedence[6]] <=> SittingFull(k)
         /\ Speaks(k)[Precedence[7]]
BY Zenon DEF Speaks, Precedence, HoursShut

\* The ruling of each.
LEMMA RulingOf ==
  ASSUME NEW k
  PROVE  /\ DecidingRule(k) = Precedence[1] =>
              ComputeLockState(k) =
                Ruling(IF k.override.mode = "unlock" THEN "UNLOCKED" ELSE "LOCKED_ROUTINE", k.override.until)
         /\ DecidingRule(k) = Precedence[2] =>
              ComputeLockState(k) = Ruling("LOCKED_HOURS", NextBoundary(k.allow, "start", k.now))
         /\ DecidingRule(k) = Precedence[3] => ComputeLockState(k) = Ruling("LOCKED_ROUTINE", None)
         /\ DecidingRule(k) = Precedence[4] => ComputeLockState(k) = Ruling("PENDING_APPROVAL", None)
         /\ DecidingRule(k) = Precedence[5] =>
              ComputeLockState(k) = Ruling("LOCKED_BUDGET", BudgetReliefAt(k.allow, k.now))
         /\ DecidingRule(k) = Precedence[6] =>
              ComputeLockState(k) = Ruling("LOCKED_BREAK", k.burnAt + k.rest)
         /\ DecidingRule(k) = Precedence[7] =>
              ComputeLockState(k) = Ruling("UNLOCKED", Soonest(Bounds(k)))
BY DEF ComputeLockState, Precedence

\* What each rule has to wait for, and what it says.
LEMMA Ruled ==
  ASSUME NEW k
  PROVE  \/ /\ Overridden(k)
            /\ ComputeLockState(k) =
                 Ruling(IF k.override.mode = "unlock" THEN "UNLOCKED" ELSE "LOCKED_ROUTINE", k.override.until)
         \/ /\ ~ Overridden(k) /\ HoursShut(k)
            /\ ComputeLockState(k) = Ruling("LOCKED_HOURS", NextBoundary(k.allow, "start", k.now))
         \/ /\ ~ Overridden(k) /\ ~ HoursShut(k) /\ Demands(k, "in_progress")
            /\ ComputeLockState(k) = Ruling("LOCKED_ROUTINE", None)
         \/ /\ ~ Overridden(k) /\ ~ HoursShut(k) /\ ~ Demands(k, "in_progress") /\ Demands(k, "done_pending")
            /\ ComputeLockState(k) = Ruling("PENDING_APPROVAL", None)
         \/ /\ ~ Overridden(k) /\ ~ HoursShut(k) /\ ~ Demands(k, "in_progress") /\ ~ Demands(k, "done_pending")
            /\ Remaining(k) = 0
            /\ ComputeLockState(k) = Ruling("LOCKED_BUDGET", BudgetReliefAt(k.allow, k.now))
         \/ /\ ~ Overridden(k) /\ ~ HoursShut(k) /\ ~ Demands(k, "in_progress") /\ ~ Demands(k, "done_pending")
            /\ Remaining(k) # 0 /\ SittingFull(k)
            /\ ComputeLockState(k) = Ruling("LOCKED_BREAK", k.burnAt + k.rest)
         \/ /\ ~ Overridden(k) /\ ~ HoursShut(k) /\ ~ Demands(k, "in_progress") /\ ~ Demands(k, "done_pending")
            /\ Remaining(k) # 0 /\ ~ SittingFull(k)
            /\ ComputeLockState(k) = Ruling("UNLOCKED", Soonest(Bounds(k)))
<1> DEFINE Says(i) == Speaks(k)[Precedence[i]]
<1>1. \A i \in 1 .. 7 : Says(i) /\ (\A j \in 1 .. 7 : j < i => ~ Says(j)) => DecidingRule(k) = Precedence[i]
  BY Decided
<1>2. /\ Says(1) <=> Overridden(k)
      /\ Says(2) <=> HoursShut(k)
      /\ Says(3) <=> Demands(k, "in_progress")
      /\ Says(4) <=> Demands(k, "done_pending")
      /\ Says(5) <=> Remaining(k) = 0
      /\ Says(6) <=> SittingFull(k)
      /\ Says(7)
  BY Rules
<1> HIDE DEF Says
<1>3. /\ Says(1) => DecidingRule(k) = Precedence[1]
      /\ ~ Says(1) /\ Says(2) => DecidingRule(k) = Precedence[2]
      /\ ~ Says(1) /\ ~ Says(2) /\ Says(3) => DecidingRule(k) = Precedence[3]
      /\ ~ Says(1) /\ ~ Says(2) /\ ~ Says(3) /\ Says(4) => DecidingRule(k) = Precedence[4]
      /\ ~ Says(1) /\ ~ Says(2) /\ ~ Says(3) /\ ~ Says(4) /\ Says(5) => DecidingRule(k) = Precedence[5]
      /\ ~ Says(1) /\ ~ Says(2) /\ ~ Says(3) /\ ~ Says(4) /\ ~ Says(5) /\ Says(6)
           => DecidingRule(k) = Precedence[6]
      /\ ~ Says(1) /\ ~ Says(2) /\ ~ Says(3) /\ ~ Says(4) /\ ~ Says(5) /\ ~ Says(6) /\ Says(7)
           => DecidingRule(k) = Precedence[7]
  <2>1. \A j \in 1 .. 7 : j = 1 \/ j = 2 \/ j = 3 \/ j = 4 \/ j = 5 \/ j = 6 \/ j = 7
    OBVIOUS
  <2> QED BY <1>1, <2>1
<1> QED BY <1>2, <1>3, RulingOf, Zenon

\* A ruling has a state and an end.
LEMMA RulingFields ==
  ASSUME NEW s, NEW u
  PROVE  Ruling(s, u).state = s /\ Ruling(s, u).until = u
BY DEF Ruling

-----------------------------------------------------------------------------
(* Whose word counts.                                                      *)

\* The rows of a kid: each has a number of its own, and each author one row per
\* scope; only minutes are bought, and they have an end.
RowsOK(rows) ==
  /\ rows \subseteq Override
  /\ \E n \in Nat : \A o \in rows : o.no <= n
  /\ \A o, p \in rows : o.no = p.no => o = p

\* The newest of some rows is one of them, and none is newer.
LEMMA NewestIsNewest ==
  ASSUME NEW rows, RowsOK(rows), rows # {}
  PROVE  Newest(rows) \in rows /\ \A p \in rows : Newest(rows).no >= p.no
<1>1. PICK n \in Nat : \A o \in rows : o.no \in Nat /\ o.no <= n
  BY DEF RowsOK, Override
<1> DEFINE S == {n - o.no : o \in rows}
<1>2. S \in SUBSET Nat /\ S # {}
  BY <1>1
<1>3. Min(S) \in S /\ \A x \in S : Min(S) <= x
  BY <1>2, Least
<1>4. PICK o \in rows : Min(S) = n - o.no
  BY <1>3
<1>5. \A p \in rows : o.no >= p.no
  <2> TAKE p \in rows
  <2>1. n - p.no \in S
    OBVIOUS
  <2>2. n - o.no <= n - p.no
    <3> HIDE DEF S
    <3> QED BY <1>3, <1>4, <2>1
  <2> QED BY <1>1, <2>2
<1>6. \E q \in rows : \A p \in rows : q.no >= p.no
  BY <1>5
<1> QED BY <1>6 DEF Newest

\* There is one newest row.
LEMMA OneNewest ==
  ASSUME NEW rows, RowsOK(rows), NEW o \in rows, \A p \in rows : o.no >= p.no
  PROVE  Newest(rows) = o
<1>1. Newest(rows) \in rows /\ \A p \in rows : Newest(rows).no >= p.no
  BY NewestIsNewest
<1>2. Newest(rows).no >= o.no /\ o.no >= Newest(rows).no /\ o.no \in Nat /\ Newest(rows).no \in Nat
  BY <1>1 DEF RowsOK, Override
<1>3. Newest(rows).no = o.no
  BY <1>2
<1> QED BY <1>1, <1>3 DEF RowsOK

\* The rows an author has live are rows.
LEMMA LiveRows ==
  ASSUME NEW rows, RowsOK(rows), NEW t, NEW source
  PROVE  /\ RowsOK(LiveOverrides(rows, t)) /\ RowsOK(By(source, LiveOverrides(rows, t)))
         /\ LiveOverrides(rows, t) \subseteq rows
BY DEF RowsOK, LiveOverrides, By

\* The override in charge: live, the newest of its author, and bought only when no
\* grown-up has one.
Charged(o, live) ==
  /\ o \in live
  /\ \A p \in live : p.source = o.source => o.no >= p.no
  /\ o.source = "purchase" => \A p \in live : p.source # "parent"

\* A row is in charge, or no row is live.
LEMMA InCharge ==
  ASSUME NEW rows, RowsOK(rows), NEW t
  PROVE  \/ ActiveOverride(rows, t) = None /\ LiveOverrides(rows, t) = {}
         \/ ActiveOverride(rows, t) # None /\ Charged(ActiveOverride(rows, t), LiveOverrides(rows, t))
<1> DEFINE live == LiveOverrides(rows, t)
           said == By("parent", live)
           bought == By("purchase", live)
<1>1. RowsOK(said) /\ RowsOK(bought) /\ live \subseteq Override
  BY LiveRows DEF RowsOK
<1>2. ActiveOverride(rows, t) = IF said # {} THEN Newest(said) ELSE Newest(bought)
  BY DEF ActiveOverride
<1>3. \A o \in live : o # None
  BY <1>1, ScreenLockAssumption
<1>4. said = {o \in live : o.source = "parent"} /\ bought = {o \in live : o.source = "purchase"}
  BY DEF By
<1>5. \A o \in live : o.source = "parent" \/ o.source = "purchase"
  BY <1>1 DEF Override
<1> HIDE DEF live, said, bought
<1>6. CASE said # {}
  <2>1. Newest(said) \in said /\ \A p \in said : Newest(said).no >= p.no
    BY <1>1, <1>6, NewestIsNewest
  <2> QED BY <1>2, <1>3, <1>4, <1>6, <2>1 DEF Charged, live
<1>7. CASE said = {} /\ bought # {}
  <2>1. Newest(bought) \in bought /\ \A p \in bought : Newest(bought).no >= p.no
    BY <1>1, <1>7, NewestIsNewest
  <2> QED BY <1>2, <1>3, <1>4, <1>7, <2>1 DEF Charged, live
<1>8. CASE said = {} /\ bought = {}
  <2>1. live = {}
    BY <1>4, <1>5, <1>8
  <2> QED BY <1>2, <1>8, <2>1 DEF Newest, live
<1> QED BY <1>6, <1>7, <1>8

\* No other row can be.
LEMMA OnlyInCharge ==
  ASSUME NEW rows, RowsOK(rows), NEW t, NEW o, Charged(o, LiveOverrides(rows, t))
  PROVE  ActiveOverride(rows, t) = o
<1> DEFINE live == LiveOverrides(rows, t)
           said == By("parent", live)
           bought == By("purchase", live)
<1>1. RowsOK(said) /\ RowsOK(bought) /\ live \subseteq Override
  BY LiveRows DEF RowsOK
<1>2. ActiveOverride(rows, t) = IF said # {} THEN Newest(said) ELSE Newest(bought)
  BY DEF ActiveOverride
<1>3. said = {q \in live : q.source = "parent"} /\ bought = {q \in live : q.source = "purchase"}
  BY DEF By
<1>4. o \in live /\ (o.source = "parent" \/ o.source = "purchase")
  BY <1>1 DEF Override, Charged
<1>5. CASE o.source = "parent"
  <2>1. o \in said /\ \A p \in said : o.no >= p.no
    BY <1>3, <1>4, <1>5 DEF Charged
  <2> QED BY <1>1, <1>2, <2>1, OneNewest
<1>6. CASE o.source = "purchase"
  <2>1. o \in bought /\ \A p \in bought : o.no >= p.no
    BY <1>3, <1>4, <1>6 DEF Charged
  <2>2. said = {}
    BY <1>3, <1>6 DEF Charged
  <2> QED BY <1>1, <1>2, <2>1, <2>2, OneNewest
<1> QED BY <1>4, <1>5, <1>6

\* Rows only run out.
LEMMA LiveShrinks ==
  ASSUME NEW rows, RowsOK(rows), NEW t \in Nat, NEW u \in Nat, t <= u
  PROVE  LiveOverrides(rows, u) \subseteq LiveOverrides(rows, t)
BY DEF LiveOverrides, RowsOK, Override

\* The override in charge is in charge until it runs out.
LEMMA StillInCharge ==
  ASSUME NEW rows, RowsOK(rows), NEW t \in Nat, NEW u \in Nat, t <= u,
         ActiveOverride(rows, t) # None,
         ActiveOverride(rows, t).until = None \/ ActiveOverride(rows, t).until >= u
  PROVE  ActiveOverride(rows, u) = ActiveOverride(rows, t)
<1> DEFINE o == ActiveOverride(rows, t)
<1>1. Charged(o, LiveOverrides(rows, t))
  BY InCharge
<1>2. o \in LiveOverrides(rows, u)
  BY <1>1 DEF LiveOverrides, Charged
<1>3. Charged(o, LiveOverrides(rows, u))
  BY <1>1, <1>2, LiveShrinks DEF Charged
<1> QED BY <1>3, OnlyInCharge

\* When nothing is said, time alone says nothing.
LEMMA NobodyInCharge ==
  ASSUME NEW rows, RowsOK(rows), NEW t \in Nat, NEW u \in Nat, t <= u,
         ActiveOverride(rows, t) = None
  PROVE  ActiveOverride(rows, u) = None
<1>1. LiveOverrides(rows, u) = {}
  BY InCharge, LiveShrinks DEF Charged
<1> QED BY <1>1, InCharge DEF Charged

-----------------------------------------------------------------------------
(* When the answer changes.                                                *)

\* Today ends at midnight.
LEMMA MidnightAhead ==
  ASSUME NEW t \in Nat
  PROVE  /\ Midnight(Day(t) + 1) \in Nat /\ Midnight(Day(t) + 1) > t
         /\ Day(Midnight(Day(t) + 1)) = Day(t) + 1 /\ Minute(Midnight(Day(t) + 1)) = 0
         /\ Midnight(Day(t) + 1) - 1 \in Nat /\ Day(Midnight(Day(t) + 1) - 1) = Day(t)
<1> DEFINE reset == Midnight(Day(t) + 1)
<1>1. /\ Day(t) \in Nat /\ Day(t) + 1 \in Nat /\ Minute(t) \in Hhmm /\ 0 \in Hhmm /\ DayLen - 1 \in Hhmm
      /\ Midnight(Day(t)) \in Nat /\ t = Midnight(Day(t)) + Minute(t)
  BY DayAndMinute, LockMachineAssumption DEF Hhmm
<1>2. reset \in Nat /\ Midnight(Day(t)) \in Nat /\ reset = Midnight(Day(t)) + DayLen
  BY <1>1, NextMidnight, InstantOf
<1>3. Day(reset + 0) = Day(t) + 1 /\ Minute(reset + 0) = 0
  BY <1>1, InstantOf
<1>4. Day(Midnight(Day(t)) + (DayLen - 1)) = Day(t)
  BY <1>1, InstantOf
<1> HIDE DEF reset
<1>5. reset + 0 = reset /\ Midnight(Day(t)) + (DayLen - 1) = reset - 1 /\ reset > t /\ reset - 1 \in Nat
  BY <1>1, <1>2, LockMachineAssumption DEF Hhmm
<1>6. Day(reset) = Day(t) + 1 /\ Minute(reset) = 0 /\ Day(reset - 1) = Day(t)
  BY <1>3, <1>4, <1>5
<1> QED BY <1>2, <1>5, <1>6 DEF reset

\* A window active on a later day has opened by then -- unless it was open at midnight.
LEMMA OpenedSince ==
  ASSUME NEW w, IsWindow(w), NEW t \in Nat, NEW u \in Nat, Day(t) < Day(u), WindowActive(w, u)
  PROVE  \/ WindowActive(w, Midnight(Day(t) + 1))
         \/ \E b \in BoundariesOf(w, "start", Midnight(Day(t) + 1) - 1) :
               Midnight(Day(t) + 1) <= b /\ b <= u
<1> DEFINE reset == Midnight(Day(t) + 1)
           eve == reset - 1
<1>1. /\ reset \in Nat /\ eve \in Nat /\ Day(eve) = Day(t) /\ Day(reset) = Day(t) + 1 /\ Minute(reset) = 0
  BY MidnightAhead
<1>2. /\ Day(u) \in Nat /\ Minute(u) \in Hhmm /\ u = Midnight(Day(u)) + Minute(u) /\ Midnight(Day(u)) \in Nat
      /\ Day(t) \in Nat
  BY DayAndMinute
<1> HIDE DEF reset, eve
<1>3. ASSUME NEW d \in Nat, Day(t) < d, Masked(w, d), Midnight(d) + w.start <= u
      PROVE  \E b \in BoundariesOf(w, "start", eve) : reset <= b /\ b <= u
  <2>1. PICK b \in BoundariesOf(w, "start", eve) : reset <= b /\ b <= Midnight(d) + w.start
    BY <1>1, <1>3, OpensBy DEF reset
  <2>2. b \in Nat /\ Midnight(d) + w.start \in Nat
    BY <1>1, BoundariesAreInstants, InstantOf DEF IsWindow
  <2> QED BY <1>3, <2>1, <2>2
<1>4. CASE Masked(w, Day(u)) /\ w.start <= Minute(u)
  <2>1. Midnight(Day(u)) + w.start <= u
    BY <1>2, <1>4 DEF IsWindow, Hhmm
  <2> QED BY <1>2, <1>3, <1>4, <2>1 DEF reset, eve
<1>5. CASE CrossesMidnight(w) /\ Masked(w, Day(u) + Week - 1) /\ Minute(u) < w.end
  <2> DEFINE d == Day(u) - 1
  <2>1. d \in Nat /\ Day(u) = d + 1 /\ Day(t) <= d
    BY <1>2
  <2>2. Masked(w, d)
    <3>1. (d + 1 + Week - 1) % Week = d % Week
      BY <2>1, DayBefore
    <3>2. d + 1 + Week - 1 = Day(u) + Week - 1
      BY <2>1
    <3> QED BY <1>5, <3>1, <3>2 DEF Masked
  <2> HIDE DEF d
  <2>3. CASE Day(t) < d
    <3>1. Midnight(d) \in Nat /\ Midnight(Day(u)) = Midnight(d) + DayLen
      BY <2>1, NextMidnight
    <3>2. Midnight(d) + w.start <= u
      BY <1>2, <3>1, LockMachineAssumption DEF IsWindow, Hhmm
    <3> QED BY <1>3, <2>1, <2>2, <2>3, <3>2 DEF reset, eve
  <2>4. CASE Day(t) = d
    <3>1. Day(reset) = Day(u) /\ Minute(reset) < w.end
      BY <1>1, <1>2, <1>5, <2>1, <2>4 DEF IsWindow, Hhmm
    <3> QED BY <1>5, <3>1 DEF WindowActive, reset
  <2> QED BY <1>2, <2>1, <2>3, <2>4
<1>6. \/ Masked(w, Day(u)) /\ w.start <= Minute(u)
      \/ CrossesMidnight(w) /\ Masked(w, Day(u) + Week - 1) /\ Minute(u) < w.end
  BY <1>2 DEF WindowActive, IsWindow, Hhmm
<1> QED BY <1>4, <1>5, <1>6

\* A window that was ever active opens again.
LEMMA OpensAgain ==
  ASSUME NEW w, IsWindow(w), NEW t \in Nat, WindowActive(w, t)
  PROVE  \E b \in BoundariesOf(w, "start", Midnight(Day(t) + 1) - 1) : b >= Midnight(Day(t) + 1)
<1> DEFINE reset == Midnight(Day(t) + 1)
           eve == reset - 1
<1>1. reset \in Nat /\ eve \in Nat /\ Day(eve) = Day(t)
  BY MidnightAhead
<1>2. Day(t) \in Nat /\ Day(t) + Week - 1 \in Nat
  BY DayAndMinute, LockMachineAssumption
<1> HIDE DEF reset, eve
<1>3. ASSUME NEW d \in Nat, Day(t) <= d + Week - 1, Masked(w, d)
      PROVE  \E b \in BoundariesOf(w, "start", eve) : b >= reset
  <2>1. (d + 1 * Week) % Week = d % Week
    BY WeeksRepeat
  <2>2. d + 1 * Week = d + Week /\ d + Week \in Nat /\ Day(t) < d + Week
    BY <1>2, <1>3, LockMachineAssumption
  <2>3. Masked(w, d + Week)
    BY <1>3, <2>1, <2>2 DEF Masked
  <2>4. PICK b \in BoundariesOf(w, "start", eve) : reset <= b /\ b <= Midnight(d + Week) + w.start
    BY <1>1, <2>2, <2>3, OpensBy DEF reset
  <2>5. b \in Nat
    BY <1>1, BoundariesAreInstants
  <2> QED BY <1>1, <2>4, <2>5
<1>4. Masked(w, Day(t)) \/ Masked(w, Day(t) + Week - 1)
  BY DEF WindowActive
<1>5. CASE Masked(w, Day(t))
  BY <1>2, <1>3, <1>5, LockMachineAssumption DEF reset, eve
<1>6. CASE Masked(w, Day(t) + Week - 1)
  <2>1. Day(t) <= (Day(t) + Week - 1) + Week - 1
    BY <1>2, LockMachineAssumption
  <2> QED BY <1>2, <1>3, <1>6, <2>1 DEF reset, eve
<1> QED BY <1>4, <1>5, <1>6

\* A spent kid is told the moment the meter is fresh and the hours are open: until
\* then the tablet is shut by one or the other.
LEMMA ReliefIsReal ==
  ASSUME NEW allow, \A w \in allow : IsWindow(w), NEW t \in Nat, allow = {} \/ SomeActive(allow, t)
  PROVE  /\ BudgetReliefAt(allow, t) \in Nat /\ BudgetReliefAt(allow, t) >= Midnight(Day(t) + 1)
         /\ \A u \in Nat : Day(t) < Day(u) /\ u < BudgetReliefAt(allow, t)
              => allow # {} /\ ~ SomeActive(allow, u)
         /\ allow = {} \/ SomeActive(allow, BudgetReliefAt(allow, t))
<1> DEFINE reset == Midnight(Day(t) + 1)
           eve == reset - 1
           until == BudgetReliefAt(allow, t)
<1>1. /\ reset \in Nat /\ eve \in Nat /\ Day(eve) = Day(t) /\ Day(reset) = Day(t) + 1
  BY MidnightAhead
<1>2. Day(t) \in Nat
  BY DayAndMinute
<1>3. until = IF allow = {} \/ SomeActive(allow, reset) THEN reset ELSE NextBoundary(allow, "start", eve)
  BY DEF BudgetReliefAt
<1>4. \A u \in Nat : Day(t) < Day(u) => u >= reset
  <2> TAKE u \in Nat
  <2>1. HAVE Day(t) < Day(u)
  <2>2. CASE u < reset
    <3>1. u <= eve
      BY <1>1, <2>2
    <3>2. Day(u) <= Day(eve)
      BY <1>1, <3>1, DayGrows
    <3> QED BY <1>1, <1>2, <2>1, <3>2, DayAndMinute
  <2> QED BY <1>1, <2>2
<1>5. CASE allow = {} \/ SomeActive(allow, reset)
  <2>1. until = reset
    BY <1>3, <1>5
  <2> HIDE DEF until, reset
  <2>2. \A u \in Nat : ~ (Day(t) < Day(u) /\ u < until)
    BY <1>1, <1>4, <2>1
  <2>3. until \in Nat /\ until >= reset /\ (allow = {} \/ SomeActive(allow, until))
    BY <1>1, <1>5, <2>1
  <2> QED BY <2>2, <2>3 DEF until, reset
<1>6. CASE allow # {} /\ ~ SomeActive(allow, reset)
  <2>1. until = NextBoundary(allow, "start", eve)
    BY <1>3, <1>6
  <2>2. PICK v \in allow : WindowActive(v, t) /\ IsWindow(v)
    BY <1>6 DEF SomeActive
  <2>3. PICK c \in BoundariesOf(v, "start", eve) : c >= reset
    BY <2>2, OpensAgain
  <2> HIDE DEF until, reset
  <2>4. c > eve
    <3>1. c \in Nat
      BY <1>1, <2>2, <2>3, BoundariesAreInstants
    <3> QED BY <1>1, <2>3, <3>1
  <2> HIDE DEF eve
  <2>5. /\ until \in Nat /\ until > eve
        /\ \E w \in allow : until \in BoundariesOf(w, "start", eve)
        /\ \A w \in allow : \A b \in BoundariesOf(w, "start", eve) : b > eve => until <= b
    BY <1>1, <2>1, <2>2, <2>3, <2>4, NextBoundaryIsNext
  <2>6. until >= reset
    BY <1>1, <2>5 DEF eve
  <2>7. ASSUME NEW u \in Nat, Day(t) < Day(u), u < until, SomeActive(allow, u) PROVE FALSE
    <3>1. PICK w \in allow : WindowActive(w, u) /\ IsWindow(w)
      BY <2>7 DEF SomeActive
    <3>2. PICK b \in BoundariesOf(w, "start", eve) : reset <= b /\ b <= u
      BY <1>6, <2>7, <3>1, OpenedSince DEF SomeActive, reset, eve
    <3>3. b \in Nat
      BY <1>1, <3>1, BoundariesAreInstants
    <3>4. b > eve
      BY <1>1, <3>2, <3>3 DEF eve
    <3>5. until <= b
      BY <2>5, <3>4
    <3> QED BY <2>5, <2>7, <3>2, <3>3, <3>5
  <2>8. SomeActive(allow, until)
    BY <1>1, <2>5, ActiveAtStart DEF SomeActive
  <2>9. \A u \in Nat : Day(t) < Day(u) /\ u < until => allow # {} /\ ~ SomeActive(allow, u)
    BY <1>6, <2>7
  <2> QED BY <2>5, <2>6, <2>8, <2>9 DEF until, reset
<1> QED BY <1>5, <1>6

\* What is left of the meter.
LEMMA LeftOver ==
  ASSUME NEW k, InputOK(k)
  PROVE  /\ Remaining(k) \in Nat \cup {None}
         /\ Remaining(k) = None <=> k.budget = 0
         /\ Remaining(k) # None => (Remaining(k) = 0 <=> k.budget <= k.used)
<1>1. k.budget \in Nat /\ k.used \in Nat /\ None \notin Nat
  BY LockMachineAssumption DEF InputOK
<1> DEFINE d == k.budget - k.used
<1>2. Max({0, d}) \in {0, d} /\ Max({0, d}) >= 0 /\ Max({0, d}) >= d
  <2>1. d \in Int /\ 0 \in Int
    BY <1>1
  <2> HIDE DEF d
  <2> QED BY <2>1, Greater
<1>3. CASE k.budget = 0
  BY <1>1, <1>3 DEF Remaining
<1>4. CASE k.budget # 0
  <2>1. Remaining(k) = Max({0, k.budget - k.used})
    BY <1>4 DEF Remaining
  <2> QED BY <1>1, <1>2, <1>4, <2>1
<1> QED BY <1>3, <1>4

\* A break ends after it was taken; a sitting that may go on has time left.
LEMMA SittingEnds ==
  ASSUME NEW k, InputOK(k)
  PROVE  /\ SatSoFar(k) \in Nat
         /\ SittingFull(k) => k.burnAt + k.rest \in Nat /\ k.burnAt + k.rest > k.now
         /\ SittingRule(k) /\ ~ SittingFull(k) =>
              k.now + k.play - SatSoFar(k) \in Nat /\ k.now + k.play - SatSoFar(k) > k.now
<1>1. /\ k.now \in Nat /\ k.play \in Nat /\ k.rest \in Nat /\ k.sat \in Nat /\ k.burnAt \in Nat \cup {None}
      /\ None \notin Nat
  BY LockMachineAssumption DEF InputOK
<1>2. SatSoFar(k) \in Nat
  BY <1>1 DEF SatSoFar
<1>3. ASSUME SittingFull(k) PROVE k.burnAt + k.rest \in Nat /\ k.burnAt + k.rest > k.now
  <2>1. ~ Rested(k)
    BY <1>1, <1>3 DEF SittingFull, SittingRule, SatSoFar
  <2> QED BY <1>1, <2>1 DEF Rested
<1>4. ASSUME SittingRule(k), ~ SittingFull(k)
      PROVE  k.now + k.play - SatSoFar(k) \in Nat /\ k.now + k.play - SatSoFar(k) > k.now
  BY <1>1, <1>2, <1>4 DEF SittingFull
<1> QED BY <1>2, <1>3, <1>4

\* The windows of the rules.
LEMMA WindowsAreWindows ==
  ASSUME NEW k, InputOK(k)
  PROVE  /\ k.now \in Nat
         /\ \A w \in k.allow : IsWindow(w)
         /\ \A w \in k.windows : IsWindow(w)
BY DEF InputOK, IsWindow, Window

\* What ends an unlocked stretch is to come.
LEMMA BoundsAhead ==
  ASSUME NEW k, InputOK(k), Remaining(k) # 0, ~ SittingFull(k)
  PROVE  /\ Bounds(k) \in SUBSET (Nat \cup {None})
         /\ \A b \in Bounds(k) : b # None => b > k.now
<1>1. k.now \in Nat /\ None \notin Nat
  BY WindowsAreWindows, LockMachineAssumption
<1>2. /\ NextBoundary(k.allow, "end", k.now) \in Nat \cup {None}
      /\ NextBoundary(k.allow, "end", k.now) # None => NextBoundary(k.allow, "end", k.now) > k.now
  BY <1>1, WindowsAreWindows, NextBoundaryIsNext
<1>3. /\ NextBoundary(k.windows, "start", k.now) \in Nat \cup {None}
      /\ NextBoundary(k.windows, "start", k.now) # None => NextBoundary(k.windows, "start", k.now) > k.now
  BY <1>1, WindowsAreWindows, NextBoundaryIsNext
<1> DEFINE spent == IF Remaining(k) = None THEN None ELSE k.now + Remaining(k)
           sitting == IF SittingRule(k) THEN k.now + k.play - SatSoFar(k) ELSE None
<1>4. spent \in Nat \cup {None} /\ (spent # None => spent > k.now)
  BY <1>1, LeftOver
<1>5. sitting \in Nat \cup {None} /\ (sitting # None => sitting > k.now)
  BY <1>1, SittingEnds
<1>6. Bounds(k) = {spent, sitting, NextBoundary(k.allow, "end", k.now), NextBoundary(k.windows, "start", k.now)}
  BY DEF Bounds
<1> HIDE DEF spent, sitting
<1> QED BY <1>2, <1>3, <1>4, <1>5, <1>6

\* Every answer has its shape, and counts down to a moment to come.
LEMMA AnswerTyped ==
  ASSUME NEW k, InputOK(k)
  PROVE  /\ Payload(k) \in [state : LockStates, until : Nat \cup {None}, at : {k.now},
                            left : Nat \cup {None}, overridden : BOOLEAN, missed : {FALSE}]
         /\ Payload(k).until # None => Payload(k).until > k.now
<1> DEFINE r == ComputeLockState(k)
<1>1. k.now \in Nat /\ None \notin Nat /\ \A w \in k.allow \cup k.windows : IsWindow(w)
  BY WindowsAreWindows, LockMachineAssumption
<1>2. Remaining(k) \in Nat \cup {None} /\ Overridden(k) \in BOOLEAN
  BY LeftOver DEF Overridden
<1>3. r.state \in LockStates /\ r.until \in Nat \cup {None} /\ (r.until # None => r.until > k.now)
  <2>1. CASE /\ Overridden(k)
             /\ r = Ruling(IF k.override.mode = "unlock" THEN "UNLOCKED" ELSE "LOCKED_ROUTINE", k.override.until)
    <3>1. k.override \in Override /\ (k.override.until = None \/ k.override.until > k.now)
      BY <2>1 DEF InputOK, Overridden
    <3> QED BY <2>1, <3>1 DEF Ruling, LockStates, Override
  <2>2. CASE r = Ruling("LOCKED_HOURS", NextBoundary(k.allow, "start", k.now))
    <3>1. /\ NextBoundary(k.allow, "start", k.now) \in Nat \cup {None}
          /\ NextBoundary(k.allow, "start", k.now) # None => NextBoundary(k.allow, "start", k.now) > k.now
      BY <1>1, NextBoundaryIsNext
    <3> QED BY <2>2, <3>1 DEF Ruling, LockStates
  <2>3. CASE r = Ruling("LOCKED_ROUTINE", None) \/ r = Ruling("PENDING_APPROVAL", None)
    BY <2>3 DEF Ruling, LockStates
  <2>4. CASE ~ HoursShut(k) /\ r = Ruling("LOCKED_BUDGET", BudgetReliefAt(k.allow, k.now))
    <3>1. /\ BudgetReliefAt(k.allow, k.now) \in Nat /\ BudgetReliefAt(k.allow, k.now) >= Midnight(Day(k.now) + 1)
      BY <1>1, <2>4, ReliefIsReal DEF HoursShut
    <3>2. Midnight(Day(k.now) + 1) \in Nat /\ Midnight(Day(k.now) + 1) > k.now
      BY <1>1, MidnightAhead
    <3>3. BudgetReliefAt(k.allow, k.now) > k.now
      BY <1>1, <3>1, <3>2
    <3> QED BY <2>4, <3>1, <3>3 DEF Ruling, LockStates
  <2>5. CASE SittingFull(k) /\ r = Ruling("LOCKED_BREAK", k.burnAt + k.rest)
    BY <2>5, SittingEnds DEF Ruling, LockStates
  <2>6. CASE Remaining(k) # 0 /\ ~ SittingFull(k) /\ r = Ruling("UNLOCKED", Soonest(Bounds(k)))
    <3>1. Bounds(k) \in SUBSET (Nat \cup {None}) /\ \A b \in Bounds(k) : b # None => b > k.now
      BY <2>6, BoundsAhead
    <3>2. Soonest(Bounds(k)) = None \/ (Soonest(Bounds(k)) \in Bounds(k) /\ Soonest(Bounds(k)) \in Nat)
      BY <3>1, SoonestIsLeast
    <3>3. Soonest(Bounds(k)) \in Nat \cup {None} /\ (Soonest(Bounds(k)) # None => Soonest(Bounds(k)) > k.now)
      BY <1>1, <3>1, <3>2
    <3> QED BY <2>6, <3>3 DEF Ruling, LockStates
  <2> HIDE DEF r
  <2> QED BY <2>1, <2>2, <2>3, <2>4, <2>5, <2>6, Ruled DEF r
<1> QED BY <1>2, <1>3 DEF Payload

-----------------------------------------------------------------------------
(* Rows and answers keep their shape.                                      *)

\* The rows as the handlers leave them.
RowsTyped ==
  /\ now \in 0 .. LastInstant
  /\ rules \in Schedules
  /\ overrides \subseteq Override /\ \A o \in overrides : o.no \in 1 .. writes
  /\ runs \in RunsOfADay
  /\ usage \in UsageBy(now)
  /\ online \in BOOLEAN /\ pending \in Nat /\ writes \in 0 .. MaxWrites

\* The answer the tablet holds.
TabletTyped ==
  /\ tablet \in [state : LockStates, until : Nat \cup {None}, at : 0 .. now,
                 left : Nat \cup {None}, overridden : BOOLEAN, missed : BOOLEAN]
  /\ tablet.until # None => tablet.until > tablet.at

\* The two halves of the type invariant.
LEMMA TypeParts == TypeOK <=> RowsTyped /\ TabletTyped
BY DEF TypeOK, RowsTyped, TabletTyped, RunsOfADay, UsageBy

\* An answer to the present moment is an answer a tablet may hold.
LEMMA FreshAnswer ==
  ASSUME NEW n \in Nat, NEW r,
         r \in [state : LockStates, until : Nat \cup {None}, at : {n},
                left : Nat \cup {None}, overridden : BOOLEAN, missed : {FALSE}]
  PROVE  /\ r \in [state : LockStates, until : Nat \cup {None}, at : 0 .. n,
                    left : Nat \cup {None}, overridden : BOOLEAN, missed : BOOLEAN]
         /\ r.at = n /\ r.missed = FALSE
<1>1. n \in 0 .. n /\ {n} \subseteq 0 .. n /\ {FALSE} \subseteq BOOLEAN
  OBVIOUS
<1> DEFINE Moments == 0 .. n
<1>2. {n} \subseteq Moments
  BY <1>1
<1> HIDE DEF Moments
<1>3. r \in [state : LockStates, until : Nat \cup {None}, at : Moments,
             left : Nat \cup {None}, overridden : BOOLEAN, missed : BOOLEAN]
  BY <1>2
<1> QED BY <1>3 DEF Moments

\* The rows and their numbers.
LEMMA RowsAreOK == RowsTyped /\ OverridesOK => RowsOK(overrides)
<1> SUFFICES ASSUME RowsTyped, OverridesOK PROVE RowsOK(overrides)
  OBVIOUS
<1>1. writes \in Nat /\ \A o \in overrides : o.no <= writes
  BY ScreenLockAssumption DEF RowsTyped
<1> QED BY <1>1 DEF RowsTyped, OverridesOK, RowsOK

\* What the server gathers are inputs of the machine.
LEMMA InputsAtOK ==
  RowsTyped /\ OverridesOK =>
    \A t \in Nat : \A statuses \in RunsOfADay, row \in UsageBy(t) : InputOK(InputsAt(t, statuses, row))
<1> SUFFICES ASSUME RowsTyped, OverridesOK, NEW t \in Nat, NEW statuses \in RunsOfADay, NEW row \in UsageBy(t)
             PROVE  InputOK(InputsAt(t, statuses, row))
  OBVIOUS
<1> DEFINE k == InputsAt(t, statuses, row)
<1>1. ActiveOverride(overrides, t) \in Override \cup {None}
  <2>1. LiveOverrides(overrides, t) \subseteq Override
    BY DEF LiveOverrides, RowsTyped
  <2> QED BY <2>1, RowsAreOK, InCharge DEF Charged
<1>2. /\ rules.allow \in SUBSET Window
      /\ rules.windows \in SUBSET [start : Hhmm, end : Hhmm, days : Mask, routine : Routines]
      /\ rules.daily \in Nat /\ rules.play \in Nat /\ rules.rest \in Nat
  BY ScreenLockAssumption DEF RowsTyped
<1>3. /\ row.used \in Nat /\ row.earned \in Nat /\ row.sat \in Nat /\ row.burnAt \in Nat \cup {None}
      /\ row.burnAt # None => row.burnAt <= t
  BY ScreenLockAssumption DEF UsageBy
<1>4. (IF rules.daily > 0 THEN rules.daily + row.earned ELSE 0) \in Nat
  BY <1>2, <1>3
<1> QED BY <1>1, <1>2, <1>3, <1>4 DEF InputsAt, InputOK

\* The answer to the present moment has its shape.
LEMMA AnswerNow ==
  RowsTyped /\ OverridesOK =>
    /\ Payload(Inputs) \in [state : LockStates, until : Nat \cup {None}, at : {now},
                            left : Nat \cup {None}, overridden : BOOLEAN, missed : {FALSE}]
    /\ Payload(Inputs).until # None => Payload(Inputs).until > now
<1> SUFFICES ASSUME RowsTyped, OverridesOK
             PROVE  /\ Payload(Inputs) \in [state : LockStates, until : Nat \cup {None}, at : {now},
                            left : Nat \cup {None}, overridden : BOOLEAN, missed : {FALSE}]
                    /\ Payload(Inputs).until # None => Payload(Inputs).until > now
  OBVIOUS
<1>1. now \in Nat /\ runs \in RunsOfADay /\ usage \in UsageBy(now)
  BY ScreenLockAssumption DEF RowsTyped
<1>2. InputOK(Inputs) /\ Inputs.now = now
  BY <1>1, InputsAtOK DEF Inputs, InputsAt
<1> HIDE DEF Inputs
<1> QED BY <1>2, AnswerTyped

\* A tablet that was just answered.
LEMMA Answered == RowsTyped /\ OverridesOK /\ tablet = Payload(Inputs) => TabletTyped /\ AnswerOK
<1> SUFFICES ASSUME RowsTyped, OverridesOK, tablet = Payload(Inputs) PROVE TabletTyped /\ AnswerOK
  OBVIOUS
<1>1. now \in Nat /\ runs \in RunsOfADay /\ usage \in UsageBy(now)
  BY ScreenLockAssumption DEF RowsTyped
<1>2. /\ tablet \in [state : LockStates, until : Nat \cup {None}, at : {now},
                     left : Nat \cup {None}, overridden : BOOLEAN, missed : {FALSE}]
      /\ tablet.until # None => tablet.until > now
  BY AnswerNow
<1>3. TabletTyped /\ tablet.at = now
  BY <1>1, <1>2, FreshAnswer DEF TabletTyped
<1>4. AnswerOf(runs, usage)
  BY <1>3, Zenon DEF AnswerOf, Inputs
<1> QED BY <1>1, <1>3, <1>4 DEF AnswerOK

\* The same of the moment after a step.
LEMMA AnsweredNext == (RowsTyped /\ OverridesOK /\ tablet = Payload(Inputs) => TabletTyped /\ AnswerOK)'
BY Answered, PTL

\* The first answer.
LEMMA InitOK == Init => RowsTyped /\ OverridesOK /\ TabletTyped /\ AnswerOK
<1> SUFFICES ASSUME Init PROVE RowsTyped /\ OverridesOK /\ TabletTyped /\ AnswerOK
  OBVIOUS
<1>1. NoRuns \in RunsOfADay /\ NoUsage \in UsageBy(0)
  BY ScreenLockAssumption DEF NoRuns, RunsOfADay, NoUsage, UsageBy
<1>2. RowsTyped /\ OverridesOK
  BY <1>1, ScreenLockAssumption DEF Init, RowsTyped, OverridesOK, By
<1> QED BY <1>2, Answered DEF Init

\* A change is published to a tablet that is online; the others miss it.
LEMMA PublishOK ==
  ASSUME TabletTyped, RowsTyped', OverridesOK', now' = now, Publish
  PROVE  TabletTyped' /\ AnswerOK'
<1>1. CASE tablet' = Payload(Inputs)'
  BY <1>1, AnsweredNext
<1>2. CASE tablet' = [tablet EXCEPT !.missed = TRUE]
  BY <1>2 DEF TabletTyped, AnswerOK
<1>3. tablet' = Payload(Inputs') \/ tablet' = [tablet EXCEPT !.missed = TRUE]
  BY DEF Publish
<1> QED BY <1>1, <1>2, <1>3

\* An answer is kept while nothing it rests on changes.
LEMMA AnswerKept ==
  ASSUME TabletTyped, AnswerOK, UNCHANGED <<now, rules, overrides, runs, usage, tablet>>
  PROVE  TabletTyped' /\ AnswerOK'
<1>1. TabletTyped'
  BY DEF TabletTyped
<1>2. ASSUME NEW t, NEW s, NEW u PROVE InputsAt(t, s, u)' = InputsAt(t, s, u)
  BY DEF InputsAt
<1>3. ASSUME NEW s, NEW u, AnswerOf(s, u) PROVE AnswerOf(s, u)'
  BY <1>2, <1>3 DEF AnswerOf
<1> QED BY <1>1, <1>3 DEF AnswerOK

-----------------------------------------------------------------------------
(* The rows, operation by operation.                                       *)

\* Rows numbered up to n, one of each author and scope.
OneEach(rows, n) ==
  /\ rows \subseteq Override
  /\ \A o \in rows : o.no \in 1 .. n
  /\ \A o, p \in rows : o.no = p.no => o = p
  /\ \A o, p \in rows : o.source = p.source /\ o.scope = p.scope => o = p
  /\ \A o \in rows : o.source = "purchase" => o.scope = "kid" /\ o.until # None

\* The rows and the other tables.
LEMMA OneOfEach ==
  now \in 0 .. LastInstant /\ rules \in Schedules /\ runs \in RunsOfADay /\ usage \in UsageBy(now)
  /\ online \in BOOLEAN /\ pending \in Nat /\ writes \in 0 .. MaxWrites /\ OneEach(overrides, writes)
  <=> RowsTyped /\ OverridesOK
BY DEF RowsTyped, OverridesOK, OneEach, By

\* An override replaces its author's row of that scope.
LEMMA SetOverrideOK ==
  ASSUME NEW n \in Nat, NEW rows, OneEach(rows, n), NEW row \in Override, row.no = n + 1,
         row.source = "purchase" => row.scope = "kid" /\ row.until # None
  PROVE  OneEach(SetOverride(rows, row), n + 1)
<1>1. \A o \in rows : o \in Override /\ o.no \in 1 .. n /\ o.no \in 1 .. n + 1 /\ o.no # n + 1
  BY DEF OneEach
<1>2. row.no \in 1 .. n + 1
  OBVIOUS
<1>3. \A o \in SetOverride(rows, row) :
        o = row \/ (o \in rows /\ (o.source # row.source \/ o.scope # row.scope))
  BY DEF SetOverride
<1>4. \A o, p \in SetOverride(rows, row) : o.no = p.no => o = p
  BY <1>1, <1>3 DEF OneEach
<1>5. \A o, p \in SetOverride(rows, row) : o.source = p.source /\ o.scope = p.scope => o = p
  BY <1>3 DEF OneEach
<1> QED BY <1>1, <1>2, <1>3, <1>4, <1>5 DEF OneEach

\* More minutes stack onto what is still running.
LEMMA MinutesStack ==
  ASSUME RowsTyped, OverridesOK, NEW m \in Nat
  PROVE  \E u \in Nat :
            /\ ExtendPurchase(overrides, m, now) = SetOverride(overrides, Row("unlock", "purchase", "kid", u))
            /\ u >= now /\ \A o \in Bought(overrides, now) : u >= o.until
<1> DEFINE running == {o.until : o \in {b \in Bought(overrides, now) : b.until > now}}
           u == Max(running \cup {now}) + m
<1>1. now \in Nat
  BY ScreenLockAssumption DEF RowsTyped
<1>2. \A o \in Bought(overrides, now) : o \in overrides /\ o.source = "purchase" /\ o.scope = "kid"
                                      /\ o.until \in Nat
  BY DEF Bought, By, LiveOverrides, OverridesOK, RowsTyped, Override
<1>3. \A o, p \in Bought(overrides, now) : o = p
  BY <1>2 DEF OverridesOK
<1>4. ExtendPurchase(overrides, m, now) = SetOverride(overrides, Row("unlock", "purchase", "kid", u))
  BY DEF ExtendPurchase
<1>5. CASE \A o \in Bought(overrides, now) : ~ (o.until > now)
  <2>1. running \cup {now} = {now, now}
    BY <1>5
  <2>2. now \in Int
    BY <1>1
  <2>3. Max({now, now}) = now
    BY <2>2, Greater
  <2>4. u = now + m
    BY <2>1, <2>3
  <2>5. u \in Nat /\ u >= now
    <3> HIDE DEF u
    <3> QED BY <1>1, <2>4
  <2>6. \A o \in Bought(overrides, now) : u >= o.until
    <3> HIDE DEF u
    <3> QED BY <1>1, <1>2, <1>5, <2>5
  <2> QED BY <1>4, <2>5, <2>6
<1>6. CASE \E o \in Bought(overrides, now) : o.until > now
  <2>1. PICK o \in Bought(overrides, now) : o.until > now
    BY <1>6
  <2>2. running \cup {now} = {o.until, now}
    BY <1>3, <2>1
  <2> DEFINE x == o.until
  <2>3. x \in Nat
    BY <1>2
  <2>4. Max({x, now}) \in {x, now} /\ Max({x, now}) >= x /\ Max({x, now}) >= now
    <3> HIDE DEF x
    <3> QED BY <1>1, <2>3, Greater
  <2>5. u = Max({x, now}) + m
    BY <2>2
  <2>6. u \in Nat /\ u >= x /\ u >= now
    <3> HIDE DEF u, x
    <3> QED BY <1>1, <2>3, <2>4, <2>5
  <2>7. \A p \in Bought(overrides, now) : u >= p.until
    BY <1>3, <2>6
  <2> QED BY <1>4, <2>6, <2>7
<1> QED BY <1>5, <1>6

\* Saved settings are settings.
LEMMA SaveRulesOK ==
  ASSUME RowsTyped, OverridesOK, SaveRules
  PROVE  RowsTyped' /\ OverridesOK'
<1>1. /\ writes' \in 0 .. MaxWrites /\ 1 .. writes \subseteq 1 .. writes'
      /\ rules' \in Schedules /\ UNCHANGED <<now, overrides, runs, usage, online, pending>>
  BY ScreenLockAssumption DEF SaveRules, Save, RowsTyped
<1> QED BY <1>1 DEF RowsTyped, OverridesOK, By

\* The rows after an override was set.
LEMMA RowSetOK ==
  ASSUME RowsTyped, OverridesOK, Save, NEW row \in Override, row.no = writes + 1,
         row.source = "purchase" => row.scope = "kid" /\ row.until # None,
         overrides' = SetOverride(overrides, row), UNCHANGED <<now, rules, runs, usage, online, pending>>
  PROVE  RowsTyped' /\ OverridesOK'
<1>1. OneEach(overrides, writes)
  BY OneOfEach
<1>2. writes \in Nat /\ writes' = writes + 1 /\ writes' \in 0 .. MaxWrites
  BY ScreenLockAssumption DEF RowsTyped, Save
<1>3. OneEach(overrides', writes')
  BY <1>1, <1>2, SetOverrideOK
<1>4. RowsTyped'
  BY <1>2, <1>3 DEF RowsTyped, OneEach
<1>5. OverridesOK'
  BY <1>3 DEF OverridesOK, OneEach, By
<1> QED BY <1>4, <1>5

\* A grown-up's override replaces the one of its scope.
LEMMA PostOverrideOK ==
  ASSUME RowsTyped, OverridesOK, PostOverride
  PROVE  RowsTyped' /\ OverridesOK'
<1>1. PICK mode \in {"lock", "unlock"}, scope \in {"kid", "household"}, ahead \in Untils :
        overrides' = SetOverride(overrides, Row(mode, "parent", scope, IF ahead = None THEN None ELSE now + ahead))
  BY DEF PostOverride
<1> DEFINE row == Row(mode, "parent", scope, IF ahead = None THEN None ELSE now + ahead)
<1>2. row \in Override /\ row.no = writes + 1 /\ row.source = "parent"
  <2>1. now \in Nat /\ writes \in Nat /\ (ahead \in Nat \/ ahead = None)
    BY ScreenLockAssumption DEF RowsTyped
  <2>2. (IF ahead = None THEN None ELSE now + ahead) \in Nat \cup {None} /\ writes + 1 \in Nat
    BY <2>1
  <2> QED BY <2>2 DEF Row, Override
<1>3. Save /\ UNCHANGED <<now, rules, runs, usage, online, pending>> /\ overrides' = SetOverride(overrides, row)
  BY <1>1 DEF PostOverride
<1> HIDE DEF row
<1> QED BY <1>2, <1>3, RowSetOK

\* Clearing a row leaves the others as they are.
LEMMA ClearOverrideOK ==
  ASSUME RowsTyped, OverridesOK, ClearOverride
  PROVE  RowsTyped' /\ OverridesOK'
<1>1. overrides' \subseteq overrides /\ UNCHANGED <<now, rules, runs, usage, online, pending, writes>>
  BY DEF ClearOverride
<1>2. RowsTyped'
  BY <1>1 DEF RowsTyped
<1>3. OverridesOK'
  BY <1>1 DEF OverridesOK, By
<1> QED BY <1>2, <1>3

\* Minutes go to the meter or stack onto the row of the kid.
LEMMA BuyMinutesOK ==
  ASSUME RowsTyped, OverridesOK, BuyMinutes
  PROVE  RowsTyped' /\ OverridesOK'
<1>1. PICK m \in Packs :
        IF rules.daily > 0
        THEN /\ usage.earned + m <= MaxEarned
             /\ usage' = [usage EXCEPT !.earned = @ + m]
             /\ UNCHANGED overrides
        ELSE /\ overrides' = ExtendPurchase(overrides, m, now)
             /\ UNCHANGED usage
  BY DEF BuyMinutes
<1>2. m \in Nat /\ Save /\ UNCHANGED <<now, rules, runs, online, pending>>
  BY ScreenLockAssumption DEF BuyMinutes
<1>3. CASE rules.daily > 0
  <2>1. /\ usage.earned + m <= MaxEarned /\ usage' = [usage EXCEPT !.earned = @ + m]
        /\ UNCHANGED overrides
    BY <1>1, <1>3
  <2>2. usage.earned + m \in 0 .. MaxEarned
    BY <1>2, <2>1, ScreenLockAssumption DEF RowsTyped, UsageBy
  <2>3. usage' \in UsageBy(now)
    BY <2>1, <2>2 DEF RowsTyped, UsageBy
  <2>4. writes' \in 0 .. MaxWrites /\ 1 .. writes \subseteq 1 .. writes'
    BY <1>2, ScreenLockAssumption DEF RowsTyped, Save
  <2> QED BY <1>2, <2>1, <2>3, <2>4 DEF RowsTyped, OverridesOK, By
<1>4. CASE ~ (rules.daily > 0)
  <2>1. overrides' = ExtendPurchase(overrides, m, now) /\ UNCHANGED usage
    BY <1>1, <1>4
  <2>2. PICK u \in Nat : overrides' = SetOverride(overrides, Row("unlock", "purchase", "kid", u))
    BY <1>2, <2>1, MinutesStack
  <2> DEFINE row == Row("unlock", "purchase", "kid", u)
  <2>3. row \in Override /\ row.no = writes + 1 /\ row.scope = "kid" /\ row.until # None
    <3>1. writes + 1 \in Nat /\ u # None
      BY ScreenLockAssumption, LockMachineAssumption DEF RowsTyped
    <3> QED BY <3>1 DEF Row, Override
  <2>4. overrides' = SetOverride(overrides, row)
    BY <2>2
  <2> HIDE DEF row
  <2> QED BY <1>2, <2>1, <2>3, <2>4, RowSetOK
<1> QED BY <1>3, <1>4

\* A run moves between its statuses.
LEMMA RunChangesOK ==
  ASSUME RowsTyped, OverridesOK, NEW from, NEW to \in {"in_progress", "done_pending", "approved"},
         RunChanges(from, to)
  PROVE  RowsTyped' /\ OverridesOK'
<1>1. /\ runs' \in RunsOfADay
      /\ UNCHANGED <<now, rules, overrides, usage, online, pending, writes>>
  BY DEF RunChanges, RowsTyped, RunsOfADay
<1> QED BY <1>1 DEF RowsTyped, OverridesOK, By

\* A report adds to the row of today.
LEMMA ReportUsageOK ==
  ASSUME RowsTyped, OverridesOK, ReportUsage
  PROVE  RowsTyped' /\ OverridesOK'
<1>1. PICK sent \in 1 .. pending :
        /\ pending' = pending - sent
        /\ usage' = IF ActiveOverride(overrides, now) # None THEN usage ELSE AddUsage(usage, Min({sent, MaxReport}))
        /\ UNCHANGED <<now, rules, overrides, runs, online, writes>>
  BY DEF ReportUsage
<1> DEFINE delta == Min({sent, MaxReport})
<1>2. now \in Nat /\ rules.rest \in Nat /\ pending \in Nat /\ MaxReport \in Nat /\ None \notin Nat
  BY ScreenLockAssumption, LockMachineAssumption DEF RowsTyped
<1>3. delta \in Nat
  BY <1>2, Lesser
<1> HIDE DEF delta
<1>4. AddUsage(usage, delta) \in UsageBy(now)
  <2>1. /\ usage.used + delta \in Nat /\ usage.sat \in Nat /\ now \in 0 .. now
        /\ usage \in [used : Nat, earned : 0 .. MaxEarned, sat : Nat, burnAt : 0 .. now \cup {None}]
    BY <1>2, <1>3 DEF RowsTyped, UsageBy
  <2> DEFINE sat == IF rules.play = 0 \/ rules.rest = 0 THEN 0
                    ELSE delta + (IF usage.burnAt = None \/ now - usage.burnAt >= rules.rest THEN 0 ELSE usage.sat)
  <2>2. sat \in Nat
    BY <1>3, <2>1
  <2>3. AddUsage(usage, delta) = [usage EXCEPT !.used = usage.used + delta, !.sat = sat, !.burnAt = now]
    BY DEF AddUsage
  <2> HIDE DEF sat
  <2> QED BY <2>1, <2>2, <2>3 DEF UsageBy
<1>5. usage' \in UsageBy(now) /\ pending' \in Nat
  BY <1>1, <1>2, <1>4 DEF delta, RowsTyped
<1> QED BY <1>1, <1>5 DEF RowsTyped, OverridesOK, By

\* Time passes: the day's rows are dropped at midnight.
LEMMA TickOK ==
  ASSUME RowsTyped, OverridesOK, TabletTyped, AnswerOK, Tick
  PROVE  RowsTyped' /\ OverridesOK' /\ TabletTyped' /\ AnswerOK'
<1>1. /\ now \in Nat /\ now' \in Nat /\ now' = now + 1 /\ now' \in 0 .. LastInstant
      /\ Day(now) \in Nat /\ Day(now') \in Nat /\ Day(now) <= Day(now')
  <2>1. now \in Nat /\ now' = now + 1 /\ now' \in 0 .. LastInstant
    BY ScreenLockAssumption DEF Tick, RowsTyped
  <2> QED BY <2>1, DayAndMinute, DayGrows
<1>2. /\ IF Day(now') = Day(now) THEN UNCHANGED <<runs, usage>> ELSE runs' = NoRuns /\ usage' = NoUsage
      /\ UNCHANGED <<rules, overrides, tablet, online, writes>>
      /\ pending' \in Nat
  BY DEF Tick, RowsTyped
<1>3. 0 .. now \subseteq 0 .. now'
  BY <1>1
<1>4. runs' \in RunsOfADay /\ usage' \in UsageBy(now')
  <2>1. NoRuns \in RunsOfADay /\ NoUsage \in UsageBy(now')
    BY ScreenLockAssumption DEF NoRuns, RunsOfADay, NoUsage, UsageBy
  <2>2. UsageBy(now) \subseteq UsageBy(now')
    BY <1>3 DEF UsageBy
  <2> QED BY <1>2, <2>1, <2>2 DEF RowsTyped
<1>5. RowsTyped' /\ OverridesOK'
  BY <1>1, <1>2, <1>4 DEF RowsTyped, OverridesOK, By
<1>6. TabletTyped'
  BY <1>2, <1>3 DEF TabletTyped
<1>7. AnswerOK'
  <2>1. SUFFICES ASSUME ~ tablet.missed PROVE AnswerOK'
    BY <1>2 DEF AnswerOK
  <2>2. PICK s \in RunsOfADay, u \in UsageBy(tablet.at) : AnswerOf(s, u)
    BY <2>1 DEF AnswerOK
  <2>3. InputsAt(tablet.at, s, u)' = InputsAt(tablet.at, s, u)
    BY <1>2 DEF InputsAt
  <2>4. tablet.at \in Nat /\ Day(tablet.at) \in Nat /\ Day(tablet.at) <= Day(now)
    <3>1. tablet.at \in 0 .. now
      BY DEF TabletTyped
    <3> QED BY <1>1, <3>1, DayAndMinute, DayGrows
  <2>5. IF Day(tablet.at) = Day(now') THEN s = runs' /\ u = usage' ELSE runs' = NoRuns /\ usage' = NoUsage
    <3>1. CASE Day(now') = Day(now)
      BY <1>2, <2>2, <3>1 DEF AnswerOf
    <3>2. CASE Day(now') # Day(now)
      BY <1>1, <1>2, <2>4, <3>2
    <3> QED BY <3>1, <3>2
  <2>6. AnswerOf(s, u)'
    BY <1>2, <2>2, <2>3, <2>5 DEF AnswerOf
  <2> QED BY <1>2, <2>6 DEF AnswerOK
<1> QED BY <1>5, <1>6, <1>7

-----------------------------------------------------------------------------
(* The invariant.                                                          *)

\* One step keeps the rows, and the answer that rests on them.
LEMMA LockStep ==
  ASSUME RowsTyped, OverridesOK, TabletTyped, AnswerOK, [Next]_vars
  PROVE  RowsTyped' /\ OverridesOK' /\ TabletTyped' /\ AnswerOK'
<1>1. CASE SaveRules
  <2>1. RowsTyped' /\ OverridesOK'
    BY <1>1, SaveRulesOK
  <2>2. now' = now /\ Publish
    BY <1>1 DEF SaveRules
  <2> QED BY <2>1, <2>2, PublishOK
<1>2. CASE PostOverride
  <2>1. RowsTyped' /\ OverridesOK'
    BY <1>2, PostOverrideOK
  <2>2. now' = now /\ Publish
    BY <1>2 DEF PostOverride
  <2> QED BY <2>1, <2>2, PublishOK
<1>3. CASE ClearOverride
  <2>1. RowsTyped' /\ OverridesOK'
    BY <1>3, ClearOverrideOK
  <2>2. now' = now /\ Publish
    BY <1>3 DEF ClearOverride
  <2> QED BY <2>1, <2>2, PublishOK
<1>4. CASE BuyMinutes
  <2>1. RowsTyped' /\ OverridesOK'
    BY <1>4, BuyMinutesOK
  <2>2. now' = now /\ Publish
    BY <1>4 DEF BuyMinutes
  <2> QED BY <2>1, <2>2, PublishOK
<1>5. CASE HandInRun \/ ApproveRun \/ RejectRun
  <2>1. \E from, to \in {"in_progress", "done_pending", "approved"} : RunChanges(from, to)
    BY <1>5 DEF HandInRun, ApproveRun, RejectRun
  <2>2. PICK from, to \in {"in_progress", "done_pending", "approved"} : RunChanges(from, to)
    BY <2>1
  <2>3. RowsTyped' /\ OverridesOK'
    BY <2>2, RunChangesOK
  <2>4. now' = now /\ Publish
    BY <2>2 DEF RunChanges
  <2> QED BY <2>3, <2>4, PublishOK
<1>6. CASE ReportUsage
  <2>1. RowsTyped' /\ OverridesOK'
    BY <1>6, ReportUsageOK
  <2>2. CASE now' = now /\ Publish
    BY <2>1, <2>2, PublishOK
  <2>3. CASE UNCHANGED <<now, rules, overrides, runs, usage, tablet>>
    BY <2>1, <2>3, AnswerKept
  <2>4. (now' = now /\ Publish) \/ UNCHANGED <<now, rules, overrides, runs, usage, tablet>>
    BY <1>6 DEF ReportUsage
  <2> QED BY <2>2, <2>3, <2>4
<1>7. CASE Poll
  <2>1. /\ UNCHANGED <<now, rules, overrides, runs, usage, pending, writes>> /\ online' = TRUE
        /\ tablet' = Payload(Inputs)
    BY <1>7 DEF Poll
  <2>2. RowsTyped' /\ OverridesOK'
    BY <2>1 DEF RowsTyped, OverridesOK, By
  <2>3. Inputs' = Inputs
    BY <2>1 DEF Inputs, InputsAt
  <2> QED BY <2>1, <2>2, <2>3, AnsweredNext
<1>8. CASE GoOffline
  <2>1. UNCHANGED <<now, rules, overrides, runs, usage, tablet, pending, writes>> /\ online' = FALSE
    BY <1>8 DEF GoOffline
  <2>2. RowsTyped' /\ OverridesOK'
    BY <2>1 DEF RowsTyped, OverridesOK, By
  <2> QED BY <2>1, <2>2, AnswerKept
<1>9. CASE Tick
  BY <1>9, TickOK
<1>10. CASE UNCHANGED vars
  <2>1. UNCHANGED <<now, rules, overrides, runs, usage, tablet, online, pending, writes>>
    BY <1>10 DEF vars
  <2>2. RowsTyped' /\ OverridesOK'
    BY <2>1 DEF RowsTyped, OverridesOK, By
  <2> QED BY <2>1, <2>2, AnswerKept
<1> QED BY <1>1, <1>2, <1>3, <1>4, <1>5, <1>6, <1>7, <1>8, <1>9, <1>10 DEF Next

\* The rows and answers keep their shape, and a tablet that missed nothing holds the
\* ruling of its instant on the rows as they are.
THEOREM LockInvariant == Spec => []LInv
<1>1. Init => LInv
  BY InitOK, TypeParts DEF LInv
<1>2. LInv /\ [Next]_vars => LInv'
  <2>1. LInv <=> RowsTyped /\ OverridesOK /\ TabletTyped /\ AnswerOK
    BY TypeParts DEF LInv
  <2>2. (LInv <=> RowsTyped /\ OverridesOK /\ TabletTyped /\ AnswerOK)'
    <3>1. LInv <=> RowsTyped /\ OverridesOK /\ TabletTyped /\ AnswerOK
      BY TypeParts DEF LInv
    <3> QED BY <3>1, PTL
  <2> QED BY <2>1, <2>2, LockStep
<1> QED BY <1>1, <1>2, PTL DEF Spec

\* Every row and every answer has its shape, and a countdown is to a moment to come.
THEOREM TypeCorrect == Spec => []TypeOK
<1>1. LInv => TypeOK
  BY DEF LInv
<1> QED BY <1>1, LockInvariant, PTL

-----------------------------------------------------------------------------
(* The answer a tablet acts on.                                            *)

\* The inputs k are those of k0 at a later moment: only time has passed.
OnlyTimePassed(k0, k) ==
  /\ InputOK(k0) /\ InputOK(k) /\ k0.now <= k.now
  /\ k0.allow = k.allow /\ k0.windows = k.windows /\ k0.play = k.play /\ k0.rest = k.rest
  /\ Day(k0.now) = Day(k.now) =>
       k0.runs = k.runs /\ k0.budget = k.budget /\ k0.used = k.used /\ k0.sat = k.sat /\ k0.burnAt = k.burnAt
  /\ Day(k0.now) # Day(k.now) => k.used = 0 /\ k.burnAt = None
  /\ Overridden(k0) /\ (k0.override.until = None \/ k.now < k0.override.until) =>
       Overridden(k) /\ k.override = k0.override
  /\ ~ Overridden(k0) => ~ Overridden(k)

\* What an up-to-date tablet was told, and what the server would be asked now.
LEMMA ToldAndAsked ==
  ASSUME LInv, UpToDate
  PROVE  \E s, u : /\ tablet = Payload(InputsAt(tablet.at, s, u))
                   /\ tablet.at = InputsAt(tablet.at, s, u).now
                   /\ InputsAt(tablet.at, s, u).allow = rules.allow
                   /\ InputsAt(tablet.at, s, u).windows = rules.windows
                   /\ Inputs.now = now
                   /\ OnlyTimePassed(InputsAt(tablet.at, s, u), Inputs)
<1>1. RowsTyped /\ TabletTyped /\ OverridesOK /\ AnswerOK
  BY TypeParts DEF LInv
<1>2. PICK s \in RunsOfADay, u \in UsageBy(tablet.at) : AnswerOf(s, u)
  BY <1>1 DEF UpToDate, AnswerOK
<1> DEFINE k0 == InputsAt(tablet.at, s, u)
           k == Inputs
<1>3. now \in Nat /\ tablet.at \in Nat /\ tablet.at <= now
  <2>1. now \in Nat /\ tablet.at \in 0 .. now
    BY <1>1, ScreenLockAssumption DEF RowsTyped, TabletTyped
  <2> QED BY <2>1
<1>4. InputOK(k0) /\ InputOK(k)
  <2>1. runs \in RunsOfADay /\ usage \in UsageBy(now)
    BY <1>1 DEF RowsTyped
  <2> QED BY <1>1, <1>3, <2>1, InputsAtOK DEF Inputs
<1>5. /\ k0.now = tablet.at /\ k.now = now
      /\ k0.allow = rules.allow /\ k0.windows = rules.windows /\ k0.play = rules.play /\ k0.rest = rules.rest
      /\ k.allow = rules.allow /\ k.windows = rules.windows /\ k.play = rules.play /\ k.rest = rules.rest
      /\ k0.override = ActiveOverride(overrides, tablet.at) /\ k.override = ActiveOverride(overrides, now)
  BY DEF Inputs, InputsAt
<1>6. ASSUME Day(tablet.at) = Day(now)
      PROVE  k0.runs = k.runs /\ k0.budget = k.budget /\ k0.used = k.used /\ k0.sat = k.sat /\ k0.burnAt = k.burnAt
  BY <1>2, <1>6 DEF AnswerOf, Inputs, InputsAt
<1>7. ASSUME Day(tablet.at) # Day(now)
      PROVE  k.used = 0 /\ k.burnAt = None
  <2>1. usage = NoUsage
    BY <1>2, <1>7 DEF AnswerOf
  <2>2. k.used = usage.used /\ k.burnAt = usage.burnAt
    BY DEF Inputs, InputsAt
  <2>3. usage.used = 0 /\ usage.burnAt = None
    BY <2>1 DEF NoUsage
  <2> HIDE DEF k, k0
  <2> QED BY <2>2, <2>3
<1>8. RowsOK(overrides)
  BY <1>1, RowsAreOK
<1>9. ASSUME Overridden(k0), k0.override.until = None \/ k.now < k0.override.until
      PROVE  Overridden(k) /\ k.override = k0.override
  <2>1. k0.override # None /\ (k0.override.until = None \/ k0.override.until \in Nat)
    BY <1>4, <1>9 DEF Overridden, InputOK, Override
  <2> HIDE DEF k, k0
  <2>2. k0.override.until = None \/ (k0.override.until >= now /\ k0.override.until > now)
    BY <1>3, <1>5, <1>9, <2>1
  <2>3. k.override = k0.override
    BY <1>3, <1>5, <1>8, <2>1, <2>2, StillInCharge
  <2> QED BY <1>5, <2>1, <2>2, <2>3 DEF Overridden
<1>10. ASSUME ~ Overridden(k0) PROVE ~ Overridden(k)
  <2>1. CASE ActiveOverride(overrides, tablet.at) = None
    <3>1. ActiveOverride(overrides, now) = None
      BY <1>3, <1>8, <2>1, NobodyInCharge
    <3> QED BY <1>5, <3>1 DEF Overridden
  <2>2. CASE ActiveOverride(overrides, tablet.at) # None
    <3> DEFINE o == ActiveOverride(overrides, tablet.at)
    <3>1. o \in overrides /\ (o.until = None \/ o.until >= tablet.at) /\ o \in Override
      BY <1>1, <1>8, <2>2, InCharge DEF Charged, LiveOverrides, RowsTyped
    <3>2. ~ (o.until = None \/ o.until > tablet.at)
      BY <1>5, <1>10, <2>2 DEF Overridden
    <3>3. o.until = tablet.at
      <4> HIDE DEF o
      <4> QED BY <1>3, <3>1, <3>2 DEF Override
    <3> QED BY <3>1, <3>3 DEF UpToDate, AnsweredAtExpiry
  <2> QED BY <2>1, <2>2
<1>11. tablet = Payload(k0)
  BY <1>2 DEF AnswerOf
<1> HIDE DEF k0, k
<1>12. OnlyTimePassed(k0, k)
  BY <1>3, <1>4, <1>5, <1>6, <1>7, <1>9, <1>10 DEF OnlyTimePassed
<1>13. /\ tablet = Payload(k0) /\ tablet.at = k0.now /\ k.now = now
       /\ k0.allow = rules.allow /\ k0.windows = rules.windows
  BY <1>5, <1>11
<1> QED BY <1>12, <1>13 DEF k0, k

\* The fields of an answer.
LEMMA PayloadFields ==
  ASSUME NEW k
  PROVE  /\ Payload(k).state = ComputeLockState(k).state /\ Payload(k).until = ComputeLockState(k).until
         /\ Payload(k).at = k.now
BY DEF Payload

\* While only time passes, an open tablet is open until its `until`.
LEMMA OpenUntil ==
  ASSUME NEW k0, NEW k, OnlyTimePassed(k0, k), \A w \in k0.allow \cup k0.windows : ~ IntoMorning(w),
         ComputeLockState(k0).state = "UNLOCKED",
         ComputeLockState(k0).until = None \/ k.now < ComputeLockState(k0).until
  PROVE  ComputeLockState(k).state = "UNLOCKED"
<1> DEFINE r0 == ComputeLockState(k0)
           r == ComputeLockState(k)
<1>1. /\ k0.now \in Nat /\ k.now \in Nat /\ k0.now <= k.now /\ None \notin Nat
      /\ \A w \in k0.allow \cup k0.windows : IsWindow(w)
      /\ k0.allow = k.allow /\ k0.windows = k.windows /\ k0.play = k.play /\ k0.rest = k.rest
      /\ InputOK(k0) /\ InputOK(k)
  BY WindowsAreWindows, LockMachineAssumption DEF OnlyTimePassed
<1>2. /\ Day(k0.now) = Day(k.now) =>
           k0.runs = k.runs /\ k0.budget = k.budget /\ k0.used = k.used /\ k0.sat = k.sat /\ k0.burnAt = k.burnAt
      /\ Day(k0.now) # Day(k.now) => k.used = 0 /\ k.burnAt = None
  BY DEF OnlyTimePassed
<1>3. CASE /\ Overridden(k0)
           /\ r0 = Ruling(IF k0.override.mode = "unlock" THEN "UNLOCKED" ELSE "LOCKED_ROUTINE", k0.override.until)
  <2>1. k0.override.mode = "unlock" /\ r0.until = k0.override.until
    BY <1>3 DEF Ruling
  <2>2. Overridden(k) /\ k.override = k0.override
    BY <1>3, <2>1 DEF OnlyTimePassed
  <2>3. r = Ruling(IF k.override.mode = "unlock" THEN "UNLOCKED" ELSE "LOCKED_ROUTINE", k.override.until)
    BY <2>2, Ruled
  <2> QED BY <2>1, <2>2, <2>3 DEF Ruling
<1>4. CASE /\ ~ Overridden(k0) /\ ~ HoursShut(k0)
           /\ ~ Demands(k0, "in_progress") /\ ~ Demands(k0, "done_pending")
           /\ Remaining(k0) # 0 /\ ~ SittingFull(k0)
           /\ r0 = Ruling("UNLOCKED", Soonest(Bounds(k0)))
  <2>1. ~ Overridden(k)
    BY <1>4 DEF OnlyTimePassed
  <2> DEFINE end == NextBoundary(k0.allow, "end", k0.now)
             start == NextBoundary(k0.windows, "start", k0.now)
  <2>2. (end # None => k.now < end) /\ (start # None => k.now < start)
    <3>1. Bounds(k0) \in SUBSET (Nat \cup {None})
      BY <1>1, <1>4, BoundsAhead
    <3>2. end \in Bounds(k0) /\ start \in Bounds(k0)
      BY DEF Bounds
    <3>3. r0.until = Soonest(Bounds(k0))
      BY <1>4 DEF Ruling
    <3> HIDE DEF end, start
    <3>4. \A b \in Bounds(k0) : b # None => b \in Nat /\ Soonest(Bounds(k0)) \in Nat /\ Soonest(Bounds(k0)) <= b
      BY <3>1, SoonestIsLeast
    <3>5. \A b \in Bounds(k0) : b # None => k.now < b
      BY <1>1, <3>3, <3>4
    <3> QED BY <3>2, <3>5
  <2> HIDE DEF end, start
  <2>3. ~ HoursShut(k)
    <3>1. CASE k.allow = {}
      BY <3>1 DEF HoursShut
    <3>2. CASE k.allow # {}
      <4>1. PICK w \in k0.allow : WindowActive(w, k0.now) /\ IsWindow(w) /\ ~ IntoMorning(w)
        BY <1>1, <1>4, <3>2 DEF HoursShut, SomeActive
      <4>2. PICK b \in BoundariesOf(w, "end", k0.now) :
              k0.now < b /\ \A u \in Nat : k0.now <= u /\ u < b => WindowActive(w, u)
        BY <1>1, <4>1, ActiveUntilEnd
      <4>3. b \in Nat
        BY <1>1, <4>1, BoundariesAreInstants
      <4>4. end # None /\ end \in Nat /\ end <= b
        <5>1. \/ /\ end = None
                 /\ \A v \in k0.allow : \A c \in BoundariesOf(v, "end", k0.now) : ~ (c > k0.now)
              \/ /\ end \in Nat
                 /\ \A v \in k0.allow : \A c \in BoundariesOf(v, "end", k0.now) : c > k0.now => end <= c
          <6>1. \A v \in k0.allow : IsWindow(v)
            BY <1>1
          <6> QED BY <1>1, <6>1, NextBoundaryIsNext DEF end
        <5>2. b > k0.now
          BY <1>1, <4>2, <4>3
        <5> QED BY <1>1, <4>1, <5>1, <5>2
      <4>5. WindowActive(w, k.now)
        BY <1>1, <2>2, <4>2, <4>3, <4>4
      <4> QED BY <1>1, <4>1, <4>5 DEF HoursShut, SomeActive
    <3> QED BY <3>1, <3>2
  <2>4. ASSUME NEW status, Demands(k, status), ~ Demands(k0, status) PROVE FALSE
    <3>1. PICK w \in k0.windows : WindowActive(w, k.now) /\ k.runs[w.routine] = status /\ IsWindow(w) /\ ~ IntoMorning(w)
      BY <1>1, <2>4 DEF Demands
    <3>2. ~ WindowActive(w, k0.now) \/ Day(k0.now) # Day(k.now)
      BY <1>2, <2>4, <3>1 DEF Demands
    <3>3. PICK b \in BoundariesOf(w, "start", k0.now) : k0.now < b /\ b <= k.now
      BY <1>1, <3>1, <3>2, StartedSince
    <3>4. b \in Nat
      BY <1>1, <3>1, BoundariesAreInstants
    <3>5. start # None /\ start \in Nat /\ start <= b
      <4>1. \/ /\ start = None
               /\ \A v \in k0.windows : \A c \in BoundariesOf(v, "start", k0.now) : ~ (c > k0.now)
            \/ /\ start \in Nat
               /\ \A v \in k0.windows : \A c \in BoundariesOf(v, "start", k0.now) : c > k0.now => start <= c
        <5>1. \A v \in k0.windows : IsWindow(v)
          BY <1>1
        <5> QED BY <1>1, <5>1, NextBoundaryIsNext DEF start
      <4>2. b > k0.now
        BY <1>1, <3>3, <3>4
      <4> QED BY <1>1, <3>1, <3>3, <4>1, <4>2
    <3> QED BY <1>1, <2>2, <3>3, <3>4, <3>5
  <2>5. Remaining(k) # 0
    <3>1. CASE Day(k0.now) = Day(k.now)
      <4>1. Remaining(k) = Remaining(k0)
        BY <1>2, <3>1 DEF Remaining
      <4> QED BY <1>4, <4>1
    <3>2. CASE Day(k0.now) # Day(k.now)
      <4>1. k.used = 0 /\ k.budget \in Nat
        BY <1>1, <1>2, <3>2 DEF InputOK
      <4> QED BY <1>1, <4>1, LeftOver
    <3> QED BY <3>1, <3>2
  <2>6. ~ SittingFull(k)
    <3>1. SittingRule(k) => k.play > 0 /\ k.play \in Nat /\ SittingRule(k0)
      BY <1>1 DEF SittingRule, InputOK
    <3>2. SatSoFar(k) = 0 \/ SatSoFar(k) = SatSoFar(k0)
      <4>1. CASE Day(k0.now) # Day(k.now)
        BY <1>2, <4>1 DEF SatSoFar, Rested
      <4>2. CASE Day(k0.now) = Day(k.now)
        <5>1. Rested(k0) => Rested(k)
          <6>1. k0.burnAt = k.burnAt /\ k0.rest = k.rest /\ k0.rest \in Nat /\ (k0.burnAt = None \/ k0.burnAt \in Nat)
            BY <1>1, <1>2, <4>2 DEF InputOK
          <6> QED BY <1>1, <6>1 DEF Rested
        <5> QED BY <1>2, <4>2, <5>1 DEF SatSoFar
      <4> QED BY <4>1, <4>2
    <3>3. SatSoFar(k0) \in Nat
      BY <1>1, SittingEnds
    <3> QED BY <1>1, <1>4, <3>1, <3>2, <3>3 DEF SittingFull
  <2>7. ~ Demands(k, "in_progress") /\ ~ Demands(k, "done_pending")
    BY <1>4, <2>4
  <2>8. r = Ruling("UNLOCKED", Soonest(Bounds(k)))
    BY <2>1, <2>3, <2>5, <2>6, <2>7, Ruled
  <2> QED BY <2>8 DEF Ruling
<1> HIDE DEF r0
<1>5. r0.state = "UNLOCKED"
  BY DEF r0
<1> QED BY <1>3, <1>4, <1>5, Ruled, RulingFields DEF r0

\* A spent kid is shut out until the moment the answer names, and is then let in by
\* the meter and the hours.
LEMMA SpentUntil ==
  ASSUME NEW k0, NEW k, OnlyTimePassed(k0, k), ComputeLockState(k0).state = "LOCKED_BUDGET"
  PROVE  /\ k.now < ComputeLockState(k0).until => ComputeLockState(k).state # "UNLOCKED"
         /\ k.now = ComputeLockState(k0).until =>
              ComputeLockState(k).state \notin {"LOCKED_BUDGET", "LOCKED_HOURS"}
<1> DEFINE r0 == ComputeLockState(k0)
           r == ComputeLockState(k)
           until == BudgetReliefAt(k0.allow, k0.now)
<1>1. /\ k0.now \in Nat /\ k.now \in Nat /\ k0.now <= k.now
      /\ \A w \in k0.allow : IsWindow(w)
      /\ k0.allow = k.allow /\ InputOK(k0) /\ InputOK(k)
  BY WindowsAreWindows DEF OnlyTimePassed
<1>2. /\ ~ Overridden(k0) /\ ~ HoursShut(k0) /\ Remaining(k0) = 0
      /\ r0 = Ruling("LOCKED_BUDGET", until)
  BY Ruled, RulingFields
<1>3. ~ Overridden(k) /\ r0.until = until
  BY <1>2, RulingFields DEF OnlyTimePassed
<1>4. k0.allow = {} \/ SomeActive(k0.allow, k0.now)
  BY <1>2 DEF HoursShut
<1>5. /\ until \in Nat /\ until >= Midnight(Day(k0.now) + 1)
      /\ \A u \in Nat : Day(k0.now) < Day(u) /\ u < until => k0.allow # {} /\ ~ SomeActive(k0.allow, u)
      /\ k0.allow = {} \/ SomeActive(k0.allow, until)
  BY <1>1, <1>4, ReliefIsReal
<1> HIDE DEF until
<1>6. Day(k0.now) \in Nat /\ Day(k.now) \in Nat /\ Day(k0.now) <= Day(k.now)
  BY <1>1, DayAndMinute, DayGrows
<1>7. ASSUME k.now < until PROVE r.state # "UNLOCKED"
  <2>1. CASE Day(k0.now) = Day(k.now)
    <3>1. Remaining(k) = 0
      BY <1>2, <2>1 DEF OnlyTimePassed, Remaining
    <3> HIDE DEF r
    <3> QED BY <3>1, <1>3, Ruled, RulingFields DEF r
  <2>2. CASE Day(k0.now) # Day(k.now)
    <3>1. HoursShut(k)
      BY <1>1, <1>5, <1>6, <1>7, <2>2 DEF HoursShut
    <3>2. r = Ruling("LOCKED_HOURS", NextBoundary(k.allow, "start", k.now))
      BY <1>3, <3>1, Ruled
    <3> QED BY <3>2, RulingFields
  <2> QED BY <2>1, <2>2
<1>8. ASSUME k.now = until PROVE r.state \notin {"LOCKED_BUDGET", "LOCKED_HOURS"}
  <2>1. Day(k0.now) # Day(k.now)
    <3>1. Midnight(Day(k0.now) + 1) \in Nat /\ Day(Midnight(Day(k0.now) + 1)) = Day(k0.now) + 1
      BY <1>1, MidnightAhead
    <3>2. Day(k0.now) + 1 <= Day(k.now)
      BY <1>1, <1>5, <1>8, <3>1, DayGrows
    <3> QED BY <1>6, <3>2
  <2>2. Remaining(k) # 0
    <3>1. k.used = 0 /\ k.budget \in Nat
      BY <1>1, <2>1 DEF OnlyTimePassed, InputOK
    <3> QED BY <1>1, <3>1, LeftOver, LockMachineAssumption
  <2>3. ~ HoursShut(k)
    BY <1>1, <1>5, <1>8 DEF HoursShut
  <2> HIDE DEF r
  <2> QED BY <1>3, <2>2, <2>3, Ruled, RulingFields DEF r
<1> QED BY <1>3, <1>7, <1>8

\* An open tablet that missed nothing is one the server would open.
LEMMA OpenIsRuled == LInv => OpenAsRuledByDay
<1> SUFFICES ASSUME LInv, ~ RunsPastMidnight, TabletOpen, UpToDate
             PROVE  ComputeLockState(Inputs).state = "UNLOCKED"
  BY DEF OpenAsRuledByDay, OpenAsRuled
<1>1. PICK s, u : /\ tablet = Payload(InputsAt(tablet.at, s, u))
                  /\ InputsAt(tablet.at, s, u).allow = rules.allow
                  /\ InputsAt(tablet.at, s, u).windows = rules.windows
                  /\ Inputs.now = now
                  /\ OnlyTimePassed(InputsAt(tablet.at, s, u), Inputs)
  BY ToldAndAsked
<1> DEFINE k0 == InputsAt(tablet.at, s, u)
           k == Inputs
<1>2. tablet = Payload(k0) /\ k0.allow = rules.allow /\ k0.windows = rules.windows /\ k.now = now
      /\ OnlyTimePassed(k0, k)
  BY <1>1
<1> HIDE DEF k0, k
<1>3. ComputeLockState(k0).state = "UNLOCKED"
      /\ (ComputeLockState(k0).until = None \/ k.now < ComputeLockState(k0).until)
  BY <1>2, PayloadFields DEF TabletOpen
<1>4. \A w \in k0.allow \cup k0.windows : ~ IntoMorning(w)
  BY <1>2 DEF RunsPastMidnight, IntoMorning
<1>5. ComputeLockState(k).state = "UNLOCKED"
  BY <1>2, <1>3, <1>4, OpenUntil
<1> QED BY <1>5 DEF k

\* A spent kid's countdown is to the moment of relief.
LEMMA CountdownIsReal == LInv => BudgetCountdownIsReal
<1> SUFFICES ASSUME LInv, tablet.state = "LOCKED_BUDGET", UpToDate
             PROVE  /\ now < tablet.until => ComputeLockState(Inputs).state # "UNLOCKED"
                    /\ now = tablet.until =>
                         ComputeLockState(Inputs).state \notin {"LOCKED_BUDGET", "LOCKED_HOURS"}
  BY DEF BudgetCountdownIsReal
<1>1. PICK s, u : /\ tablet = Payload(InputsAt(tablet.at, s, u))
                  /\ Inputs.now = now
                  /\ OnlyTimePassed(InputsAt(tablet.at, s, u), Inputs)
  BY ToldAndAsked
<1> DEFINE k0 == InputsAt(tablet.at, s, u)
           k == Inputs
<1>2. tablet = Payload(k0) /\ k.now = now /\ OnlyTimePassed(k0, k)
  BY <1>1
<1> HIDE DEF k0, k
<1>3. ComputeLockState(k0).state = "LOCKED_BUDGET" /\ tablet.until = ComputeLockState(k0).until
  BY <1>2, PayloadFields
<1>4. /\ now < tablet.until => ComputeLockState(k).state # "UNLOCKED"
      /\ now = tablet.until => ComputeLockState(k).state \notin {"LOCKED_BUDGET", "LOCKED_HOURS"}
  BY <1>2, <1>3, SpentUntil
<1> QED BY <1>4 DEF k

\* A tablet that missed no change is open only when the server would open it: its
\* `until` is not later than whatever ends the stretch -- curfew, next window, meter,
\* sitting, override or midnight -- in a household no window of which runs into a morning.
THEOREM OpenAsTheServerWould == Spec => []OpenAsRuledByDay
BY OpenIsRuled, LockInvariant, PTL

\* The countdown of a spent kid ends when the tablet can be used: past the reset of
\* the meter and inside the hours, and not before.
THEOREM CountdownsAreReal == Spec => []BudgetCountdownIsReal
BY CountdownIsReal, LockInvariant, PTL

-----------------------------------------------------------------------------
(* Whose word stands, and what was paid for.                               *)

\* A grown-up's word that has not run out decides, and nothing else is looked at.
LEMMA WordDecides ==
  RowsTyped /\ OverridesOK /\ Word # None /\ Word.until # now =>
    ComputeLockState(Inputs) =
      Ruling(IF Word.mode = "unlock" THEN "UNLOCKED" ELSE "LOCKED_ROUTINE", Word.until)
<1> SUFFICES ASSUME RowsTyped, OverridesOK, Word # None, Word.until # now
             PROVE  ComputeLockState(Inputs) =
                      Ruling(IF Word.mode = "unlock" THEN "UNLOCKED" ELSE "LOCKED_ROUTINE", Word.until)
  OBVIOUS
<1> DEFINE said == By("parent", LiveOverrides(overrides, now))
<1>1. Word = Newest(said) /\ said # {}
  BY DEF Word, Newest
<1>2. RowsOK(said)
  BY RowsAreOK, LiveRows
<1>3. Word \in said
  BY <1>1, <1>2, NewestIsNewest
<1>4. now \in Nat /\ Word \in Override /\ (Word.until = None \/ Word.until >= now)
  BY <1>3, ScreenLockAssumption DEF By, LiveOverrides, RowsTyped
<1>5. Word.until = None \/ Word.until > now
  BY <1>4 DEF Override
<1>6. ActiveOverride(overrides, now) = Word
  BY <1>1 DEF ActiveOverride
<1>7. Inputs.override = Word /\ Inputs.now = now
  BY <1>6 DEF Inputs, InputsAt
<1>8. Overridden(Inputs)
  BY <1>5, <1>7 DEF Overridden
<1> HIDE DEF Inputs, Word
<1> QED BY <1>7, <1>8, Ruled

\* The same of the moment after a step.
LEMMA WordDecidesNext ==
  (RowsTyped /\ OverridesOK /\ Word # None /\ Word.until # now =>
    ComputeLockState(Inputs) =
      Ruling(IF Word.mode = "unlock" THEN "UNLOCKED" ELSE "LOCKED_ROUTINE", Word.until))'
BY WordDecides, PTL

\* The rows of the invariant, after a step.
LEMMA RowsNext == (LInv => RowsTyped /\ OverridesOK)'
<1>1. LInv => RowsTyped /\ OverridesOK
  BY TypeParts DEF LInv
<1> QED BY <1>1, PTL

\* The newest live word of a grown-up stands until they say something else or it runs
\* out: whatever the kid buys, hands in or burns and whatever is saved, the same
\* answer is given.
THEOREM AGrownUpsWordStands == Spec => GrownUpsWordStands
<1>1. LInv /\ LInv' /\ [Next]_vars =>
        [Word # None /\ Word.until # now /\ Word' = Word /\ now' = now
         => \E k \in {Inputs} : \E l \in {Inputs'} : ComputeLockState(l) = ComputeLockState(k)]_vars
  <2> SUFFICES ASSUME LInv, LInv', Word # None, Word.until # now, Word' = Word, now' = now
               PROVE  ComputeLockState(Inputs') = ComputeLockState(Inputs)
    OBVIOUS
  <2>1. RowsTyped /\ OverridesOK
    BY TypeParts DEF LInv
  <2>2. (LInv => RowsTyped /\ OverridesOK)'
    BY RowsNext
  <2> QED BY <2>1, <2>2, WordDecides, WordDecidesNext
<1> QED BY <1>1, LockInvariant, PTL DEF Spec, GrownUpsWordStands

\* Minutes bought are kept by every step: the clock alone ends them.
LEMMA MinutesStay ==
  ASSUME RowsTyped, OverridesOK, [Next]_vars, NEW o \in Bought(overrides, now')
  PROVE  \E p \in Bought(overrides', now') : p.until >= o.until
<1>1. /\ o \in overrides /\ o.source = "purchase" /\ o.scope = "kid" /\ o.until \in Nat
      /\ o.until >= now' /\ o.until >= o.until
  BY LockMachineAssumption DEF Bought, By, LiveOverrides, OverridesOK, RowsTyped, Override
<1>2. CASE o \in overrides'
  <2>1. o \in Bought(overrides', now')
    BY <1>1, <1>2 DEF Bought, By, LiveOverrides
  <2> QED BY <1>1, <2>1
<1>3. CASE BuyMinutes /\ o \notin overrides'
  <2>1. PICK m \in Packs :
          IF rules.daily > 0
          THEN /\ usage.earned + m <= MaxEarned
               /\ usage' = [usage EXCEPT !.earned = @ + m]
               /\ UNCHANGED overrides
          ELSE /\ overrides' = ExtendPurchase(overrides, m, now)
               /\ UNCHANGED usage
    BY <1>3 DEF BuyMinutes
  <2>2. overrides' = ExtendPurchase(overrides, m, now) /\ m \in Nat /\ now' = now
    BY <1>1, <1>3, <2>1, ScreenLockAssumption DEF BuyMinutes
  <2>3. PICK u \in Nat :
          /\ overrides' = SetOverride(overrides, Row("unlock", "purchase", "kid", u))
          /\ u >= now /\ \A p \in Bought(overrides, now) : u >= p.until
    BY <2>2, MinutesStack
  <2> DEFINE row == Row("unlock", "purchase", "kid", u)
  <2>4. row \in overrides' /\ row.source = "purchase" /\ row.until = u
    BY <2>3 DEF SetOverride, Row
  <2>5. row \in Bought(overrides', now')
    BY <2>2, <2>3, <2>4 DEF Bought, By, LiveOverrides
  <2> QED BY <2>2, <2>3, <2>4, <2>5
<1>4. CASE PostOverride
  <2>1. PICK row : row.source = "parent" /\ overrides' = SetOverride(overrides, row)
    BY <1>4 DEF PostOverride, Row
  <2>2. o \in overrides'
    BY <1>1, <2>1 DEF SetOverride
  <2> QED BY <1>2, <2>2
<1>5. CASE ClearOverride
  <2>1. o \in overrides'
    BY <1>1, <1>5 DEF ClearOverride, By
  <2> QED BY <1>2, <2>1
<1>6. CASE UNCHANGED overrides
  BY <1>1, <1>2, <1>6
<1>7. BuyMinutes \/ PostOverride \/ ClearOverride \/ UNCHANGED overrides
  <2>1. CASE SaveRules
    BY <2>1 DEF SaveRules
  <2>2. CASE HandInRun \/ ApproveRun \/ RejectRun
    BY <2>2 DEF HandInRun, ApproveRun, RejectRun, RunChanges
  <2>3. CASE ReportUsage
    BY <2>3 DEF ReportUsage
  <2>4. CASE Poll
    BY <2>4 DEF Poll
  <2>5. CASE GoOffline
    BY <2>5 DEF GoOffline
  <2>6. CASE Tick
    BY <2>6 DEF Tick
  <2>7. CASE UNCHANGED vars
    BY <2>7 DEF vars
  <2> QED BY <2>1, <2>2, <2>3, <2>4, <2>5, <2>6, <2>7 DEF Next
<1> QED BY <1>2, <1>3, <1>4, <1>5, <1>6, <1>7

\* Minutes the kid paid for run out with the clock and with nothing else: no override
\* of a grown-up, no clearing and no further purchase shortens them.
THEOREM PaidMinutesAreKept == Spec => PaidMinutesKept
<1>1. LInv /\ [Next]_vars =>
        [\A o \in Bought(overrides, now') : \E p \in Bought(overrides', now') : p.until >= o.until]_vars
  <2> SUFFICES ASSUME LInv, [Next]_vars
               PROVE  \A o \in Bought(overrides, now') : \E p \in Bought(overrides', now') : p.until >= o.until
    OBVIOUS
  <2>1. RowsTyped /\ OverridesOK
    BY TypeParts DEF LInv
  <2> QED BY <2>1, MinutesStay
<1> QED BY <1>1, LockInvariant, PTL DEF Spec, PaidMinutesKept
=============================================================================
