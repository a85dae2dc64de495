SPECIFICATION Spec
CONSTANTS
  r1 = r1
  None = None
  Routines = {r1}
  DayLen = 4
  Week = 2
  Schedules <- AllSchedules
  Untils <- Ahead
  Packs = {1}
  MaxEarned = 2
  MaxReport = 1
  MaxPending = 2
  LastInstant = 6
  MaxWrites = 2
INVARIANTS
  TypeOK
  OpenAsRuledByDay
  BudgetCountdownIsReal
PROPERTIES
  GrownUpsWordStands
  PaidMinutesKept
CHECK_DEADLOCK FALSE
