SPECIFICATION Spec
CONSTANTS
  s1 = s1
  s2 = s2
  c1 = c1
  Steps = {s1, s2}
  Side = {s2}
  Chores = {c1}
  MaxLate = 2
  MaxQueued = 2
  TapDuringFlush = FALSE
INVARIANTS
  TypeOK
  TapNotForgotten
  PaintedAsPosted
PROPERTIES
  LateTapPaysNothing
  ApprovedChoreStays
  QueueDrains
CHECK_DEADLOCK FALSE
