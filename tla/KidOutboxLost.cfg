SPECIFICATION Spec
CONSTANTS
  s1 = s1
  s2 = s2
  c1 = c1
  Steps = {s1}
  Side = {}
  Chores = {c1}
  MaxLate = 0
  MaxQueued = 2
  TapDuringFlush = TRUE
INVARIANTS
  TapNotForgotten
CHECK_DEADLOCK FALSE
