SPECIFICATION Spec
CONSTANTS
  c1 = c1
  c2 = c2
  a1 = a1
  a2 = a2
  h1 = h1
  h2 = h2
  i1 = i1
  i2 = i2
  i3 = i3
  e1 = e1
  e2 = e2
  p1 = p1
  p2 = p2
  None = None
  Chores = {c1, c2}
  Approvals = {a1, a2}
  Handlers = {h1}
  Intents = {i1, i2}
  Events = {e1}
  Purchases = {p1}
  HandIns = {}
  Coupons = {p1}
  Price <- SixAndThree
  Cost <- Four
  ShareBps <- NoShares
  Savings = 8
  TTL = 1
  MaxClock = 2
  ExactMs = FALSE
  RepayButton = FALSE
  Overlaps = FALSE
SYMMETRY SymmetryButChores
INVARIANTS
  NeverNettedTwice
  DebtIsCovered
CHECK_DEADLOCK FALSE
