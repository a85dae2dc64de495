SPECIFICATION Spec
CONSTANTS
  c1 = c1
  c2 = c2
  a1 = a1
  a2 = a2
  h1 = h1
  h2 = h2
  i1 = i1
  i2 = i2
  i3 = i3
  e1 = e1
  e2 = e2
  p1 = p1
  p2 = p2
  None = None
  Chores = {c1}
  Approvals = {a1}
  Handlers = {h1, h2}
  Intents = {i1, i2, i3}
  Events = {e1, e2}
  Purchases = {}
  HandIns = {c1}
  Coupons = {}
  Price <- Six
  Cost <- Four
  ShareBps <- NoShares
  Savings = 8
  TTL = 1
  MaxClock = 2
  ExactMs = TRUE
  RepayButton = TRUE
  Overlaps = FALSE
SYMMETRY Symmetry
INVARIANTS
  TypeOK
  AtMostOneAlive
  NothingUntracked
  ApprovedIsPaidFor
PROPERTIES
  RejectNeverBesidePayment
CHECK_DEADLOCK FALSE
