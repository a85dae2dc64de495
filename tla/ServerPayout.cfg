SPECIFICATION Spec
CONSTANTS
  c1 = c1
  a1 = a1
  a2 = a2
  a3 = a3
  h1 = h1
  h2 = h2
  e1 = e1
  e2 = e2
  t1 = t1
  t2 = t2
  t3 = t3
  e3 = e3
  None = None
  Subjects = {c1}
  Approvals = {a1, a2}
  Handlers = {h1, h2}
  Events = {e1, e2}
  Txs = {t1, t2}
  Full <- FullPrice
  ShareBps <- HalfShare
  Opaque = FALSE
  TornWriteOff = FALSE
SYMMETRY Symmetry
INVARIANTS
  TypeOK
  AtMostOncePaid
  NothingUntracked
  CreditedOnce
PROPERTIES
  RejectNeverBesidePayment
  PaysOnce
  SignedAtTheCardsPrice
CHECK_DEADLOCK FALSE
