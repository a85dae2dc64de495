SPECIFICATION Spec
CONSTANTS
  None = None
  b1 = b1
  b2 = b2
  send = send
  grow = grow
  Buys = {b1, b2}
  Asks = {send, grow}
  Shelf <- Box
  AskKind <- Kinds
  AskValue <- Values
  Modes <- Everywhere
  Opening = 3
  Gross = 1
  MaxEarned = 1
  MaxPaydays = 1
  MaxFaults = 1
SYMMETRY Twins
INVARIANTS
  TypeOK
  NeverOverspent
  AFaultCostsOneBuy
  GoodsOrMoney
  PhantomStakeHasACause
CHECK_DEADLOCK FALSE
