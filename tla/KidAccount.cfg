SPECIFICATION Spec
CONSTANTS
  Kids = {k1, k2}
  Own = {w1, w2}
  Challenges = {h1}
  Connects = {f1}
  Calls = {c1, c2}
  SetSize = 1
  MaxSets = 1
  MaxIndex = 2
  MaxFunded = 1
  None = None
SYMMETRY Symmetry
INVARIANTS
  TypeOK
  OneKidPerAccount
  MoneyIsReachable
CHECK_DEADLOCK FALSE
