--------------------------- MODULE MCParentPayout ---------------------------
EXTENDS ParentPayout, TLC

CONSTANTS c1, c2, a1, a2, h1, h2, i1, i2, i3, e1, e2, p1, p2

Six == [c \in Chores |-> 6]
SixAndThree == [c \in Chores |-> IF c = c1 THEN 6 ELSE 3]
Four == [p \in Purchases |-> 4]
NoShares == {}

Symmetry == Permutations(Chores) \cup Permutations(Approvals) \cup Permutations(Handlers)
              \cup Permutations(Intents) \cup Permutations(Events)
\* The same, where the chores differ in price.
SymmetryButChores == Permutations(Approvals) \cup Permutations(Handlers)
                       \cup Permutations(Intents) \cup Permutations(Events)
=============================================================================
