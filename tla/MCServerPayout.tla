--------------------------- MODULE MCServerPayout ---------------------------
EXTENDS ServerPayoutInvariant, TLC

CONSTANTS c1, a1, a2, a3, h1, h2, e1, e2, e3, t1, t2, t3

FullPrice == [s \in Subjects |-> 4]
HalfShare == {5000}
NoShares == {}

Symmetry == Permutations(Approvals) \cup Permutations(Handlers)
              \cup Permutations(Txs) \cup Permutations(Events)
=============================================================================
