---------------------------- MODULE MCKidAccount ----------------------------
EXTENDS KidAccount, TLC

Symmetry == Permutations(Kids) \cup Permutations(Own) \cup Permutations(Calls)
=============================================================================
