----------------------------- MODULE MCKidOutbox -----------------------------
EXTENDS KidOutboxInvariant

CONSTANTS s1, s2, c1
=============================================================================
