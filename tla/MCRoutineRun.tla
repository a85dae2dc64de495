---------------------------- MODULE MCRoutineRun ----------------------------
EXTENDS RoutineRunInvariant, TLC

CONSTANTS s1, s2, s3, r1, r2

\* Other requests run inside the handlers of cards only: see the README for
\* what a stale read of a step's handler may do.
CardsOverlap == CardKinds
OnePrice == {1}
TwoPrices == {1, 2}
=============================================================================
