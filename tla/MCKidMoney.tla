----------------------------- MODULE MCKidMoney -----------------------------
EXTENDS KidMoneyInvariant, TLC

CONSTANTS b1, b2, send, grow

Goods(name, kind, price, minutes) ==
  [name |-> name, kind |-> kind, price |-> price, minutes |-> minutes]

\* A pack, a coupon and minutes the cap allows once.
Box == {Goods("pack", "unique", 2, 0), Goods("prize", "coupon", 1, 0), Goods("screen", "minutes", 1, 1)}

Kinds == (send :> "send") @@ (grow :> "stake")
Values == (send :> 2) @@ (grow :> 2)
Everywhere == {"sim", "chain", "deferred"}
Twins == Permutations(Buys)
=============================================================================
