----------------------------- MODULE SumLemmas -----------------------------
(***************************************************************************)
(* Sums of a function over a finite set: SumFunctionOnSet of the community *)
(* modules, which the money of ParentPayout and KidMoney is counted with.  *)
(*                                                                         *)
(* SumFunctionOnSet folds over a recursive function on the subsets of the  *)
(* set.  That this function exists, and that the order of the fold does    *)
(* not matter, is shown with minimal counterexamples: in a finite set      *)
(* every set of subsets has a minimal element.                             *)
(***************************************************************************)
EXTENDS Integers, Functions, FiniteSetTheorems, TLAPS

-----------------------------------------------------------------------------
(* The recursive function behind the fold.                                 *)

First(U) == CHOOSE x \in U : TRUE
Body(f, g, U) == IF U = {} THEN 0 ELSE f[First(U)] + g[U \ {First(U)}]
Folding(f, S) == CHOOSE g : g = [U \in SUBSET S |-> Body(f, g, U)]

\* g adds up the values of f over every subset of S.
AddsUp(g, f, S) == \A U \in SUBSET S : g[U] = Body(f, g, U)

\* The fold is that recursive function at the whole set.
LEMMA SumIsFold ==
  ASSUME NEW f, NEW S
  PROVE  SumFunctionOnSet(f, S) = Folding(f, S)[S]
  BY DEF SumFunctionOnSet, FoldFunctionOnSet, MapThenFoldSet, Folding, Body, First

\* A set of subsets of a finite set has a minimal element.
LEMMA Minimal ==
  ASSUME NEW S, IsFiniteSet(S), NEW B \in SUBSET (SUBSET S), B # {}
  PROVE  \E U \in B : \A V \in B : V \subseteq U => V = U
<1>1. IsWellFoundedOn(StrictSubsetOrdering(S), SUBSET S)
  BY FS_StrictSubsetOrderingWellFounded, FS_FiniteSubsetsOfFinite
<1>2. PICK U \in B : \A V \in B : ~ (<<V, U>> \in StrictSubsetOrdering(S))
  BY <1>1, WFMin
<1>3. ASSUME NEW V \in B, V \subseteq U, V # U PROVE FALSE
  <2>1. <<V, U>> \in StrictSubsetOrdering(S)
    BY <1>3 DEF StrictSubsetOrdering
  <2> QED BY <1>2, <2>1
<1> QED BY <1>3

\* The element a fold takes next belongs to the set, and what is left is smaller.
LEMMA FirstIn ==
  ASSUME NEW U, U # {}
  PROVE  First(U) \in U /\ U \ {First(U)} \subseteq U /\ U \ {First(U)} # U
  BY DEF First

\* Two such functions agree wherever both are defined.
LEMMA AddUpAlike ==
  ASSUME NEW f, NEW g, NEW h, NEW S, NEW T, IsFiniteSet(S),
         AddsUp(g, f, S), AddsUp(h, f, T), S \subseteq T
  PROVE  \A U \in SUBSET S : g[U] = h[U]
<1> DEFINE Bad == {U \in SUBSET S : g[U] # h[U]}
<1> SUFFICES ASSUME Bad # {} PROVE FALSE
  OBVIOUS
<1>0. Bad \in SUBSET (SUBSET S)
  OBVIOUS
<1>1. PICK U \in Bad : \A V \in Bad : V \subseteq U => V = U
  <2> HIDE DEF Bad
  <2> QED BY <1>0, Minimal
<1>2. U \in SUBSET S /\ U \in SUBSET T /\ g[U] # h[U]
  BY <1>1
<1>3. g[U] = Body(f, g, U) /\ h[U] = Body(f, h, U)
  BY <1>2 DEF AddsUp
<1>4. U # {}
  BY <1>2, <1>3 DEF Body
<1>5. g[U \ {First(U)}] = h[U \ {First(U)}]
  BY <1>1, <1>2, <1>4, FirstIn
<1> QED BY <1>2, <1>3, <1>4, <1>5 DEF Body

\* Over a finite set the recursive function exists.
LEMMA AddsUpExists ==
  ASSUME NEW f, NEW S, IsFiniteSet(S), \A x \in S : f[x] \in Int
  PROVE  \E g \in [SUBSET S -> Int] : AddsUp(g, f, S)
<1> DEFINE Good(U) == \E g \in [SUBSET U -> Int] : AddsUp(g, f, U)
           Bad == {U \in SUBSET S : ~ Good(U)}
<1> SUFFICES ASSUME Bad # {} PROVE FALSE
  OBVIOUS
<1>0. Bad \in SUBSET (SUBSET S)
  OBVIOUS
<1>1. PICK U \in Bad : \A V \in Bad : V \subseteq U => V = U
  <2> HIDE DEF Bad
  <2> QED BY <1>0, Minimal
<1>2. U \subseteq S /\ ~ Good(U) /\ \A V \in SUBSET U : V # U => Good(V)
  BY <1>1
<1> HIDE DEF Bad
<1> DEFINE fold(V) == CHOOSE g \in [SUBSET V -> Int] : AddsUp(g, f, V)
           val(V) == fold(V)[V]
           top == IF U = {} THEN 0 ELSE f[First(U)] + val(U \ {First(U)})
           g == [V \in SUBSET U |-> IF V = U THEN top ELSE val(V)]
<1>3. ASSUME NEW V \in SUBSET U, V # U PROVE fold(V) \in [SUBSET V -> Int] /\ AddsUp(fold(V), f, V)
  BY <1>2, <1>3
<1>4. ASSUME NEW V \in SUBSET U, V # U, V # {}
      PROVE  val(V) = f[First(V)] + val(V \ {First(V)})
  <2> DEFINE W == V \ {First(V)}
  <2>1. W \subseteq V /\ W \subseteq U /\ W # U /\ W # V
    BY <1>4, FirstIn
  <2>2. IsFiniteSet(W)
    BY <1>2, <2>1, FS_Subset
  <2>3. AddsUp(fold(V), f, V) /\ AddsUp(fold(W), f, W)
    BY <1>3, <1>4, <2>1
  <2> HIDE DEF W, fold
  <2>4. fold(W)[W] = fold(V)[W]
    BY <2>1, <2>2, <2>3, AddUpAlike
  <2>5. fold(V)[V] = Body(f, fold(V), V)
    BY <2>3 DEF AddsUp
  <2> QED BY <1>4, <2>4, <2>5 DEF Body, W
<1>5. ASSUME NEW V \in SUBSET U, V # U PROVE val(V) \in Int /\ (V = {} => val(V) = 0)
  <2>1. fold(V) \in [SUBSET V -> Int] /\ AddsUp(fold(V), f, V)
    BY <1>3, <1>5
  <2> HIDE DEF fold
  <2>2. fold(V)[V] \in Int /\ fold(V)[V] = Body(f, fold(V), V)
    BY <2>1 DEF AddsUp
  <2> QED BY <2>2 DEF Body
<1> HIDE DEF val
<1>6. g \in [SUBSET U -> Int]
  <2>1. U # {} => f[First(U)] \in Int /\ val(U \ {First(U)}) \in Int
    BY <1>2, <1>5, FirstIn
  <2> QED BY <1>5, <2>1
<1>7. ASSUME NEW V \in SUBSET U PROVE g[V] = Body(f, g, V)
  <2>1. CASE V = {}
    BY <1>5, <2>1 DEF Body
  <2>2. CASE V # {}
    <3>1. V \ {First(V)} \in SUBSET U /\ V \ {First(V)} # U
      BY <2>2, FirstIn
    <3>2. g[V \ {First(V)}] = val(V \ {First(V)})
      BY <3>1
    <3>3. g[V] = f[First(V)] + val(V \ {First(V)})
      BY <1>4, <2>2
    <3> QED BY <2>2, <3>2, <3>3 DEF Body
  <2> QED BY <2>1, <2>2
<1> HIDE DEF g
<1>8. Good(U)
  BY <1>6, <1>7 DEF AddsUp
<1> QED BY <1>2, <1>8

\* So the one the fold chooses satisfies its own equation, and adds up integers.
LEMMA FoldingAddsUp ==
  ASSUME NEW f, NEW S, IsFiniteSet(S), \A x \in S : f[x] \in Int
  PROVE  /\ AddsUp(Folding(f, S), f, S)
         /\ \A U \in SUBSET S : Folding(f, S)[U] \in Int
<1>1. PICK g \in [SUBSET S -> Int] : AddsUp(g, f, S)
  BY AddsUpExists
<1>2. g = [U \in SUBSET S |-> Body(f, g, U)]
  BY <1>1 DEF AddsUp
<1>3. Folding(f, S) = [U \in SUBSET S |-> Body(f, Folding(f, S), U)]
  BY <1>2 DEF Folding
<1>4. AddsUp(Folding(f, S), f, S)
  BY <1>3 DEF AddsUp
<1>5. \A U \in SUBSET S : Folding(f, S)[U] = g[U]
  BY <1>1, <1>4, AddUpAlike
<1> QED BY <1>1, <1>4, <1>5

-----------------------------------------------------------------------------
(* What a sum is.                                                          *)

\* Integers add up to an integer.
LEMMA SumType ==
  ASSUME NEW f, NEW S, IsFiniteSet(S), \A x \in S : f[x] \in Int
  PROVE  SumFunctionOnSet(f, S) \in Int
  BY SumIsFold, FoldingAddsUp

\* Nothing adds up to 0.
LEMMA SumEmpty ==
  ASSUME NEW f
  PROVE  SumFunctionOnSet(f, {}) = 0
<1>1. IsFiniteSet({})
  BY FS_EmptySet
<1> QED BY <1>1, SumIsFold, FoldingAddsUp DEF AddsUp, Body

\* The sum is the chosen element and the rest.
LEMMA SumFirst ==
  ASSUME NEW f, NEW S, IsFiniteSet(S), S # {}, \A x \in S : f[x] \in Int
  PROVE  SumFunctionOnSet(f, S) = f[First(S)] + SumFunctionOnSet(f, S \ {First(S)})
<1> DEFINE T == S \ {First(S)}
<1>1. T \subseteq S /\ IsFiniteSet(T)
  BY FS_Subset, FirstIn
<1>2. AddsUp(Folding(f, S), f, S) /\ AddsUp(Folding(f, T), f, T)
  BY <1>1, FoldingAddsUp
<1>3. Folding(f, T)[T] = Folding(f, S)[T]
  BY <1>1, <1>2, AddUpAlike
<1>4. Folding(f, S)[S] = f[First(S)] + Folding(f, S)[T]
  BY <1>2 DEF AddsUp, Body
<1> QED BY <1>3, <1>4, SumIsFold

\* The order of the fold does not matter: any element may come last.
LEMMA SumRemove ==
  ASSUME NEW f, NEW S, IsFiniteSet(S), \A x \in S : f[x] \in Int
  PROVE  \A x \in S : SumFunctionOnSet(f, S) = f[x] + SumFunctionOnSet(f, S \ {x})
<1> DEFINE Splits(U) == \A x \in U : SumFunctionOnSet(f, U) = f[x] + SumFunctionOnSet(f, U \ {x})
           Bad == {U \in SUBSET S : ~ Splits(U)}
<1> SUFFICES ASSUME Bad # {} PROVE FALSE
  OBVIOUS
<1>0. Bad \in SUBSET (SUBSET S)
  OBVIOUS
<1>1. PICK U \in Bad : \A V \in Bad : V \subseteq U => V = U
  <2> HIDE DEF Bad
  <2> QED BY <1>0, Minimal
<1>2. /\ U \subseteq S /\ ~ Splits(U)
      /\ \A V \in SUBSET U : V # U => Splits(V)
      /\ \A V \in SUBSET U : IsFiniteSet(V) /\ SumFunctionOnSet(f, V) \in Int
  BY <1>1, FS_Subset, SumType
<1>3. PICK x \in U : SumFunctionOnSet(f, U) # f[x] + SumFunctionOnSet(f, U \ {x})
  BY <1>2
<1> DEFINE y == First(U)
           W == (U \ {x}) \ {y}
<1>4. y \in U /\ SumFunctionOnSet(f, U) = f[y] + SumFunctionOnSet(f, U \ {y})
  BY <1>2, FirstIn, SumFirst
<1>5. x # y
  BY <1>3, <1>4
<1> HIDE DEF y
<1>6. (U \ {y}) \ {x} = W
  OBVIOUS
<1>7. SumFunctionOnSet(f, U \ {x}) = f[y] + SumFunctionOnSet(f, W)
  BY <1>2, <1>4, <1>5
<1>8. SumFunctionOnSet(f, U \ {y}) = f[x] + SumFunctionOnSet(f, W)
  <2>1. Splits(U \ {y}) /\ x \in U \ {y}
    BY <1>2, <1>4, <1>5
  <2> QED BY <2>1, <1>6
<1>9. f[x] \in Int /\ f[y] \in Int /\ SumFunctionOnSet(f, W) \in Int
  BY <1>2, <1>4
<1> QED BY <1>3, <1>4, <1>7, <1>8, <1>9

\* A new element adds its value.
LEMMA SumAdd ==
  ASSUME NEW f, NEW S, IsFiniteSet(S), \A x \in S : f[x] \in Int,
         NEW x, x \notin S, f[x] \in Int
  PROVE  SumFunctionOnSet(f, S \cup {x}) = f[x] + SumFunctionOnSet(f, S)
<1>1. IsFiniteSet(S \cup {x}) /\ (S \cup {x}) \ {x} = S
  BY FS_AddElement
<1> QED BY <1>1, SumRemove

\* One element adds up to its value.
LEMMA SumSingle ==
  ASSUME NEW f, NEW x, f[x] \in Int
  PROVE  SumFunctionOnSet(f, {x}) = f[x]
<1>1. SumFunctionOnSet(f, {} \cup {x}) = f[x] + SumFunctionOnSet(f, {})
  BY SumAdd, FS_EmptySet
<1> QED BY <1>1, SumEmpty

\* Smaller values, a smaller sum.
LEMMA SumMonotone ==
  ASSUME NEW f, NEW g, NEW S, IsFiniteSet(S),
         \A x \in S : f[x] \in Int /\ g[x] \in Int /\ f[x] <= g[x]
  PROVE  SumFunctionOnSet(f, S) <= SumFunctionOnSet(g, S)
<1> DEFINE Bad == {U \in SUBSET S : ~ (SumFunctionOnSet(f, U) <= SumFunctionOnSet(g, U))}
<1> SUFFICES ASSUME Bad # {} PROVE FALSE
  OBVIOUS
<1>0. Bad \in SUBSET (SUBSET S)
  OBVIOUS
<1>1. PICK U \in Bad : \A V \in Bad : V \subseteq U => V = U
  <2> HIDE DEF Bad
  <2> QED BY <1>0, Minimal
<1>2. U \subseteq S /\ IsFiniteSet(U) /\ ~ (SumFunctionOnSet(f, U) <= SumFunctionOnSet(g, U))
  BY <1>1, FS_Subset
<1>3. U # {}
  BY <1>2, SumEmpty
<1> DEFINE x == First(U)
           V == U \ {x}
<1>4. x \in U /\ V \subseteq U /\ V # U /\ IsFiniteSet(V)
  BY <1>2, <1>3, FirstIn, FS_Subset
<1>5. SumFunctionOnSet(f, V) <= SumFunctionOnSet(g, V)
  BY <1>1, <1>2, <1>4
<1>6. /\ SumFunctionOnSet(f, U) = f[x] + SumFunctionOnSet(f, V)
      /\ SumFunctionOnSet(g, U) = g[x] + SumFunctionOnSet(g, V)
  BY <1>2, <1>4, SumRemove
<1>7. SumFunctionOnSet(f, V) \in Int /\ SumFunctionOnSet(g, V) \in Int
  BY <1>2, <1>4, SumType
<1>8. f[x] \in Int /\ g[x] \in Int /\ f[x] <= g[x]
  BY <1>2, <1>4
<1> HIDE DEF x, V
<1> QED BY <1>2, <1>5, <1>6, <1>7, <1>8

\* The same values, the same sum.
LEMMA SumAgree ==
  ASSUME NEW f, NEW g, NEW S, IsFiniteSet(S), \A x \in S : f[x] \in Int /\ g[x] = f[x]
  PROVE  SumFunctionOnSet(g, S) = SumFunctionOnSet(f, S)
<1>1. /\ SumFunctionOnSet(f, S) <= SumFunctionOnSet(g, S)
      /\ SumFunctionOnSet(g, S) <= SumFunctionOnSet(f, S)
  BY SumMonotone
<1> QED BY <1>1, SumType

\* Naturals add up to a natural.
LEMMA SumNat ==
  ASSUME NEW f, NEW S, IsFiniteSet(S), \A x \in S : f[x] \in Nat
  PROVE  SumFunctionOnSet(f, S) \in Nat
<1> DEFINE Bad == {U \in SUBSET S : SumFunctionOnSet(f, U) < 0}
<1>1. SumFunctionOnSet(f, S) \in Int
  BY SumType
<1> SUFFICES ASSUME Bad # {} PROVE FALSE
  BY <1>1
<1>0. Bad \in SUBSET (SUBSET S)
  OBVIOUS
<1>2. PICK U \in Bad : \A V \in Bad : V \subseteq U => V = U
  <2> HIDE DEF Bad
  <2> QED BY <1>0, Minimal
<1>3. U \subseteq S /\ IsFiniteSet(U) /\ SumFunctionOnSet(f, U) < 0 /\ U # {}
  <2>1. U \subseteq S /\ IsFiniteSet(U) /\ SumFunctionOnSet(f, U) < 0
    BY <1>2, FS_Subset
  <2>2. SumFunctionOnSet(f, {}) = 0
    BY SumEmpty
  <2> QED BY <2>1, <2>2
<1> DEFINE x == First(U)
           V == U \ {x}
<1>4. x \in U /\ V \subseteq U /\ V # U /\ IsFiniteSet(V)
  BY <1>3, FirstIn, FS_Subset
<1>5. /\ SumFunctionOnSet(f, U) = f[x] + SumFunctionOnSet(f, V)
      /\ SumFunctionOnSet(f, V) \in Int /\ f[x] \in Nat
  BY <1>3, <1>4, SumRemove, SumType
<1>6. ~ (SumFunctionOnSet(f, V) < 0)
  BY <1>2, <1>3, <1>4
<1> HIDE DEF x, V
<1> QED BY <1>3, <1>5, <1>6

\* One term of a sum changes, the others stand.
LEMMA SumChange ==
  ASSUME NEW f, NEW g, NEW S, IsFiniteSet(S), NEW x \in S,
         \A y \in S : f[y] \in Int /\ g[y] \in Int /\ (y # x => g[y] = f[y])
  PROVE  SumFunctionOnSet(g, S) = SumFunctionOnSet(f, S) - f[x] + g[x]
<1> DEFINE T == S \ {x}
<1>1. IsFiniteSet(T)
  BY FS_Subset
<1>2. /\ SumFunctionOnSet(f, S) = f[x] + SumFunctionOnSet(f, T)
      /\ SumFunctionOnSet(g, S) = g[x] + SumFunctionOnSet(g, T)
  BY SumRemove
<1>3. SumFunctionOnSet(g, T) = SumFunctionOnSet(f, T) /\ SumFunctionOnSet(f, T) \in Int
  BY <1>1, SumAgree, SumType
<1> QED BY <1>2, <1>3

\* What a part of the set adds up to is no more than the whole.
LEMMA SumSubset ==
  ASSUME NEW f, NEW S, IsFiniteSet(S), NEW T \in SUBSET S, \A x \in S : f[x] \in Nat
  PROVE  SumFunctionOnSet(f, T) <= SumFunctionOnSet(f, S)
<1> DEFINE Bad == {U \in SUBSET S : T \subseteq U /\ ~ (SumFunctionOnSet(f, T) <= SumFunctionOnSet(f, U))}
<1> SUFFICES ASSUME Bad # {} PROVE FALSE
  OBVIOUS
<1>0. Bad \in SUBSET (SUBSET S)
  OBVIOUS
<1>1. PICK U \in Bad : \A V \in Bad : V \subseteq U => V = U
  <2> HIDE DEF Bad
  <2> QED BY <1>0, Minimal
<1>2. /\ U \subseteq S /\ T \subseteq U /\ IsFiniteSet(U)
      /\ ~ (SumFunctionOnSet(f, T) <= SumFunctionOnSet(f, U))
  BY <1>1, FS_Subset
<1>3. SumFunctionOnSet(f, T) \in Int /\ SumFunctionOnSet(f, U) \in Int
  BY <1>2, FS_Subset, SumType
<1>4. T # U
  BY <1>2, <1>3
<1>5. PICK x \in U : x \notin T
  BY <1>2, <1>4
<1>6. IsFiniteSet(U \ {x}) /\ T \subseteq U \ {x} /\ U \ {x} # U
  BY <1>2, <1>5, FS_Subset
<1>7. SumFunctionOnSet(f, T) <= SumFunctionOnSet(f, U \ {x})
  BY <1>1, <1>2, <1>5, <1>6
<1>8. /\ SumFunctionOnSet(f, U) = f[x] + SumFunctionOnSet(f, U \ {x})
      /\ SumFunctionOnSet(f, U \ {x}) \in Int /\ f[x] \in Nat
  BY <1>2, <1>5, <1>6, SumRemove, SumType
<1> QED BY <1>2, <1>3, <1>7, <1>8

\* A sum of sums is the sum of both.
LEMMA SumPlus ==
  ASSUME NEW f, NEW g, NEW h, NEW S, IsFiniteSet(S),
         \A x \in S : f[x] \in Int /\ g[x] \in Int /\ h[x] = f[x] + g[x]
  PROVE  SumFunctionOnSet(h, S) = SumFunctionOnSet(f, S) + SumFunctionOnSet(g, S)
<1> DEFINE Bad == {U \in SUBSET S : SumFunctionOnSet(h, U) # SumFunctionOnSet(f, U) + SumFunctionOnSet(g, U)}
<1> SUFFICES ASSUME Bad # {} PROVE FALSE
  OBVIOUS
<1>0. Bad \in SUBSET (SUBSET S)
  OBVIOUS
<1>1. PICK U \in Bad : \A V \in Bad : V \subseteq U => V = U
  <2> HIDE DEF Bad
  <2> QED BY <1>0, Minimal
<1>2. /\ U \subseteq S /\ IsFiniteSet(U)
      /\ SumFunctionOnSet(h, U) # SumFunctionOnSet(f, U) + SumFunctionOnSet(g, U)
  BY <1>1, FS_Subset
<1>3. U # {}
  <2>1. ASSUME U = {} PROVE /\ SumFunctionOnSet(h, U) = 0 /\ SumFunctionOnSet(f, U) = 0
                            /\ SumFunctionOnSet(g, U) = 0
    BY <2>1, SumEmpty, Zenon
  <2> QED BY <1>2, <2>1
<1> DEFINE x == First(U)
           V == U \ {x}
<1>4. x \in U /\ V \subseteq U /\ V # U /\ IsFiniteSet(V)
  BY <1>2, <1>3, FirstIn, FS_Subset
<1>5. SumFunctionOnSet(h, V) = SumFunctionOnSet(f, V) + SumFunctionOnSet(g, V)
  BY <1>1, <1>2, <1>4
<1>6. /\ SumFunctionOnSet(f, U) = f[x] + SumFunctionOnSet(f, V)
      /\ SumFunctionOnSet(g, U) = g[x] + SumFunctionOnSet(g, V)
      /\ SumFunctionOnSet(h, U) = h[x] + SumFunctionOnSet(h, V)
  BY <1>2, <1>4, SumRemove
<1>7. /\ SumFunctionOnSet(f, V) \in Int /\ SumFunctionOnSet(g, V) \in Int
      /\ SumFunctionOnSet(h, V) \in Int
  BY <1>2, <1>4, SumType
<1>8. f[x] \in Int /\ g[x] \in Int /\ h[x] = f[x] + g[x]
  BY <1>2, <1>4
<1> HIDE DEF x, V
<1> QED BY <1>2, <1>5, <1>6, <1>7, <1>8

\* A sum over part of a set, as a sum over all of it.
LEMMA SumRestrict ==
  ASSUME NEW f, NEW g, NEW S, IsFiniteSet(S), NEW T \in SUBSET S,
         \A x \in T : f[x] \in Int /\ g[x] = f[x],
         \A x \in S \ T : g[x] = 0
  PROVE  SumFunctionOnSet(g, S) = SumFunctionOnSet(f, T)
<1> DEFINE Bad == {U \in SUBSET S : T \subseteq U /\ SumFunctionOnSet(g, U) # SumFunctionOnSet(f, T)}
<1> SUFFICES ASSUME Bad # {} PROVE FALSE
  OBVIOUS
<1>0. Bad \in SUBSET (SUBSET S)
  OBVIOUS
<1>1. PICK U \in Bad : \A V \in Bad : V \subseteq U => V = U
  <2> HIDE DEF Bad
  <2> QED BY <1>0, Minimal
<1>2. /\ U \subseteq S /\ T \subseteq U /\ IsFiniteSet(U) /\ IsFiniteSet(T)
      /\ SumFunctionOnSet(g, U) # SumFunctionOnSet(f, T)
  BY <1>1, FS_Subset
<1>3. U # T
  BY <1>2, SumAgree
<1>4. PICK x \in U : x \notin T
  BY <1>2, <1>3
<1>5. IsFiniteSet(U \ {x}) /\ T \subseteq U \ {x} /\ U \ {x} # U
  BY <1>2, <1>4, FS_Subset
<1>6. SumFunctionOnSet(g, U \ {x}) = SumFunctionOnSet(f, T)
  BY <1>1, <1>2, <1>4, <1>5
<1>7. \A y \in U : g[y] \in Int
  BY <1>2
<1>8. /\ SumFunctionOnSet(g, U) = 0 + SumFunctionOnSet(g, U \ {x})
      /\ SumFunctionOnSet(g, U \ {x}) \in Int
  BY <1>2, <1>4, <1>5, <1>7, SumRemove, SumType
<1> QED BY <1>2, <1>6, <1>8
=============================================================================
