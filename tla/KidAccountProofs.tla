-------------------------- MODULE KidAccountProofs --------------------------
(***************************************************************************)
(* Proofs about KidAccount, for every number of kids, addresses, indexes,  *)
(* challenges and requests.                                                *)
(***************************************************************************)
EXTENDS KidAccount, FiniteSetTheorems, TLAPS

----------------------------------------------------------------------------
(* The inductive invariant. *)

\* A row whose address came from the seed is in line with its coordinates; only
\* a parent's row shows an address of the parent's wallet.
RowsInLine ==
  \A k \in Kids :
    /\ source[k] = "derived" =>
         index[k] \in Indices /\ address[k] = index[k] /\ derived[k] = index[k]
    /\ source[k] = "parent" => address[k] \in Own
    /\ source[k] = None => address[k] = None

IndexOnce ==
  \A j, k \in Kids : j # k /\ index[j] # None => index[j] # index[k]

AddressOnce ==
  \A j, k \in Kids : j # k /\ address[j] # None => address[j] # address[k]

\* While a key is derived, its index stays on the row it was handed out to.
DerivingHolds ==
  \A c \in Calls : At(c, "deriving") => index[calls[c].kid] = calls[c].index

\* Money is, or will be, on an account that is also somebody's derived address:
\* the address the operator's scripts ask the chain about.
MoneyIsDerived ==
  \A i \in inflight \cup funded : \E k \in Kids : index[k] = i /\ derived[k] = i

IInv ==
  TypeOK /\ RowsInLine /\ IndexOnce /\ AddressOnce /\ DerivingHolds /\ MoneyIsDerived

----------------------------------------------------------------------------
(* The operators. *)

\* The greater of two numbers is one of them and below neither.
LEMMA MaxOfTwo ==
  ASSUME NEW m \in Nat, NEW n \in Nat
  PROVE  /\ Max({m, n}) \in {m, n}
         /\ Max({m, n}) >= m /\ Max({m, n}) >= n
<1> DEFINE S == {m, n}
<1>1. \E x \in S : \A y \in S : x >= y
  <2>1. CASE m >= n
    BY <2>1
  <2>2. CASE n >= m
    BY <2>2
  <2> QED BY <2>1, <2>2
<1> HIDE DEF S
<1>2. Max(S) \in S /\ \A y \in S : Max(S) >= y
  BY <1>1 DEF Max
<1> QED BY <1>2 DEF S

\* The mark is above every index on a row, so it is the index handed out next.
LEMMA NextFreeIsMark ==
  ASSUME TypeOK
  PROVE  NextFree = mark
<1> DEFINE Held == {index[k] + 1 : k \in {j \in Kids : index[j] # None}}
           S == {mark} \cup Held
<1>1. mark \in Nat /\ \A n \in Held : n \in Nat /\ n <= mark
  <2>1. mark \in Nat
    BY KidAccountAssumption DEF TypeOK, KidAccountAssumption
  <2>2. \A k \in Kids : index[k] # None => index[k] \in 0 .. mark - 1
    BY DEF TypeOK
  <2> QED BY <2>1, <2>2
<1> HIDE DEF Held
<1>2. \A x \in S : x \in Nat /\ x <= mark
  BY <1>1
<1>3. mark \in S /\ \A y \in S : mark >= y
  BY <1>1, <1>2
<1> HIDE DEF S
<1> DEFINE m == Max(S)
<1>4. m \in S /\ \A y \in S : m >= y
  BY <1>3 DEF Max
<1> HIDE DEF m
<1>5. m \in Nat /\ m <= mark /\ m >= mark
  BY <1>2, <1>3, <1>4
<1>6. m = mark
  BY <1>1, <1>5
<1> QED BY <1>6 DEF m, S, Held, NextFree

\* A kid is offered finitely many sets, whatever the bound on indexes.
LEMMA OffersAreFinite ==
  ASSUME NEW S \in SUBSET [from : Indices, used : BOOLEAN]
  PROVE  IsFiniteSet(S) /\ Cardinality(S) \in Nat
<1> DEFINE U == [from : Indices, used : BOOLEAN]
           T == Indices \X BOOLEAN
           f == [s \in U |-> <<s.from, s.used>>]
<1>1. IsFiniteSet(Indices)
  BY FS_Interval, KidAccountAssumption DEF Indices, KidAccountAssumption
<1>2. IsFiniteSet(BOOLEAN)
  <2>1. IsFiniteSet({TRUE} \cup {FALSE})
    BY FS_Singleton, FS_AddElement
  <2>2. {TRUE} \cup {FALSE} = BOOLEAN
    OBVIOUS
  <2> QED BY <2>1, <2>2
<1>3. IsFiniteSet(T)
  BY <1>1, <1>2, FS_Product
<1>4. f \in Injection(U, T)
  BY DEF Injection, IsInjective
<1>5. IsFiniteSet(U)
  BY <1>3, <1>4, FS_Injection
<1> QED BY <1>5, FS_Subset, FS_CardinalityType

\* What a request between two awaits holds, by the place it is at.
LEMMA CallTypes ==
  ASSUME TypeOK, NEW c \in Calls
  PROVE  /\ At(c, "deriving") => /\ calls[c].kid \in Kids
                                 /\ calls[c].index \in Indices
                                 /\ calls[c].set \in Indices \cup {None}
         /\ At(c, "choosing") => calls[c].kid \in Kids
         /\ Checking(c) => /\ calls[c] \in [at : {"verifying", "moving"},
                                            challenge : Challenges \cup Connects,
                                            of : {"child", "family"},
                                            to : Assignments, old : SUBSET Indices]
                           /\ calls[c].challenge \in Challenges \cup Connects
                           /\ calls[c].to \in Assignments
                           /\ calls[c].old \in SUBSET Indices
<1>1. calls[c] # None => calls[c] \in CallRecords
  BY DEF TypeOK
<1> QED BY <1>1 DEF At, Checking, CallRecords

\* An assignment gives some kids an address of the parent's each.
LEMMA AssignmentGives ==
  ASSUME NEW to \in Assignments
  PROVE  /\ DOMAIN to \subseteq Kids
         /\ \A k \in DOMAIN to : to[k] \in Own
         /\ \A j, k \in DOMAIN to : to[j] = to[k] => j = k
  BY DEF Assignments

LEMMA OneKidAssignment ==
  ASSUME NEW k \in Kids, NEW w \in Own
  PROVE  [j \in {k} |-> w] \in Assignments
<1>1. {k} \in (SUBSET Kids) \ {{}}
  OBVIOUS
<1>2. [j \in {k} |-> w] \in {to \in [{k} -> Own] : \A i, j \in {k} : to[i] = to[j] => i = j}
  OBVIOUS
<1> QED BY <1>1, <1>2 DEF Assignments

\* The account a kid leaves behind is a derived one.
LEMMA OldAccountType ==
  ASSUME TypeOK, RowsInLine, NEW k \in Kids
  PROVE  OldAccount(k) \in Indices \cup {None}
  BY DEF TypeOK, RowsInLine, OldAccount

----------------------------------------------------------------------------
(* Handing an index out. *)

\* An index that no other row holds can be written on a row that holds none, or
\* holds it already.
MayHandOut(k, i) ==
  index[k] = i \/ (index[k] = None /\ \A j \in Kids : index[j] # i)

LEMMA NextFreeMayBeHandedOut ==
  ASSUME TypeOK, NEW k \in Kids, index[k] = None, NextFree \in Indices
  PROVE  MayHandOut(k, NextFree)
<1>1. mark # None /\ mark \in Nat
  BY NextFreeIsMark, KidAccountAssumption DEF KidAccountAssumption, Indices
<1>2. ASSUME NEW j \in Kids PROVE index[j] # mark
  <2>1. index[j] \in 0 .. mark - 1 \cup {None}
    BY DEF TypeOK
  <2> QED BY <1>1, <2>1
<1> QED BY <1>2, NextFreeIsMark DEF MayHandOut

LEMMA HigherMark ==
  ASSUME NEW m \in Nat, NEW n \in Nat, NEW i \in Nat, n >= m, n >= i + 1
  PROVE  0 .. m - 1 \subseteq 0 .. n - 1 /\ i \in 0 .. n - 1
  OBVIOUS

LEMMA HandOutType ==
  ASSUME TypeOK, NEW k \in Kids, NEW i \in Indices, HandOut(k, i), derived' = derived
  PROVE  /\ index' \in [Kids -> Indices \cup {None}]
         /\ mark' \in 0 .. MaxIndex
         /\ \A j \in Kids : {index'[j], derived'[j]} \subseteq 0 .. mark' - 1 \cup {None}
<1>1. /\ mark \in Nat /\ mark <= MaxIndex
      /\ i \in Nat /\ i + 1 <= MaxIndex
      /\ MaxIndex \in Nat
  BY KidAccountAssumption DEF TypeOK, KidAccountAssumption, Indices
<1>2. i + 1 \in Nat /\ mark' = Max({mark, i + 1})
  BY <1>1 DEF HandOut
<1>3. mark' \in {mark, i + 1} /\ mark' >= mark /\ mark' >= i + 1
  BY <1>1, <1>2, MaxOfTwo
<1>4. mark' \in 0 .. MaxIndex
  BY <1>1, <1>3
<1>5. index' = [index EXCEPT ![k] = i]
  BY DEF HandOut
<1>6. index' \in [Kids -> Indices \cup {None}]
  BY <1>5 DEF TypeOK
<1>7. 0 .. mark - 1 \subseteq 0 .. mark' - 1 /\ i \in 0 .. mark' - 1
  <2>1. mark' \in Nat
    BY <1>1, <1>4
  <2>2. mark' >= mark /\ mark' >= i + 1
    BY <1>3
  <2>3. mark \in Nat /\ i \in Nat
    BY <1>1
  <2> QED BY <2>1, <2>2, <2>3, HigherMark
<1>8. ASSUME NEW j \in Kids
      PROVE  {index'[j], derived'[j]} \subseteq 0 .. mark' - 1 \cup {None}
  <2>1. {index[j], derived[j]} \subseteq 0 .. mark' - 1 \cup {None}
    BY <1>7 DEF TypeOK
  <2>2. index'[j] \in {index[j], i}
    BY <1>5 DEF TypeOK
  <2> QED BY <1>7, <2>1, <2>2
<1> QED BY <1>4, <1>6, <1>8

LEMMA HandOutKeepsRows ==
  ASSUME IInv, NEW k \in Kids, NEW i \in Indices, HandOut(k, i), MayHandOut(k, i),
         UNCHANGED <<address, source, derived, chain>>
  PROVE  RowsInLine' /\ IndexOnce' /\ AddressOnce' /\ MoneyIsDerived'
<1>1. /\ index' = [index EXCEPT ![k] = i]
      /\ index \in [Kids -> Indices \cup {None}]
      /\ i # None
  BY KidAccountAssumption DEF HandOut, IInv, TypeOK, KidAccountAssumption
<1>2. index'[k] = i /\ \A j \in Kids \ {k} : index'[j] = index[j]
  BY <1>1
<1>3. \A j \in Kids : index[j] # None => index'[j] = index[j]
  BY <1>2 DEF MayHandOut
<1>4. RowsInLine'
  <2>1. None \notin Indices
    BY KidAccountAssumption DEF KidAccountAssumption
  <2> QED BY <1>3, <2>1 DEF IInv, RowsInLine
<1>5. IndexOnce'
  BY <1>1, <1>2 DEF IInv, IndexOnce, MayHandOut
<1>6. AddressOnce'
  BY DEF IInv, AddressOnce
<1>7. MoneyIsDerived'
  <2>1. \A m \in inflight \cup funded : m # None
    BY KidAccountAssumption DEF IInv, TypeOK, KidAccountAssumption
  <2> QED BY <1>3, <2>1 DEF IInv, MoneyIsDerived, chain
<1> QED BY <1>4, <1>5, <1>6, <1>7

----------------------------------------------------------------------------
(* What a step that leaves a table alone leaves true. *)

LEMMA SameRows ==
  ASSUME IInv, UNCHANGED row
  PROVE  RowsInLine' /\ IndexOnce' /\ AddressOnce'
  BY DEF IInv, row, RowsInLine, IndexOnce, AddressOnce

LEMMA SameMoney ==
  ASSUME IInv, UNCHANGED <<index, derived>>, inflight' \cup funded' \subseteq inflight \cup funded
  PROVE  MoneyIsDerived'
  BY DEF IInv, MoneyIsDerived

\* A request goes on to a place where it holds no index, or ends.
LEMMA OneCallMoves ==
  ASSUME IInv, UNCHANGED index, NEW c \in Calls, NEW call, Becomes(c, call),
         call # None => call.at # "deriving"
  PROVE  DerivingHolds'
<1>1. calls \in [Calls -> CallRecords \cup {None}]
  BY DEF IInv, TypeOK
<1>2. calls'[c] = call /\ \A b \in Calls \ {c} : calls'[b] = calls[b]
  BY <1>1 DEF Becomes
<1> QED BY <1>2 DEF IInv, DerivingHolds, At

LEMMA SameCalls ==
  ASSUME IInv, UNCHANGED <<index, calls>>
  PROVE  DerivingHolds'
  BY DEF IInv, DerivingHolds, At

LEMMA NoCalls ==
  ASSUME calls' = [c \in Calls |-> None]
  PROVE  DerivingHolds'
  BY DEF DerivingHolds, At

\* The parts of the type invariant, by who writes them.
RowTypes ==
  /\ index \in [Kids -> Indices \cup {None}]
  /\ address \in [Kids -> Accounts \cup {None}]
  /\ source \in [Kids -> {"derived", "parent", None}]
  /\ derived \in [Kids -> Indices \cup {None}]
  /\ mark \in 0 .. MaxIndex
  /\ \A k \in Kids : {index[k], derived[k]} \subseteq 0 .. mark - 1 \cup {None}

SetTypes == sets \in [Kids -> SUBSET [from : Indices, used : BOOLEAN]]

ChallengeTypes == challenges \in [Challenges \cup Connects -> ChallengeRecords \cup {None}]

CallTable == calls \in [Calls -> CallRecords \cup {None}]

ChainTypes ==
  custody \in {"server", "parent"} /\ inflight \subseteq Indices /\ funded \subseteq Indices

LEMMA TypeParts ==
  TypeOK <=> RowTypes /\ SetTypes /\ ChallengeTypes /\ CallTable /\ ChainTypes
  BY DEF TypeOK, RowTypes, SetTypes, ChallengeTypes, CallTable, ChainTypes

LEMMA SameTypes ==
  /\ RowTypes /\ UNCHANGED <<row, mark>> => RowTypes'
  /\ SetTypes /\ UNCHANGED sets => SetTypes'
  /\ ChallengeTypes /\ UNCHANGED challenges => ChallengeTypes'
  /\ CallTable /\ UNCHANGED calls => CallTable'
  /\ ChainTypes /\ UNCHANGED <<custody, chain>> => ChainTypes'
  BY DEF row, chain, RowTypes, SetTypes, ChallengeTypes, CallTable, ChainTypes

LEMMA CallTableStep ==
  ASSUME CallTable, NEW c \in Calls, NEW call \in CallRecords \cup {None}, Becomes(c, call)
  PROVE  CallTable'
  BY DEF CallTable, Becomes

----------------------------------------------------------------------------
(* The steps. *)

LEMMA InvParts ==
  IInv <=> /\ RowTypes /\ SetTypes /\ ChallengeTypes /\ CallTable /\ ChainTypes
           /\ RowsInLine /\ IndexOnce /\ AddressOnce /\ DerivingHolds /\ MoneyIsDerived
  BY TypeParts DEF IInv

LEMMA InvInit == Init => IInv
<1> SUFFICES ASSUME Init PROVE IInv
  OBVIOUS
<1>1. 0 \in 0 .. MaxIndex
  BY KidAccountAssumption DEF KidAccountAssumption
<1>2. RowTypes
  BY <1>1 DEF Init, RowTypes
<1>3. SetTypes /\ ChallengeTypes /\ CallTable /\ ChainTypes
  BY DEF Init, SetTypes, ChallengeTypes, CallTable, ChainTypes
<1>4. RowsInLine
  BY KidAccountAssumption DEF Init, RowsInLine, KidAccountAssumption
<1>5. IndexOnce /\ AddressOnce /\ DerivingHolds /\ MoneyIsDerived
  BY DEF Init, IndexOnce, AddressOnce, DerivingHolds, At, MoneyIsDerived
<1> QED BY <1>2, <1>3, <1>4, <1>5, InvParts

\* An index is handed out, on first touch or as the account of a character, and
\* its key is being derived.
LEMMA HandOutStep ==
  ASSUME IInv, NEW c \in Calls, NEW k \in Kids, NEW i \in Indices, NEW from \in Indices \cup {None},
         HandOut(k, i), MayHandOut(k, i), Becomes(c, Deriving(k, i, from)),
         UNCHANGED <<address, source, derived, sets, challenges, custody, chain>>
  PROVE  IInv'
<1>1. TypeOK
  BY DEF IInv
<1>2. RowTypes'
  <2>1. address' \in [Kids -> Accounts \cup {None}] /\ source' \in [Kids -> {"derived", "parent", None}]
        /\ derived' \in [Kids -> Indices \cup {None}]
    BY <1>1 DEF TypeOK
  <2> QED BY <1>1, <2>1, HandOutType DEF RowTypes
<1>3. SetTypes' /\ ChallengeTypes' /\ ChainTypes'
  BY InvParts, SameTypes
<1>4. CallTable'
  <2>1. Deriving(k, i, from) \in CallRecords
    BY DEF Deriving, CallRecords
  <2> QED BY <2>1, CallTableStep, InvParts
<1>5. RowsInLine' /\ IndexOnce' /\ AddressOnce' /\ MoneyIsDerived'
  BY HandOutKeepsRows
<1>6. DerivingHolds'
  <2>1. index'[k] = i /\ \A j \in Kids \ {k} : index'[j] = index[j]
    BY <1>1 DEF HandOut, TypeOK
  <2>2. calls'[c] = Deriving(k, i, from) /\ \A b \in Calls \ {c} : calls'[b] = calls[b]
    BY <1>1 DEF Becomes, TypeOK
  <2>3. ASSUME NEW b \in Calls, At(b, "deriving")'
        PROVE  index'[calls'[b].kid] = calls'[b].index
    <3>1. CASE b = c
      BY <2>1, <2>2, <3>1 DEF Deriving
    <3>2. CASE b # c
      <4>1. At(b, "deriving") /\ calls'[b] = calls[b]
        BY <2>2, <2>3, <3>2 DEF At
      <4>2. calls[b].kid \in Kids /\ calls[b].index \in Indices
        BY <1>1, <4>1, CallTypes
      <4>3. index[calls[b].kid] = calls[b].index
        BY <4>1 DEF IInv, DerivingHolds
      <4>4. CASE calls[b].kid = k
        \* The row held calls[b].index, and None is no index: it holds i already.
        <5>1. index[k] \in Indices
          BY <4>2, <4>3, <4>4
        <5>2. index[k] = i
          BY <5>1, KidAccountAssumption DEF MayHandOut, KidAccountAssumption
        <5> QED BY <2>1, <4>1, <4>3, <4>4, <5>2
      <4>5. CASE calls[b].kid # k
        BY <2>1, <4>1, <4>2, <4>3, <4>5
      <4> QED BY <4>4, <4>5
    <3> QED BY <3>1, <3>2
  <2> QED BY <2>3 DEF DerivingHolds
<1> QED BY <1>2, <1>3, <1>4, <1>5, <1>6, InvParts, PTL

LEMMA ProvisionStep ==
  ASSUME IInv, NEW c \in Calls, NEW k \in Kids, Provision(c, k)
  PROVE  IInv'
<1>1. PICK i \in {IF index[k] # None THEN index[k] ELSE NextFree} :
        i \in Indices /\ HandOut(k, i) /\ Becomes(c, Deriving(k, i, None))
  BY DEF Provision
<1>2. MayHandOut(k, i)
  <2>1. CASE index[k] # None
    BY <1>1, <2>1 DEF MayHandOut
  <2>2. CASE index[k] = None
    BY <1>1, <2>2, NextFreeMayBeHandedOut DEF IInv
  <2> QED BY <2>1, <2>2
<1>3. UNCHANGED <<address, source, derived, sets, challenges, custody, chain>>
  BY DEF Provision
<1> QED BY <1>1, <1>2, <1>3, HandOutStep

LEMMA ClaimStep ==
  ASSUME IInv, NEW c \in Calls, NEW i \in Indices, ClaimCharacter(c, i)
  PROVE  IInv'
<1> DEFINE k == calls[c].kid
<1>1. k \in Kids
  BY CallTypes DEF ClaimCharacter, IInv
<1>2. PICK s \in sets[k] : MayClaim(k, i) /\ HandOut(k, i) /\ Becomes(c, Deriving(k, i, s.from))
  BY DEF ClaimCharacter
<1>3. s.from \in Indices
  BY <1>1, <1>2 DEF IInv, TypeOK
<1>4. MayHandOut(k, i)
  BY <1>2 DEF MayClaim, MayHandOut
<1>5. UNCHANGED <<address, source, derived, sets, challenges, custody, chain>>
  BY DEF ClaimCharacter
<1> HIDE DEF k
<1> QED BY <1>1, <1>2, <1>3, <1>4, <1>5, HandOutStep

\* The key is derived and the address written.
LEMMA AddressStep ==
  ASSUME IInv, NEW c \in Calls, SetChildAddress(c)
  PROVE  IInv'
<1> DEFINE k == calls[c].kid
           i == calls[c].index
<1>1. TypeOK /\ RowsInLine /\ IndexOnce /\ AddressOnce /\ MoneyIsDerived
  BY DEF IInv
<1>2. k \in Kids /\ i \in Indices
  BY <1>1, CallTypes DEF SetChildAddress
<1>3. index[k] = i
  BY DEF SetChildAddress, IInv, DerivingHolds
<1>4. /\ address' = [address EXCEPT ![k] = i]
      /\ source' = [source EXCEPT ![k] = "derived"]
      /\ derived' = [derived EXCEPT ![k] = i]
      /\ UNCHANGED <<index, mark, challenges, custody, chain>>
      /\ Ends(c)
  BY DEF SetChildAddress
<1>5. sets' = [sets EXCEPT ![k] = {[s EXCEPT !.used = @ \/ s.from = calls[c].set] : s \in @}]
  BY DEF SetChildAddress
<1>6. i # None /\ i \notin Own
  BY <1>2, KidAccountAssumption DEF KidAccountAssumption
<1> HIDE DEF k, i
<1>7. /\ address'[k] = i /\ source'[k] = "derived" /\ derived'[k] = i
      /\ \A j \in Kids \ {k} :
           address'[j] = address[j] /\ source'[j] = source[j] /\ derived'[j] = derived[j]
  BY <1>1, <1>2, <1>4 DEF TypeOK
<1>8. RowTypes'
  <2>1. address' \in [Kids -> Accounts \cup {None}] /\ source' \in [Kids -> {"derived", "parent", None}]
        /\ derived' \in [Kids -> Indices \cup {None}] /\ index' \in [Kids -> Indices \cup {None}]
    BY <1>1, <1>2, <1>4 DEF TypeOK, Accounts
  <2>2. \A j \in Kids : {index'[j], derived'[j]} \subseteq 0 .. mark' - 1 \cup {None}
    BY <1>1, <1>2, <1>3, <1>4, <1>7 DEF TypeOK
  <2> QED BY <1>1, <1>4, <2>1, <2>2 DEF RowTypes, TypeOK
<1>9. SetTypes'
  <2>1. \A s \in sets[k] : [s EXCEPT !.used = @ \/ s.from = calls[c].set]
                              \in [from : Indices, used : BOOLEAN]
    <3> SUFFICES ASSUME NEW s \in [from : Indices, used : BOOLEAN], NEW b \in BOOLEAN
                 PROVE  [s EXCEPT !.used = b] \in [from : Indices, used : BOOLEAN]
      BY <1>1, <1>2 DEF TypeOK
    <3> QED OBVIOUS
  <2>2. {[s EXCEPT !.used = @ \/ s.from = calls[c].set] : s \in sets[k]}
           \in SUBSET [from : Indices, used : BOOLEAN]
    BY <2>1
  <2> QED BY <1>1, <1>2, <1>5, <2>2 DEF SetTypes, TypeOK
<1>10. ChallengeTypes' /\ CallTable' /\ ChainTypes'
  BY <1>4, InvParts, SameTypes, CallTableStep DEF Ends
<1>11. RowsInLine'
  BY <1>1, <1>2, <1>3, <1>4, <1>7, KidAccountAssumption DEF RowsInLine, KidAccountAssumption
<1>12. IndexOnce'
  BY <1>1, <1>4 DEF IndexOnce
<1>13. AddressOnce'
  <2>1. ASSUME NEW j \in Kids \ {k} PROVE address[j] # i
    <3>1. SUFFICES ASSUME address[j] = i PROVE FALSE
      OBVIOUS
    <3>2. source[j] = "derived"
      BY <1>1, <1>6, <3>1 DEF TypeOK, RowsInLine
    <3>3. index[j] = index[k] /\ index[j] # None
      BY <1>1, <1>3, <1>6, <3>1, <3>2 DEF RowsInLine
    <3> QED BY <1>1, <1>2, <3>3 DEF IndexOnce
  <2> QED BY <1>1, <1>2, <1>7, <2>1 DEF AddressOnce
<1>14. DerivingHolds'
  BY <1>4, OneCallMoves DEF Ends
<1>15. MoneyIsDerived'
  BY <1>1, <1>2, <1>3, <1>4, <1>7 DEF MoneyIsDerived, chain
<1> QED BY <1>8, <1>9, <1>10, <1>11, <1>12, <1>13, <1>14, <1>15, InvParts, PTL

\* A request that only reads, waits or gives up.
LEMMA OnlyCallsStep ==
  ASSUME IInv, NEW c \in Calls, NEW call \in CallRecords \cup {None}, Becomes(c, call),
         call # None => call.at # "deriving",
         UNCHANGED <<row, mark, sets, custody, chain>>, ChallengeTypes'
  PROVE  IInv'
<1>1. RowTypes' /\ SetTypes' /\ ChainTypes'
  BY InvParts, SameTypes
<1>2. CallTable'
  BY InvParts, CallTableStep
<1>3. RowsInLine' /\ IndexOnce' /\ AddressOnce'
  BY SameRows
<1>4. DerivingHolds'
  BY OneCallMoves DEF row
<1>5. MoneyIsDerived'
  BY SameMoney DEF row, chain
<1> QED BY <1>1, <1>2, <1>3, <1>4, <1>5, InvParts, PTL

LEMMA ChooseStep ==
  ASSUME IInv, NEW c \in Calls, NEW k \in Kids, Choose(c, k)
  PROVE  IInv'
<1>1. [at |-> "choosing", kid |-> k] \in CallRecords
  BY DEF CallRecords
<1>2. ChallengeTypes'
  BY InvParts, SameTypes DEF Choose
<1> QED BY <1>1, <1>2, OnlyCallsStep DEF Choose

LEMMA GiveUpStep ==
  ASSUME IInv, NEW c \in Calls, ClaimRefused(c) \/ Refused(c)
  PROVE  IInv'
<1>1. ChallengeTypes'
  BY InvParts, SameTypes DEF ClaimRefused, Refused
<1> QED BY <1>1, OnlyCallsStep DEF ClaimRefused, Refused, Ends

LEMMA VerifyingType ==
  ASSUME IInv, NEW h \in Challenges \cup Connects, NEW to \in Assignments,
         challenges[h].of \in {"child", "family"}
  PROVE  Verifying(h, to) \in CallRecords /\ Verifying(h, to).at # "deriving"
<1>1. {OldAccount(k) : k \in DOMAIN to} \ {None} \in SUBSET Indices
  BY AssignmentGives, OldAccountType DEF IInv
<1> QED BY <1>1 DEF Verifying, CallRecords

LEMMA RegisterStep ==
  ASSUME IInv, NEW c \in Calls, NEW h \in Challenges, Register(c, h)
  PROVE  IInv'
<1>1. challenges[h].of = "child" /\ challenges[h].to \in Assignments
  BY DEF Register, IInv, TypeOK, ChallengeRecords, Used
<1>2. ChallengeTypes'
  BY InvParts, SameTypes DEF Register
<1> QED BY <1>1, <1>2, VerifyingType, OnlyCallsStep DEF Register

LEMMA ConnectStep ==
  ASSUME IInv, NEW c \in Calls, NEW h \in Connects, Connect(c, h)
  PROVE  IInv'
<1>1. PICK to \in Assignments : Becomes(c, Verifying(h, to))
  BY DEF Connect
<1>2. ChallengeTypes'
  BY InvParts, SameTypes DEF Connect
<1> QED BY <1>1, <1>2, VerifyingType, OnlyCallsStep DEF Connect

LEMMA ReadOldBalanceStep ==
  ASSUME IInv, NEW c \in Calls, ReadOldBalance(c)
  PROVE  IInv'
<1>1. PICK a \in calls[c].old :
        Becomes(c, [calls[c] EXCEPT !.at = "moving", !.old = @ \ {a}])
  BY DEF ReadOldBalance
<1> DEFINE call == [calls[c] EXCEPT !.at = "moving", !.old = @ \ {a}]
<1>2. call \in CallRecords /\ call.at # "deriving"
  BY CallTypes DEF ReadOldBalance, CallRecords, IInv
<1>3. ChallengeTypes'
  BY InvParts, SameTypes DEF ReadOldBalance
<1> HIDE DEF call
<1>4. Becomes(c, call)
  BY <1>1 DEF call
<1> QED BY <1>2, <1>3, <1>4, OnlyCallsStep DEF ReadOldBalance

\* A challenge is spent once its request writes or fails to.
LEMMA UseChallengeType ==
  ASSUME IInv, NEW c \in Calls, ReadyToMove(c), UseChallenge(c)
  PROVE  ChallengeTypes'
<1>1. calls[c].challenge \in Challenges \cup Connects
  BY CallTypes DEF ReadyToMove, IInv
<1> QED BY <1>1 DEF UseChallenge, IInv, TypeOK, ChallengeTypes, ChallengeRecords

LEMMA MoveFailsStep ==
  ASSUME IInv, NEW c \in Calls, MoveFails(c)
  PROVE  IInv'
  BY UseChallengeType, OnlyCallsStep DEF MoveFails, Ends

\* A registration writes: an address of the parent's on each of its rows, which
\* keep their coordinates.
LEMMA MoveStep ==
  ASSUME IInv, NEW c \in Calls, Move(c)
  PROVE  IInv'
<1> DEFINE to == calls[c].to
<1>1. TypeOK /\ RowsInLine /\ IndexOnce /\ AddressOnce
  BY DEF IInv
<1>2. to \in Assignments
  BY <1>1, CallTypes DEF Move, ReadyToMove
<1>3. /\ address' = [k \in Kids |-> IF k \in DOMAIN to THEN to[k] ELSE address[k]]
      /\ source' = [k \in Kids |-> IF k \in DOMAIN to THEN "parent" ELSE source[k]]
      /\ UNCHANGED <<index, derived, mark, sets, custody, chain>>
      /\ Ends(c)
      /\ ~ Clashes(to, Kids \ DOMAIN to)
  BY DEF Move, SetParentOwnedAddress
<1> HIDE DEF to
<1>4. /\ DOMAIN to \subseteq Kids
      /\ \A k \in DOMAIN to : to[k] \in Own
      /\ \A j, k \in DOMAIN to : to[j] = to[k] => j = k
  BY <1>2, AssignmentGives
<1>5. None \notin Own /\ None # "parent"
  BY KidAccountAssumption DEF KidAccountAssumption
<1>6. RowTypes'
  <2>1. address' \in [Kids -> Accounts \cup {None}]
    BY <1>1, <1>3, <1>4 DEF TypeOK, Accounts
  <2>2. source' \in [Kids -> {"derived", "parent", None}]
    BY <1>1, <1>3 DEF TypeOK
  <2> QED BY <1>1, <1>3, <2>1, <2>2 DEF TypeOK, RowTypes
<1>7. ChallengeTypes'
  BY UseChallengeType DEF Move
<1>8. SetTypes' /\ CallTable' /\ ChainTypes'
  BY <1>3, InvParts, SameTypes, CallTableStep DEF Ends
<1>9. RowsInLine'
  BY <1>1, <1>3, <1>4, <1>5 DEF RowsInLine
<1>10. IndexOnce'
  BY <1>1, <1>3 DEF IndexOnce
<1>11. AddressOnce'
  <2>1. ASSUME NEW k \in DOMAIN to, NEW j \in Kids \ DOMAIN to PROVE address[j] # to[k]
    <3>1. SUFFICES ASSUME address[j] = to[k] PROVE FALSE
      OBVIOUS
    <3>2. source[j] # "derived" /\ source[j] # None
      BY <1>1, <1>4, <1>5, <3>1, KidAccountAssumption DEF RowsInLine, KidAccountAssumption
    <3>3. source[j] = "parent"
      BY <1>1, <3>2 DEF TypeOK
    <3> QED BY <1>3, <1>4, <3>1, <3>3 DEF Clashes
  <2>2. ASSUME NEW j \in Kids, NEW k \in Kids, j # k, address'[j] # None
        PROVE  address'[j] # address'[k]
    <3>1. CASE j \in DOMAIN to /\ k \in DOMAIN to
      BY <1>3, <1>4, <2>2, <3>1
    <3>2. CASE j \in DOMAIN to /\ k \notin DOMAIN to
      BY <1>3, <2>1, <2>2, <3>2
    <3>3. CASE j \notin DOMAIN to /\ k \in DOMAIN to
      BY <1>3, <2>1, <2>2, <3>3
    <3>4. CASE j \notin DOMAIN to /\ k \notin DOMAIN to
      BY <1>1, <1>3, <2>2, <3>4 DEF AddressOnce
    <3> QED BY <3>1, <3>2, <3>3, <3>4
  <2> QED BY <2>2 DEF AddressOnce
<1>12. DerivingHolds'
  BY <1>3, OneCallMoves DEF Ends
<1>13. MoneyIsDerived'
  BY <1>3, SameMoney DEF chain
<1> QED BY <1>6, <1>7, <1>8, <1>9, <1>10, <1>11, <1>12, <1>13, InvParts, PTL

\* A server that only offers characters or writes a challenge.
LEMMA OfferStep ==
  ASSUME IInv, UNCHANGED <<row, mark, calls, custody, chain>>, SetTypes', ChallengeTypes'
  PROVE  IInv'
<1>1. RowTypes' /\ CallTable' /\ ChainTypes'
  BY InvParts, SameTypes
<1>2. RowsInLine' /\ IndexOnce' /\ AddressOnce'
  BY SameRows
<1>3. DerivingHolds' /\ MoneyIsDerived'
  BY SameCalls, SameMoney DEF row, chain
<1> QED BY <1>1, <1>2, <1>3, InvParts, PTL

LEMMA IssueSetStep ==
  ASSUME IInv, NEW k \in Kids, IssueSet(k)
  PROVE  IInv'
<1>1. TypeOK
  BY DEF IInv
<1> DEFINE issued == Cardinality(sets[k])
           base == NextFree + issued * SetSize
<1>2. base + SetSize <= MaxIndex /\ sets' = [sets EXCEPT ![k] = @ \cup {[from |-> base, used |-> FALSE]}]
  BY DEF IssueSet
<1>3. base \in Indices
  <2>1. issued \in Nat
    BY <1>1, OffersAreFinite DEF TypeOK
  <2>2. mark \in Nat /\ SetSize \in Nat /\ SetSize # 0 /\ MaxIndex \in Nat
    BY <1>1, KidAccountAssumption DEF TypeOK, KidAccountAssumption
  <2> HIDE DEF issued
  <2>3. issued * SetSize \in Nat
    BY <2>1, <2>2
  <2>4. base = mark + issued * SetSize
    BY <1>1, NextFreeIsMark
  <2>5. base \in Nat
    BY <2>2, <2>3, <2>4
  <2> HIDE DEF base
  <2> QED BY <1>2, <2>2, <2>5 DEF Indices
<1> HIDE DEF base
<1>4. SetTypes'
  <2>1. [from |-> base, used |-> FALSE] \in [from : Indices, used : BOOLEAN]
    BY <1>3
  <2>2. sets[k] \cup {[from |-> base, used |-> FALSE]} \in SUBSET [from : Indices, used : BOOLEAN]
    BY <1>1, <2>1 DEF TypeOK
  <2> QED BY <1>1, <1>2, <2>2, Zenon DEF SetTypes, TypeOK
<1>5. ChallengeTypes'
  BY InvParts, SameTypes DEF IssueSet
<1> QED BY <1>4, <1>5, OfferStep DEF IssueSet

LEMMA IssueChallengeStep ==
  ASSUME IInv, NEW h \in Challenges, NEW k \in Kids, NEW w \in Own, IssueChallenge(h, k, w)
  PROVE  IInv'
<1>1. [of |-> "child", to |-> [j \in {k} |-> w]] \in ChallengeRecords
  BY OneKidAssignment DEF ChallengeRecords
<1>2. ChallengeTypes'
  BY <1>1 DEF IssueChallenge, IInv, TypeOK, ChallengeTypes
<1>3. SetTypes'
  BY InvParts, SameTypes DEF IssueChallenge
<1> QED BY <1>2, <1>3, OfferStep DEF IssueChallenge

LEMMA IssueConnectChallengeStep ==
  ASSUME IInv, NEW h \in Connects, IssueConnectChallenge(h)
  PROVE  IInv'
<1>1. [of |-> "family"] \in ChallengeRecords
  BY DEF ChallengeRecords
<1>2. ChallengeTypes'
  BY <1>1 DEF IssueConnectChallenge, IInv, TypeOK, ChallengeTypes
<1>3. SetTypes'
  BY InvParts, SameTypes DEF IssueConnectChallenge
<1> QED BY <1>2, <1>3, OfferStep DEF IssueConnectChallenge

----------------------------------------------------------------------------
(* Money moves. *)

LEMMA MoneyMoves ==
  ASSUME IInv, UNCHANGED <<row, mark, sets, challenges, calls, custody>>,
         inflight' \subseteq Indices, funded' \subseteq Indices, MoneyIsDerived'
  PROVE  IInv'
<1>1. RowTypes' /\ SetTypes' /\ ChallengeTypes' /\ CallTable'
  BY InvParts, SameTypes
<1>2. ChainTypes'
  BY DEF IInv, TypeOK, ChainTypes
<1>3. RowsInLine' /\ IndexOnce' /\ AddressOnce'
  BY SameRows
<1>4. DerivingHolds'
  BY SameCalls DEF row
<1> QED BY <1>1, <1>2, <1>3, <1>4, InvParts, PTL

\* A payout goes to a derived address only while its row is in line.
LEMMA PayKidStep ==
  ASSUME IInv, NEW k \in Kids, PayKid(k)
  PROVE  IInv'
<1>1. TypeOK /\ RowsInLine /\ MoneyIsDerived
  BY DEF IInv
<1>2. address[k] \in Indices /\ inflight' = inflight \cup {address[k]}
      /\ UNCHANGED <<row, mark, sets, challenges, calls, custody, funded>>
  BY DEF PayKid
<1>3. source[k] = "derived"
  BY <1>1, <1>2, KidAccountAssumption DEF TypeOK, RowsInLine, KidAccountAssumption
<1>4. index[k] = address[k] /\ derived[k] = address[k]
  BY <1>1, <1>3 DEF RowsInLine
<1>5. MoneyIsDerived'
  BY <1>1, <1>2, <1>4 DEF MoneyIsDerived, row
<1>6. inflight' \subseteq Indices /\ funded' \subseteq Indices
  BY <1>1, <1>2 DEF TypeOK
<1> QED BY <1>2, <1>5, <1>6, MoneyMoves

LEMMA PaymentEnds ==
  ASSUME IInv, NEW i \in Indices, Lands(i) \/ Bounces(i)
  PROVE  IInv'
<1>1. inflight' \cup funded' \subseteq inflight \cup funded
  BY DEF Lands, Bounces
<1>2. inflight' \subseteq Indices /\ funded' \subseteq Indices
  BY <1>1 DEF IInv, TypeOK
<1>3. UNCHANGED <<row, mark, sets, challenges, calls, custody>>
  BY DEF Lands, Bounces
<1>4. MoneyIsDerived'
  BY <1>1, <1>3, SameMoney DEF row
<1> QED BY <1>2, <1>3, <1>4, MoneyMoves

LEMMA SpendAllStep ==
  ASSUME IInv, NEW k \in Kids, SpendAll(k)
  PROVE  IInv'
<1>1. inflight' \cup funded' \subseteq inflight \cup funded
  BY DEF SpendAll
<1>2. inflight' \subseteq Indices /\ funded' \subseteq Indices
  BY <1>1 DEF IInv, TypeOK
<1>3. UNCHANGED <<row, mark, sets, challenges, calls, custody>>
  BY DEF SpendAll
<1>4. MoneyIsDerived'
  BY <1>1, <1>3, SameMoney DEF row
<1> QED BY <1>2, <1>3, <1>4, MoneyMoves

----------------------------------------------------------------------------
(* The operator. *)

\* What is true of a row that forgets its coordinates: its money is elsewhere.
LEMMA Forgotten ==
  ASSUME IInv, NEW k \in Kids, derived[k] # None => derived[k] \notin inflight \cup funded,
         index' = [index EXCEPT ![k] = None], UNCHANGED <<derived, mark, chain>>
  PROVE  /\ index' \in [Kids -> Indices \cup {None}]
         /\ \A j \in Kids : {index'[j], derived'[j]} \subseteq 0 .. mark' - 1 \cup {None}
         /\ IndexOnce' /\ MoneyIsDerived'
<1>1. TypeOK /\ IndexOnce /\ MoneyIsDerived
  BY DEF IInv
<1>2. index'[k] = None /\ \A j \in Kids \ {k} : index'[j] = index[j]
  BY <1>1 DEF TypeOK
<1>3. index' \in [Kids -> Indices \cup {None}]
  BY <1>1 DEF TypeOK
<1>4. \A j \in Kids : {index'[j], derived'[j]} \subseteq 0 .. mark' - 1 \cup {None}
  BY <1>1, <1>2 DEF TypeOK
<1>5. IndexOnce'
  BY <1>1, <1>2 DEF IndexOnce
<1>6. ASSUME NEW i \in inflight \cup funded
      PROVE  \E j \in Kids : index'[j] = i /\ derived'[j] = i
  <2>1. PICK j \in Kids : index[j] = i /\ derived[j] = i
    BY <1>1, <1>6 DEF MoneyIsDerived
  <2>2. i # None
    BY <1>1, KidAccountAssumption DEF TypeOK, KidAccountAssumption
  <2>3. j # k
    BY <2>1, <2>2
  <2> QED BY <1>2, <2>1, <2>3
<1>7. MoneyIsDerived'
  BY <1>6 DEF MoneyIsDerived, chain
<1> QED BY <1>3, <1>4, <1>5, <1>7

LEMMA ResetStep ==
  ASSUME IInv, NEW k \in Kids, ResetForPick(k)
  PROVE  IInv'
<1>1. TypeOK /\ RowsInLine /\ AddressOnce
  BY DEF IInv
<1>2. /\ \A c \in Calls : calls[c] = None
      /\ inflight = {}
      /\ OldAccount(k) \notin funded
      /\ address' = [address EXCEPT ![k] = None]
      /\ source' = [source EXCEPT ![k] = None]
      /\ index' = [index EXCEPT ![k] = None]
      /\ UNCHANGED <<derived, mark, sets, challenges, calls, custody, chain>>
  BY DEF ResetForPick, Quiet, Free, Empty
<1>3. derived[k] # None => derived[k] \notin inflight \cup funded
  BY <1>2 DEF OldAccount
<1>4. RowTypes'
  <2>1. address' \in [Kids -> Accounts \cup {None}] /\ source' \in [Kids -> {"derived", "parent", None}]
    BY <1>1, <1>2 DEF TypeOK
  <2> QED BY <1>1, <1>2, <1>3, <2>1, Forgotten DEF RowTypes, TypeOK
<1>5. SetTypes' /\ ChallengeTypes' /\ CallTable' /\ ChainTypes'
  BY <1>2, InvParts, SameTypes
<1>6. IndexOnce' /\ MoneyIsDerived'
  BY <1>2, <1>3, Forgotten
<1>7. /\ address'[k] = None /\ source'[k] = None
      /\ \A j \in Kids \ {k} :
           address'[j] = address[j] /\ source'[j] = source[j] /\ index'[j] = index[j]
  BY <1>1, <1>2 DEF TypeOK
<1>8. RowsInLine'
  BY <1>1, <1>2, <1>7, KidAccountAssumption DEF RowsInLine, KidAccountAssumption
<1>9. AddressOnce'
  BY <1>1, <1>7 DEF AddressOnce
<1>10. DerivingHolds'
  BY <1>2 DEF DerivingHolds, At
<1> QED BY <1>4, <1>5, <1>6, <1>8, <1>9, <1>10, InvParts, PTL

LEMMA ClearStep ==
  ASSUME IInv, NEW k \in Kids, ClearCoordinates(k)
  PROVE  IInv'
<1>1. TypeOK /\ RowsInLine /\ AddressOnce
  BY DEF IInv
<1>2. /\ \A c \in Calls : calls[c] = None
      /\ inflight = {}
      /\ derived[k] \notin funded
      /\ source[k] = "parent"
      /\ index' = [index EXCEPT ![k] = None]
      /\ UNCHANGED <<address, source, derived, mark, sets, challenges, calls, custody, chain>>
  BY DEF ClearCoordinates, Quiet, Free, Empty
<1>3. RowTypes'
  BY <1>1, <1>2, Forgotten DEF RowTypes, TypeOK
<1>4. SetTypes' /\ ChallengeTypes' /\ CallTable' /\ ChainTypes'
  BY <1>2, InvParts, SameTypes
<1>5. IndexOnce' /\ MoneyIsDerived'
  BY <1>2, Forgotten
<1>6. RowsInLine'
  <2>1. \A j \in Kids \ {k} : index'[j] = index[j]
    BY <1>1, <1>2 DEF TypeOK
  <2> QED BY <1>1, <1>2, <2>1, KidAccountAssumption DEF RowsInLine, KidAccountAssumption
<1>7. AddressOnce'
  BY <1>1, <1>2 DEF AddressOnce
<1>8. DerivingHolds'
  BY <1>2 DEF DerivingHolds, At
<1> QED BY <1>3, <1>4, <1>5, <1>6, <1>7, <1>8, InvParts, PTL

\* The process stops and starts, under the old custody or the new one.
LEMMA StopStep ==
  ASSUME IInv, GoParental \/ Restart
  PROVE  IInv'
<1>1. /\ calls' = [c \in Calls |-> None]
      /\ custody' \in {"server", "parent"}
      /\ UNCHANGED <<row, mark, sets, challenges, chain>>
  BY DEF GoParental, Restart, IInv, TypeOK
<1>2. RowTypes' /\ SetTypes' /\ ChallengeTypes'
  BY <1>1, InvParts, SameTypes
<1>3. CallTable' /\ ChainTypes'
  BY <1>1 DEF CallTable, ChainTypes, chain, IInv, TypeOK
<1>4. RowsInLine' /\ IndexOnce' /\ AddressOnce'
  BY <1>1, SameRows
<1>5. DerivingHolds'
  BY <1>1, NoCalls
<1>6. MoneyIsDerived'
  BY <1>1, SameMoney DEF row, chain
<1> QED BY <1>2, <1>3, <1>4, <1>5, <1>6, InvParts, PTL

LEMMA StutterStep ==
  ASSUME IInv, UNCHANGED vars
  PROVE  IInv'
<1>1. UNCHANGED <<row, mark, sets, challenges, calls, custody, chain>>
  BY DEF vars
<1>2. SetTypes' /\ ChallengeTypes'
  BY <1>1, InvParts, SameTypes
<1> QED BY <1>1, <1>2, OfferStep

LEMMA InvStep == IInv /\ [Next]_vars => IInv'
<1> SUFFICES ASSUME IInv, [Next]_vars PROVE IInv'
  OBVIOUS
<1>1. ASSUME NEW c \in Calls, NEW k \in Kids, Provision(c, k) \/ Choose(c, k)
      PROVE  IInv'
  BY <1>1, ProvisionStep, ChooseStep
<1>2. ASSUME NEW c \in Calls,
             \/ SetChildAddress(c) \/ ClaimRefused(c)
             \/ ReadOldBalance(c) \/ Refused(c) \/ Move(c) \/ MoveFails(c)
      PROVE  IInv'
  BY <1>2, AddressStep, GiveUpStep, ReadOldBalanceStep, MoveStep, MoveFailsStep
<1>3. ASSUME NEW c \in Calls, NEW i \in Indices, ClaimCharacter(c, i)
      PROVE  IInv'
  BY <1>3, ClaimStep
<1>4. ASSUME NEW c \in Calls,
             \/ \E h \in Challenges : Register(c, h)
             \/ \E h \in Connects : Connect(c, h)
      PROVE  IInv'
  BY <1>4, RegisterStep, ConnectStep
<1>5. ASSUME NEW i \in Indices, Lands(i) \/ Bounces(i)
      PROVE  IInv'
  BY <1>5, PaymentEnds
<1>6. ASSUME NEW h \in Challenges, NEW k \in Kids, NEW w \in Own, IssueChallenge(h, k, w)
      PROVE  IInv'
  BY <1>6, IssueChallengeStep
<1>7. ASSUME NEW h \in Connects, IssueConnectChallenge(h)
      PROVE  IInv'
  BY <1>7, IssueConnectChallengeStep
<1>8. ASSUME NEW k \in Kids,
             \/ IssueSet(k) \/ PayKid(k) \/ SpendAll(k)
             \/ ResetForPick(k) \/ ClearCoordinates(k)
      PROVE  IInv'
  BY <1>8, IssueSetStep, PayKidStep, SpendAllStep, ResetStep, ClearStep
<1>9. CASE GoParental \/ Restart
  BY <1>9, StopStep
<1>10. CASE UNCHANGED vars
  BY <1>10, StutterStep
<1> QED BY <1>1, <1>2, <1>3, <1>4, <1>5, <1>6, <1>7, <1>8, <1>9, <1>10 DEF Next

----------------------------------------------------------------------------
(* The theorems. *)

\* The inductive invariant holds in every state of a household's accounts.
THEOREM Invariant == Spec => []IInv
  BY InvInit, InvStep, PTL DEF Spec

\* Rows, requests and challenges keep their shape, and the mark stays above every
\* index a row holds or held, so that the next index handed out is a fresh one.
THEOREM TypeCorrect == Spec => []TypeOK
<1>1. IInv => TypeOK
  BY DEF IInv
<1> QED BY <1>1, Invariant, PTL

\* However first payouts, picks, registrations, resets and crashes race, no two
\* kids' rows show one address or hold one index, and a derived row's address is
\* the one its index derives.
THEOREM AccountsAreOneKids == Spec => []OneKidPerAccount
<1>1. IInv => OneKidPerAccount
  BY DEF IInv, RowsInLine, IndexOnce, AddressOnce, OneKidPerAccount
<1> QED BY <1>1, Invariant, PTL

\* No account that holds money or is being paid is forgotten: its index is on a
\* row, also after a registration, a reset or a migration.
THEOREM MoneyStaysReachable == Spec => []MoneyIsReachable
<1>1. IInv => MoneyIsReachable
  BY DEF IInv, MoneyIsDerived, MoneyIsReachable
<1> QED BY <1>1, Invariant, PTL
=============================================================================
