--------------------------- MODULE KidMoneyProofs ---------------------------
(***************************************************************************)
(* Proofs about KidMoney, for every shelf, every number of buys and        *)
(* requests, and every kind of instance: who holds the spend lock, what is *)
(* spendable, what a fault can strand, and what a stake's proof is worth.  *)
(***************************************************************************)
EXTENDS KidMoneyInvariant, SumLemmas, TLAPS

-----------------------------------------------------------------------------
(* Rows, and the steps of one buy or one request.                          *)

Receipts == {"none", "done", "pending_parent", "fulfilled", "refunded"}
Debits == {"none", "hold", "purchase", "refunded"}
BuyRow == [item : Shelf \cup {None}, pc : BuyStates, paid : BOOLEAN,
           receipt : {"none", "done", "pending_parent", "fulfilled", "refunded"},
           debit : {"none", "hold", "purchase", "refunded"},
           approval : CardStates, back : Nat]
AskRow == [pc : {"idle", "checked", "queued", "counting", "paying"},
           status : {"none", "pending", "executed", "rejected"}, approval : CardStates]
StakeRow == [row : {"none", "pending", "done", "failed"},
             tx : {"none", "pooled", "executed", "failed"}, before : Int, others : Nat]

Rows ==
  /\ buys \in [Buys -> BuyRow] /\ asks \in [Asks -> AskRow] /\ stakes \in [Asks -> StakeRow]
  /\ chain \in Int /\ read \in Int /\ settled \in Nat /\ mode \in Modes /\ lockQ \in Seq(Buys \cup Asks)

BuyStep(b) ==
  \/ Tap(b) \/ Enter(b) \/ ReadBalance(b) \/ Afford(b) \/ RecordDeferredSpend(b)
  \/ SendPayment(b) \/ HandOver(b) \/ RefusedAtCap(b) \/ BalanceReadFails(b)
  \/ ApproveCoupon(b) \/ RejectCoupon(b) \/ GiveBack(b)

\* What settlePendingStakes does with the row of a stake.
WalletRead(r) == ListStake(r) \/ LookAtStake(r) \/ SettleStake(r)

AskStep(r) ==
  \/ Ask(r) \/ CheckFunds(r) \/ Decide(r) \/ RejectAsk(r) \/ StartExecuting(r)
  \/ AffordAsk(r) \/ SendAsk(r) \/ StakeLands(r) \/ StakeDies(r) \/ WalletRead(r)

\* Money that leaves changes only what is counted beside the stakes.
SameStakes(s) ==
  /\ s \in [Asks -> StakeRow]
  /\ \A r \in Asks : s[r].row = stakes[r].row /\ s[r].tx = stakes[r].tx /\ s[r].before = stakes[r].before

\* The lock in a step of p, who is inside it afterwards or not.
LockStep(p, inside) ==
  \/ lockQ' = lockQ /\ (inside => Holds(p))
  \/ ~ inside /\ lockQ' = Append(lockQ, p)
  \/ ~ inside /\ Holds(p) /\ lockQ' = Tail(lockQ)

-----------------------------------------------------------------------------
(* The buys.                                                               *)

\* A step of a buy keeps its row in order.
LEMMA BuysStayOK ==
  ASSUME TypeOK, BuysOK, NEW b \in Buys, BuyStep(b)
  PROVE  BuysOK'
<1>1. buys \in [Buys -> BuyRow]
  BY DEF TypeOK, BuyRow
<1> USE DEF BuysOK, BuyOK, BuyIs, Item
<1>a. CASE Tap(b)
  BY <1>1, <1>a, KidMoneyAssumption DEF Tap, BuyRow
<1>b. CASE Enter(b)
  BY <1>1, <1>b DEF Enter, GoOn, TurnedAway, BuyRow
<1>c. CASE ReadBalance(b)
  BY <1>1, <1>c DEF ReadBalance, BuyRow
<1>d. CASE Afford(b)
  BY <1>1, <1>d DEF Afford, GoOn, TurnedAway, BuyRow
<1>e. CASE RecordDeferredSpend(b)
  BY <1>1, <1>e DEF RecordDeferredSpend, GoOn, TurnedAway, BuyRow
<1>f. CASE SendPayment(b)
  BY <1>1, <1>f DEF SendPayment, GoOn, TurnedAway, BuyRow
<1>g. CASE HandOver(b)
  BY <1>1, <1>g DEF HandOver, BuyRow, CardStates
<1>h. CASE RefusedAtCap(b)
  BY <1>1, <1>h DEF RefusedAtCap, TurnedAway, BuyRow
<1>i. CASE BalanceReadFails(b)
  BY <1>1, <1>i DEF BalanceReadFails, TurnedAway, BuyRow
<1>j. CASE ApproveCoupon(b)
  BY <1>1, <1>j DEF ApproveCoupon, BuyRow, CardStates
<1>k. CASE RejectCoupon(b)
  BY <1>1, <1>k DEF RejectCoupon, BuyRow, CardStates
<1>l. CASE GiveBack(b)
  BY <1>1, <1>l DEF GiveBack, BuyRow
<1> QED BY <1>a, <1>b, <1>c, <1>d, <1>e, <1>f, <1>g, <1>h, <1>i, <1>j, <1>k, <1>l DEF BuyStep

\* The type invariant, by rows.
LEMMA TypeIsRows == TypeOK => Rows
  BY DEF TypeOK, Rows, BuyRow, AskRow, StakeRow

\* What is on the shelf has a price and a number of minutes.
LEMMA ItemsHavePrices ==
  ASSUME TypeOK, NEW b \in Buys, Item(b) # None
  PROVE  /\ Item(b) \in Shelf /\ PriceOf(b) \in Nat \ {0} /\ Item(b).minutes \in Nat
  BY KidMoneyAssumption DEF TypeOK, Item, PriceOf

\* Every pending stake but the one that moved is told of what left beside it.
LEMMA BesideRows ==
  ASSUME TypeOK, NEW p, NEW value \in Nat
  PROVE  /\ SameStakes(Beside(p, value))
         /\ \A s \in Asks : Beside(p, value)[s].others =
              IF s # p /\ stakes[s].row # "none" THEN stakes[s].others + value ELSE stakes[s].others
<1> DEFINE moved(s) == IF s # p /\ stakes[s].row # "none"
                         THEN [stakes[s] EXCEPT !.others = @ + value] ELSE stakes[s]
<1>1. stakes \in [Asks -> StakeRow] /\ Beside(p, value) = [s \in Asks |-> moved(s)]
  BY DEF TypeOK, Beside, StakeRow
<1>2. ASSUME NEW s \in Asks
      PROVE  /\ moved(s) \in StakeRow
             /\ moved(s).row = stakes[s].row /\ moved(s).tx = stakes[s].tx /\ moved(s).before = stakes[s].before
             /\ moved(s).others = IF s # p /\ stakes[s].row # "none" THEN stakes[s].others + value ELSE stakes[s].others
  BY <1>1 DEF StakeRow
<1> QED BY <1>1, <1>2 DEF SameStakes

\* Writing one field of a buy leaves a buy.
LEMMA BuyFields ==
  ASSUME NEW row \in BuyRow
  PROVE  /\ \A x \in Shelf : [row EXCEPT !.item = x] \in BuyRow
         /\ \A x \in BuyStates : [row EXCEPT !.pc = x] \in BuyRow
         /\ \A x \in BOOLEAN : [row EXCEPT !.paid = x] \in BuyRow
         /\ \A x \in Receipts : [row EXCEPT !.receipt = x] \in BuyRow
         /\ \A x \in Debits : [row EXCEPT !.debit = x] \in BuyRow
         /\ \A x \in CardStates : [row EXCEPT !.approval = x] \in BuyRow
         /\ \A x \in Nat : [row EXCEPT !.back = x] \in BuyRow
  BY DEF BuyRow, Receipts, Debits

\* So does writing several.
LEMMA BuyWrites ==
  ASSUME NEW row \in BuyRow
  PROVE  /\ \A pc \in BuyStates, receipt \in Receipts, approval \in CardStates :
              [row EXCEPT !.pc = pc, !.receipt = receipt, !.approval = approval] \in BuyRow
         /\ \A approval \in CardStates, receipt \in Receipts, debit \in Debits :
              [row EXCEPT !.approval = approval, !.receipt = receipt, !.debit = debit] \in BuyRow
         /\ \A approval \in CardStates, receipt \in Receipts, debit \in Debits, back \in Nat :
              [row EXCEPT !.approval = approval, !.receipt = receipt, !.debit = debit, !.back = back] \in BuyRow
         /\ \A approval \in CardStates, pc \in BuyStates :
              [row EXCEPT !.approval = approval, !.pc = pc] \in BuyRow
         /\ \A pc \in BuyStates, receipt \in Receipts, back \in Nat :
              [row EXCEPT !.pc = pc, !.receipt = receipt, !.back = back] \in BuyRow
         /\ \A pc \in BuyStates, back \in Nat :
              [row EXCEPT !.pc = pc, !.back = back] \in BuyRow
<1>1. ASSUME NEW pc \in BuyStates, NEW receipt \in Receipts, NEW approval \in CardStates
      PROVE  [row EXCEPT !.pc = pc, !.receipt = receipt, !.approval = approval] \in BuyRow
  <2>1. [row EXCEPT !.pc = pc] \in BuyRow
    BY BuyFields
  <2>2. [row EXCEPT !.pc = pc, !.receipt = receipt] \in BuyRow
    BY BuyFields, <2>1
  <2> QED BY BuyFields, <2>2
<1>2. ASSUME NEW approval \in CardStates, NEW receipt \in Receipts, NEW debit \in Debits
      PROVE  [row EXCEPT !.approval = approval, !.receipt = receipt, !.debit = debit] \in BuyRow
  <2>1. [row EXCEPT !.approval = approval] \in BuyRow
    BY BuyFields
  <2>2. [row EXCEPT !.approval = approval, !.receipt = receipt] \in BuyRow
    BY BuyFields, <2>1
  <2> QED BY BuyFields, <2>2
<1>3. ASSUME NEW approval \in CardStates, NEW receipt \in Receipts, NEW debit \in Debits, NEW back \in Nat
      PROVE  [row EXCEPT !.approval = approval, !.receipt = receipt, !.debit = debit, !.back = back] \in BuyRow
  <2>1. [row EXCEPT !.approval = approval] \in BuyRow
    BY BuyFields
  <2>2. [row EXCEPT !.approval = approval, !.receipt = receipt] \in BuyRow
    BY BuyFields, <2>1
  <2>3. [row EXCEPT !.approval = approval, !.receipt = receipt, !.debit = debit] \in BuyRow
    BY BuyFields, <2>2
  <2> QED BY BuyFields, <2>3
<1>4. ASSUME NEW approval \in CardStates, NEW pc \in BuyStates
      PROVE  [row EXCEPT !.approval = approval, !.pc = pc] \in BuyRow
  <2>1. [row EXCEPT !.approval = approval] \in BuyRow
    BY BuyFields
  <2> QED BY BuyFields, <2>1
<1>5. ASSUME NEW pc \in BuyStates, NEW receipt \in Receipts, NEW back \in Nat
      PROVE  [row EXCEPT !.pc = pc, !.receipt = receipt, !.back = back] \in BuyRow
  <2>1. [row EXCEPT !.pc = pc] \in BuyRow
    BY BuyFields
  <2>2. [row EXCEPT !.pc = pc, !.receipt = receipt] \in BuyRow
    BY BuyFields, <2>1
  <2> QED BY BuyFields, <2>2
<1>6. ASSUME NEW pc \in BuyStates, NEW back \in Nat
      PROVE  [row EXCEPT !.pc = pc, !.back = back] \in BuyRow
  <2>1. [row EXCEPT !.pc = pc] \in BuyRow
    BY BuyFields
  <2> QED BY BuyFields, <2>1
<1> QED BY <1>1, <1>2, <1>3, <1>4, <1>5, <1>6

\* A step of a buy writes its own row.
LEMMA BuyRows ==
  ASSUME TypeOK, BuysOK, NEW b \in Buys, BuyStep(b)
  PROVE  buys' \in [Buys -> BuyRow] /\ \A c \in Buys \ {b} : buys'[c] = buys[c]
<1>1. buys \in [Buys -> BuyRow]
  BY TypeIsRows DEF Rows
<1> DEFINE row == buys[b]
<1>2. row \in BuyRow /\ row.back + 1 \in Nat /\ row.debit \in Debits /\ row.back + 0 \in Nat
  BY <1>1 DEF BuyRow, Debits
<1>3. SUFFICES \E q \in BuyRow : buys' = [buys EXCEPT ![b] = q]
  BY <1>1
<1>4. /\ BuyStates = {"new", "queued", "reading", "counting", "paying", "paid", "over", "returning"}
      /\ Receipts = {"none", "done", "pending_parent", "fulfilled", "refunded"}
      /\ Debits = {"none", "hold", "purchase", "refunded"} /\ CardStates = {"none", "pending", "approved", "rejected"}
  BY DEF BuyStates, Receipts, Debits, CardStates
<1>5. ASSUME NEW pc \in BuyStates, buys' = [buys EXCEPT ![b].pc = pc] PROVE \E q \in BuyRow : buys' = [buys EXCEPT ![b] = q]
  BY <1>2, <1>5, BuyFields
<1>6. TurnedAway(b) => \E q \in BuyRow : buys' = [buys EXCEPT ![b] = q]
  BY <1>4, <1>5 DEF TurnedAway
<1>7. "over" \in BuyStates
  BY <1>4
<1>a. CASE Tap(b)
  <2>1. PICK item \in Shelf : buys' = [buys EXCEPT ![b].item = item, ![b].pc = "queued"]
    BY <1>a DEF Tap
  <2>2. [row EXCEPT !.item = item, !.pc = "queued"] \in BuyRow
    BY <1>2, <1>4, BuyFields
  <2> QED BY <2>1, <2>2, <1>1
<1>b. CASE Enter(b)
  BY <1>b, <1>4, <1>5, <1>6 DEF Enter, GoOn
<1>c. CASE ReadBalance(b)
  BY <1>c, <1>4, <1>5 DEF ReadBalance
<1>d. CASE Afford(b)
  <2>1. [row EXCEPT !.pc = "paid", !.paid = TRUE] \in BuyRow
    BY <1>2, <1>4, BuyFields
  <2>2. \/ TurnedAway(b) \/ buys' = [buys EXCEPT ![b].pc = "paying"]
        \/ buys' = [buys EXCEPT ![b].pc = "paid", ![b].paid = TRUE]
    BY <1>d DEF Afford
  <2> QED BY <2>1, <2>2, <1>1, <1>4, <1>5, <1>6
<1>e. CASE RecordDeferredSpend(b)
  <2>1. PICK debit \in Debits : TurnedAway(b) \/ buys' = [buys EXCEPT ![b].pc = "paid", ![b].paid = TRUE, ![b].debit = debit]
    BY <1>e, <1>4 DEF RecordDeferredSpend
  <2>2. [row EXCEPT !.pc = "paid", !.paid = TRUE, !.debit = debit] \in BuyRow
    BY <1>2, <1>4, BuyFields
  <2> QED BY <2>1, <2>2, <1>1, <1>6
<1>f. CASE SendPayment(b)
  <2>1. [row EXCEPT !.pc = "paid", !.paid = TRUE] \in BuyRow /\ [row EXCEPT !.pc = "over", !.paid = TRUE] \in BuyRow
    BY <1>2, <1>4, BuyFields
  <2>2. \/ TurnedAway(b) \/ buys' = [buys EXCEPT ![b].pc = "over", ![b].paid = TRUE]
        \/ buys' = [buys EXCEPT ![b].pc = "paid", ![b].paid = TRUE]
    BY <1>f DEF SendPayment
  <2> QED BY <2>1, <2>2, <1>1, <1>6
<1>g. CASE HandOver(b)
  <2>1. PICK receipt \in Receipts, approval \in CardStates :
          buys' = [buys EXCEPT ![b].pc = "over", ![b].receipt = receipt, ![b].approval = approval]
    BY <1>g, <1>4 DEF HandOver
  <2>2. [row EXCEPT !.pc = "over", !.receipt = receipt, !.approval = approval] \in BuyRow
    BY <1>2, <1>7, BuyWrites
  <2> QED BY <2>1, <2>2, <1>1
<1>h. CASE RefusedAtCap(b)
  BY <1>h, <1>6 DEF RefusedAtCap
<1>i. CASE BalanceReadFails(b)
  BY <1>i, <1>6 DEF BalanceReadFails
<1>j. CASE ApproveCoupon(b)
  <2>1. PICK debit \in Debits :
          buys' = [buys EXCEPT ![b].approval = "approved", ![b].receipt = "fulfilled", ![b].debit = debit]
    BY <1>1, <1>2, <1>j, <1>4 DEF ApproveCoupon
  <2>2. [row EXCEPT !.approval = "approved", !.receipt = "fulfilled", !.debit = debit] \in BuyRow
    BY <1>2, <1>4, BuyWrites
  <2> QED BY <2>1, <2>2, <1>1
<1>k. CASE RejectCoupon(b)
  <2>1. \/ buys' = [buys EXCEPT ![b].approval = "rejected", ![b].receipt = "refunded",
                      ![b].debit = "refunded", ![b].back = row.back + 1]
        \/ buys' = [buys EXCEPT ![b].approval = "rejected", ![b].pc = "returning"]
    BY <1>1, <1>k DEF RejectCoupon, BuyRow
  <2>2. /\ [row EXCEPT !.approval = "rejected", !.receipt = "refunded", !.debit = "refunded", !.back = row.back + 1] \in BuyRow
        /\ [row EXCEPT !.approval = "rejected", !.pc = "returning"] \in BuyRow
    BY <1>2, <1>4, BuyWrites
  <2> QED BY <2>1, <2>2, <1>1
<1>l. CASE GiveBack(b)
  <2>1. PICK moved \in {0, 1} :
          \/ buys' = [buys EXCEPT ![b].pc = "over", ![b].receipt = "refunded", ![b].back = row.back + 1]
          \/ buys' = [buys EXCEPT ![b].pc = "over", ![b].back = row.back + moved]
    BY <1>1, <1>l DEF GiveBack, BuyRow
  <2>2. row.back + moved \in Nat
    BY <1>2
  <2>3. [row EXCEPT !.pc = "over", !.receipt = "refunded", !.back = row.back + 1] \in BuyRow
    BY <1>2, <1>4, BuyWrites
  <2>4. [row EXCEPT !.pc = "over", !.back = row.back + moved] \in BuyRow
    BY <1>2, <1>7, <2>2, BuyWrites
  <2> QED BY <2>1, <2>3, <2>4, <1>1
<1> QED BY <1>a, <1>b, <1>c, <1>d, <1>e, <1>f, <1>g, <1>h, <1>i, <1>j, <1>k, <1>l DEF BuyStep

\* Where a step of a buy leaves it, and what it does with the lock.
LEMMA BuyLock ==
  ASSUME TypeOK, OneAtATime, BuysOK, NEW b \in Buys, BuyStep(b)
  PROVE  LockStep(b, Spending(b)')
<1>1. buys \in [Buys -> BuyRow] /\ (Spending(b) => Holds(b))
  BY TypeIsRows DEF OneAtATime, Rows
<1>2. ASSUME NEW pc, buys'[b].pc = pc, lockQ' = lockQ, pc \in {"reading", "counting", "paying", "paid"} => Holds(b)
      PROVE  LockStep(b, Spending(b)')
  BY <1>2 DEF LockStep, Spending
<1>3. ASSUME buys'[b].pc = "over", Holds(b), Release
      PROVE  LockStep(b, Spending(b)')
  BY <1>3 DEF LockStep, Spending, Release
<1>4. TurnedAway(b) /\ Holds(b) => LockStep(b, Spending(b)')
  <2>1. TurnedAway(b) => buys'[b].pc = "over" /\ Release
    BY <1>1 DEF TurnedAway, BuyRow
  <2> QED BY <2>1, <1>3
<1>a. CASE Tap(b)
  <2>1. buys'[b].pc = "queued" /\ lockQ' = Append(lockQ, b)
    BY <1>1, <1>a DEF Tap, Queue, BuyRow
  <2> QED BY <2>1 DEF LockStep, Spending
<1>b. CASE Enter(b)
  <2>1. TurnedAway(b) \/ (buys'[b].pc = "reading" /\ lockQ' = lockQ)
    BY <1>1, <1>b DEF Enter, GoOn, LockKept, BuyRow
  <2> QED BY <1>b, <2>1, <1>2, <1>4 DEF Enter
<1>c. CASE ReadBalance(b)
  <2>1. buys'[b].pc = "counting" /\ lockQ' = lockQ
    BY <1>1, <1>c DEF ReadBalance, BuyRow
  <2> QED BY <1>c, <2>1, <1>2 DEF ReadBalance
<1>d. CASE Afford(b)
  <2>1. TurnedAway(b) \/ (buys'[b].pc \in {"paid", "paying"} /\ lockQ' = lockQ)
    BY <1>1, <1>d DEF Afford, LockKept, BuyRow
  <2> QED BY <1>d, <2>1, <1>2, <1>4 DEF Afford
<1>e. CASE RecordDeferredSpend(b)
  <2>1. TurnedAway(b) \/ (buys'[b].pc = "paid" /\ lockQ' = lockQ)
    BY <1>1, <1>e DEF RecordDeferredSpend, LockKept, BuyRow
  <2> QED BY <1>e, <2>1, <1>2, <1>4 DEF RecordDeferredSpend
<1>f. CASE SendPayment(b)
  <2>1. TurnedAway(b) \/ (buys'[b].pc = "paid" /\ lockQ' = lockQ) \/ (buys'[b].pc = "over" /\ Release)
    BY <1>1, <1>f DEF SendPayment, BuyRow
  <2> QED BY <1>f, <2>1, <1>2, <1>3, <1>4 DEF SendPayment
<1>g. CASE HandOver(b)
  <2>1. buys'[b].pc = "over" /\ Release
    BY <1>1, <1>g DEF HandOver, BuyRow
  <2> QED BY <1>g, <2>1, <1>3 DEF HandOver
<1>h. CASE RefusedAtCap(b)
  BY <1>h, <1>4 DEF RefusedAtCap
<1>i. CASE BalanceReadFails(b)
  BY <1>i, <1>4 DEF BalanceReadFails
<1>j. CASE ApproveCoupon(b)
  <2>1. buys'[b].pc = buys[b].pc /\ lockQ' = lockQ
    BY <1>1, <1>j DEF ApproveCoupon, BuyRow
  <2> QED BY <2>1, <1>1, <1>2 DEF Spending
<1>k. CASE RejectCoupon(b)
  <2>1. buys'[b].pc \in {buys[b].pc, "returning"} /\ lockQ' = lockQ
    BY <1>1, <1>k DEF RejectCoupon, BuyRow
  <2> QED BY <2>1, <1>1, <1>2 DEF Spending
<1>l. CASE GiveBack(b)
  <2>1. buys'[b].pc = "over" /\ lockQ' = lockQ
    BY <1>1, <1>l DEF GiveBack, BuyRow
  <2> QED BY <2>1, <1>2
<1> QED BY <1>a, <1>b, <1>c, <1>d, <1>e, <1>f, <1>g, <1>h, <1>i, <1>j, <1>k, <1>l DEF BuyStep

\* No step of a buy lets two callers past the head of childSpendKey.
LEMMA OneBuyerAtATime ==
  ASSUME TypeOK, OneAtATime, BuysOK, NEW b \in Buys, BuyStep(b)
  PROVE  OneAtATime'
<1>1. /\ buys' \in [Buys -> BuyRow] /\ \A c \in Buys \ {b} : buys'[c] = buys[c]
      /\ LockStep(b, Spending(b)') /\ lockQ \in Seq(Buys \cup Asks) /\ Buys \cap Asks = {}
  BY BuyRows, BuyLock, KidMoneyAssumption DEF TypeOK
<1>2. asks' = asks
  BY DEF BuyStep, Tap, Enter, ReadBalance, Afford, RecordDeferredSpend, SendPayment, HandOver,
         RefusedAtCap, BalanceReadFails, ApproveCoupon, RejectCoupon, GiveBack
<1>3. ASSUME NEW p, p # b, Holds(p) PROVE Holds(p)'
  BY <1>1, <1>3 DEF Holds, LockStep
<1>4. ASSUME Spending(b)' PROVE Holds(b)'
  BY <1>1, <1>4 DEF Holds, LockStep
<1>5. ASSUME NEW c \in Buys, Spending(c)' PROVE Holds(c)'
  <2>1. c # b => Spending(c)
    BY <1>1, <1>5 DEF Spending
  <2> QED BY <2>1, <1>3, <1>4, <1>5 DEF OneAtATime
<1>6. ASSUME NEW r \in Asks, Sending(r)' PROVE Holds(r)'
  BY <1>1, <1>2, <1>3, <1>6 DEF OneAtATime, Sending
<1> QED BY <1>5, <1>6 DEF OneAtATime

-----------------------------------------------------------------------------
(* The requests.                                                           *)

\* A step of a request writes its own row.
LEMMA AskRows ==
  ASSUME TypeOK, NEW r \in Asks, AskStep(r)
  PROVE  asks' \in [Asks -> AskRow] /\ \A s \in Asks \ {r} : asks'[s] = asks[s]
<1>1. asks \in [Asks -> AskRow]
  BY TypeIsRows DEF Rows
<1> USE <1>1 DEF AskRow, CardStates
<1>2. Reopened(r) \/ Executed(r) => asks' \in [Asks -> AskRow] /\ \A s \in Asks \ {r} : asks'[s] = asks[s]
  BY DEF Reopened, Executed
<1>a. CASE Ask(r)
  BY <1>a DEF Ask
<1>b. CASE CheckFunds(r)
  BY <1>b DEF CheckFunds
<1>c. CASE Decide(r)
  <2>1. \/ asks' = [asks EXCEPT ![r].pc = "queued", ![r].approval = "approved"]
        \/ asks' = [asks EXCEPT ![r].pc = "idle"]
    BY <1>c DEF Decide
  <2> QED BY <2>1
<1>d. CASE RejectAsk(r)
  BY <1>d DEF RejectAsk
<1>e. CASE StartExecuting(r)
  BY <1>e DEF StartExecuting
<1>f. CASE AffordAsk(r)
  <2>1. Reopened(r) \/ Executed(r) \/ asks' = [asks EXCEPT ![r].pc = "paying"]
    BY <1>f DEF AffordAsk
  <2> QED BY <2>1, <1>2
<1>g. CASE SendAsk(r)
  BY <1>g, <1>2 DEF SendAsk
<1>h. CASE StakeLands(r)
  BY <1>h DEF StakeLands
<1>i. CASE StakeDies(r)
  BY <1>i DEF StakeDies
<1>j. CASE WalletRead(r)
  BY <1>j DEF WalletRead, ListStake, LookAtStake, SettleStake, StakeReads
<1> QED BY <1>a, <1>b, <1>c, <1>d, <1>e, <1>f, <1>g, <1>h, <1>i, <1>j DEF AskStep

\* Where a step of a request leaves it, and what it does with the lock.
LEMMA AskLock ==
  ASSUME TypeOK, OneAtATime, NEW r \in Asks, AskStep(r)
  PROVE  LockStep(r, Sending(r)')
<1>1. asks \in [Asks -> AskRow] /\ (Sending(r) => Holds(r))
  BY TypeIsRows DEF OneAtATime, Rows
<1>2. ASSUME asks'[r].pc \in {asks[r].pc, "idle", "checked"} \/ Holds(r), lockQ' = lockQ
      PROVE  LockStep(r, Sending(r)')
  BY <1>1, <1>2 DEF LockStep, Sending
<1>3. ASSUME Reopened(r) \/ Executed(r), Holds(r)
      PROVE  LockStep(r, Sending(r)')
  <2>1. asks'[r].pc = "idle" /\ Release
    BY <1>1, <1>3 DEF Reopened, Executed, AskRow
  <2> QED BY <2>1, <1>3 DEF LockStep, Sending, Release
<1> USE DEF AskRow, LockKept
<1>a. CASE Ask(r)
  BY <1>1, <1>2, <1>a DEF Ask
<1>b. CASE CheckFunds(r)
  BY <1>1, <1>2, <1>b DEF CheckFunds
<1>c. CASE Decide(r)
  <2>1. \/ asks'[r].pc = "queued" /\ lockQ' = Append(lockQ, r)
        \/ asks'[r].pc = "idle" /\ lockQ' = lockQ
    BY <1>1, <1>c DEF Decide, Queue
  <2> QED BY <2>1, <1>2 DEF LockStep, Sending
<1>d. CASE RejectAsk(r)
  BY <1>1, <1>2, <1>d DEF RejectAsk
<1>e. CASE StartExecuting(r)
  BY <1>1, <1>2, <1>e DEF StartExecuting
<1>f. CASE AffordAsk(r)
  BY <1>1, <1>2, <1>3, <1>f DEF AffordAsk
<1>g. CASE SendAsk(r)
  BY <1>1, <1>3, <1>g DEF SendAsk
<1>h. CASE StakeLands(r)
  BY <1>1, <1>2, <1>h DEF StakeLands
<1>i. CASE StakeDies(r)
  BY <1>1, <1>2, <1>i DEF StakeDies
<1>j. CASE WalletRead(r)
  BY <1>1, <1>2, <1>j DEF WalletRead, ListStake, LookAtStake, SettleStake, StakeReads
<1> QED BY <1>a, <1>b, <1>c, <1>d, <1>e, <1>f, <1>g, <1>h, <1>i, <1>j DEF AskStep

\* A request touches no buy.
LEMMA AskFrame ==
  ASSUME NEW r, AskStep(r)
  PROVE  Kept
  BY DEF AskStep, Ask, CheckFunds, Decide, RejectAsk, StartExecuting, AffordAsk, SendAsk,
         StakeLands, StakeDies, WalletRead, ListStake, LookAtStake, SettleStake, StakeReads

\* No step of a request lets two callers past the head of childSpendKey.
LEMMA OneSenderAtATime ==
  ASSUME TypeOK, OneAtATime, NEW r \in Asks, AskStep(r)
  PROVE  OneAtATime'
<1>1. /\ asks' \in [Asks -> AskRow] /\ \A s \in Asks \ {r} : asks'[s] = asks[s]
      /\ LockStep(r, Sending(r)') /\ lockQ \in Seq(Buys \cup Asks) /\ Buys \cap Asks = {}
  BY AskRows, AskLock, KidMoneyAssumption DEF TypeOK
<1>2. buys' = buys
  BY AskFrame DEF Kept
<1>3. ASSUME NEW p, p # r, Holds(p) PROVE Holds(p)'
  BY <1>1, <1>3 DEF Holds, LockStep
<1>4. ASSUME Sending(r)' PROVE Holds(r)'
  BY <1>1, <1>4 DEF Holds, LockStep
<1>5. ASSUME NEW s \in Asks, Sending(s)' PROVE Holds(s)'
  <2>1. s # r => Sending(s)
    BY <1>1, <1>5 DEF Sending
  <2> QED BY <2>1, <1>3, <1>4, <1>5 DEF OneAtATime
<1>6. ASSUME NEW c \in Buys, Spending(c)' PROVE Holds(c)'
  BY <1>1, <1>2, <1>3, <1>6 DEF OneAtATime, Spending
<1> QED BY <1>5, <1>6 DEF OneAtATime

\* Money that leaves never changes a stake's row, its transaction or its baseline.
LEMMA BuyStakes ==
  ASSUME TypeOK, BuysOK, NEW b \in Buys, BuyStep(b)
  PROVE  SameStakes(stakes')
<1>1. buys[b].item # None => PriceOf(b) \in Nat
  BY ItemsHavePrices DEF Item
<1>2. buys[b].pc # "new" => SameStakes(Beside(b, PriceOf(b)))
  BY <1>1, BesideRows DEF BuysOK, BuyOK
<1>3. SameStakes(stakes)
  BY DEF SameStakes, TypeOK, StakeRow
<1>4. stakes' = stakes \/ (stakes' = Beside(b, PriceOf(b)) /\ buys[b].pc # "new")
  BY DEF BuyStep, Tap, Enter, ReadBalance, Afford, RecordDeferredSpend, SendPayment, HandOver,
         RefusedAtCap, BalanceReadFails, ApproveCoupon, RejectCoupon, GiveBack, Leaves, BuyIs
<1> QED BY <1>2, <1>3, <1>4

\* A step of a request writes the row of its own stake; the others' rows stay.
LEMMA AskStakes ==
  ASSUME TypeOK, OutstandingDebt \in Int, NEW r \in Asks, AskStep(r)
  PROVE  /\ stakes' \in [Asks -> StakeRow]
         /\ \A s \in Asks \ {r} : /\ stakes'[s].row = stakes[s].row /\ stakes'[s].tx = stakes[s].tx
                                  /\ stakes'[s].before = stakes[s].before
<1>1. stakes \in [Asks -> StakeRow] /\ AskValue[r] \in Nat \ {0} /\ chain \in Int /\ read \in Int
  BY TypeIsRows, KidMoneyAssumption DEF Rows
<1>2. SameStakes(Beside(r, AskValue[r]))
  BY <1>1, BesideRows
<1>3. stakes' = Beside(r, AskValue[r]) => stakes' \in [Asks -> StakeRow]
  BY <1>2 DEF SameStakes
<1>4. stakes' = stakes => stakes' \in [Asks -> StakeRow]
  BY <1>1
<1>5. CASE StakeLands(r)
  <2>1. stakes' = [Beside(r, AskValue[r]) EXCEPT ![r].tx = "executed"]
    BY <1>5 DEF StakeLands
  <2>2. Beside(r, AskValue[r]) \in [Asks -> StakeRow]
    BY <1>2 DEF SameStakes
  <2>3. stakes' \in [Asks -> StakeRow] /\ \A s \in Asks \ {r} : stakes'[s] = Beside(r, AskValue[r])[s]
    BY <2>1, <2>2 DEF StakeRow
  <2> QED BY <2>3, <1>2 DEF SameStakes
<1>6. CASE SendAsk(r)
  <2>1. stakes' = StakeSent(r) => stakes' \in [Asks -> StakeRow] /\ \A s \in Asks \ {r} : stakes'[s] = stakes[s]
    <3> DEFINE sent == [row |-> "pending", tx |-> "pooled", before |-> read - OutstandingDebt,
                        others |-> IF read > chain THEN read - chain ELSE 0]
    <3>1. sent \in StakeRow
      BY <1>1 DEF StakeRow
    <3>2. StakeSent(r) = [stakes EXCEPT ![r] = sent]
      BY DEF StakeSent
    <3> HIDE DEF sent
    <3> QED BY <3>1, <3>2, <1>1
  <2>2. stakes' = stakes \/ stakes' = Beside(r, AskValue[r]) \/ stakes' = StakeSent(r)
    BY <1>6 DEF SendAsk, Leaves
  <2> QED BY <2>1, <2>2, <1>2, <1>3, <1>4 DEF SameStakes
<1>7. CASE StakeDies(r)
  BY <1>1, <1>7 DEF StakeDies, StakeRow
<1>8. CASE WalletRead(r)
  <2>1. CASE SettleStake(r)
    <3>1. PICK verdict \in reads[r] \ {"asked"} : stakes' = [stakes EXCEPT ![r].row = verdict]
      BY <2>1 DEF SettleStake
    <3>2. verdict \in {"done", "failed"}
      BY <3>1 DEF TypeOK
    <3> QED BY <1>1, <3>1, <3>2 DEF StakeRow
  <2>2. CASE stakes' = stakes
    BY <1>1, <2>2
  <2> QED BY <1>8, <2>1, <2>2 DEF WalletRead, ListStake, LookAtStake
<1>9. CASE AffordAsk(r)
  <2>1. stakes' = stakes \/ stakes' = Beside(r, AskValue[r])
    BY <1>9 DEF AffordAsk, Leaves
  <2> QED BY <2>1, <1>2, <1>3, <1>4 DEF SameStakes
<1> QED BY <1>4, <1>5, <1>6, <1>7, <1>8, <1>9
        DEF AskStep, Ask, CheckFunds, Decide, RejectAsk, StartExecuting

\* A step of a request keeps its row and its stake's row in order.
LEMMA AsksStayOK ==
  ASSUME TypeOK, AsksOK, VerdictsHold, OutstandingDebt \in Int, NEW r \in Asks, AskStep(r)
  PROVE  AsksOK'
<1>1. /\ asks \in [Asks -> AskRow] /\ stakes \in [Asks -> StakeRow] /\ stakes' \in [Asks -> StakeRow]
      /\ asks' \in [Asks -> AskRow] /\ AskOK(r)
      /\ \A s \in Asks \ {r} : /\ asks'[s] = asks[s]
                               /\ stakes'[s].row = stakes[s].row /\ stakes'[s].tx = stakes[s].tx
  BY TypeIsRows, AskRows, AskStakes DEF Rows, AsksOK
<1>2. SameStakes(Beside(r, AskValue[r]))
  BY BesideRows, KidMoneyAssumption
<1>3. ASSUME NEW s \in Asks \ {r} PROVE AskOK(s)'
  BY <1>1 DEF AsksOK, AskOK, Sending
<1> USE <1>1 DEF AskOK, Sending, AskRow
<1>4. AskOK(r)'
  <2>1. stakes' \in {stakes, Beside(r, AskValue[r])} =>
          stakes'[r].row = stakes[r].row /\ stakes'[r].tx = stakes[r].tx
    BY <1>2 DEF SameStakes
  <2>2. ASSUME Reopened(r), stakes' \in {stakes, Beside(r, AskValue[r])}, Sending(r) PROVE AskOK(r)'
    BY <2>1, <2>2 DEF Reopened
  <2>3. ASSUME Executed(r), Sending(r) PROVE AskOK(r)'
    BY <2>3 DEF Executed
  <2>a. CASE Ask(r)
    BY <2>a, <2>1 DEF Ask
  <2>b. CASE CheckFunds(r)
    BY <2>b, <2>1 DEF CheckFunds, AskIs
  <2>c. CASE Decide(r)
    <3>1. \/ asks' = [asks EXCEPT ![r].pc = "queued", ![r].approval = "approved"] /\ asks[r].approval = "pending"
          \/ asks' = [asks EXCEPT ![r].pc = "idle"]
      BY <2>c DEF Decide
    <3> QED BY <2>c, <3>1, <2>1 DEF Decide, AskIs
  <2>d. CASE RejectAsk(r)
    BY <2>d, <2>1 DEF RejectAsk
  <2>e. CASE StartExecuting(r)
    BY <2>e, <2>1 DEF StartExecuting, AskIs
  <2>f. CASE AffordAsk(r)
    <3>1. Sending(r)
      BY <2>f DEF AffordAsk, AskIs
    <3>2. \/ Reopened(r) /\ stakes' = stakes
          \/ Executed(r)
          \/ asks' = [asks EXCEPT ![r].pc = "paying"] /\ stakes' = stakes
      BY <2>f DEF AffordAsk
    <3> QED BY <3>1, <3>2, <2>1, <2>2, <2>3
  <2>g. CASE SendAsk(r)
    <3>1. Sending(r)
      BY <2>g DEF SendAsk, AskIs
    <3>2. (Reopened(r) /\ stakes' \in {stakes, Beside(r, AskValue[r])}) \/ Executed(r)
      BY <2>g DEF SendAsk, Leaves
    <3> QED BY <3>1, <3>2, <2>2, <2>3
  <2>h. CASE StakeLands(r)
    <3>1. asks' = asks /\ stakes[r].tx # "none"
      BY <2>h DEF StakeLands
    <3> QED BY <3>1
  <2>i. CASE StakeDies(r)
    <3>1. asks' = asks /\ stakes[r].tx # "none"
      BY <2>i DEF StakeDies
    <3> QED BY <3>1
  <2>j. CASE WalletRead(r)
    <3>1. asks' = asks /\ stakes[r].row # "none"
      BY <2>j DEF VerdictsHold, WalletRead, ListStake, LookAtStake, SettleStake, StakeReads
    <3> QED BY <3>1
  <2> QED BY <2>a, <2>b, <2>c, <2>d, <2>e, <2>f, <2>g, <2>h, <2>i, <2>j DEF AskStep
<1> QED BY <1>3, <1>4 DEF AsksOK

-----------------------------------------------------------------------------
(* Debts.                                                                  *)

\* Who has a debt of these kinds, and what they come to.
Due(kinds) == {b \in Buys : buys[b].debit \in kinds}
Debts(kinds) == SumFunctionOnSet([b \in Due(kinds) |-> PriceOf(b)], Due(kinds))

\* Sums over two sets that differ in one element differ in what it adds.
LEMMA OneApart ==
  ASSUME NEW S \in SUBSET Buys, NEW T \in SUBSET Buys, NEW f, NEW g, NEW b, S \ {b} = T \ {b},
         \A x \in S : f[x] \in Int, \A x \in T : g[x] \in Int, \A x \in S \ {b} : g[x] = f[x]
  PROVE  SumFunctionOnSet(g, T) - (IF b \in T THEN g[b] ELSE 0)
           = SumFunctionOnSet(f, S) - (IF b \in S THEN f[b] ELSE 0)
<1>1. IsFiniteSet(S) /\ IsFiniteSet(T) /\ IsFiniteSet(S \ {b})
  BY KidMoneyAssumption, FS_Subset
<1>2. SumFunctionOnSet(g, S \ {b}) = SumFunctionOnSet(f, S \ {b})
  BY <1>1, SumAgree
<1>3. PICK rest \in Int : rest = SumFunctionOnSet(f, S \ {b})
  BY <1>1, SumType
<1>4. SumFunctionOnSet(f, S) = rest + (IF b \in S THEN f[b] ELSE 0)
  <2>1. CASE b \in S
    BY <1>1, <1>3, <2>1, SumRemove
  <2>2. CASE b \notin S
    <3>1. S \ {b} = S
      BY <2>2
    <3> QED BY <1>3, <2>2, <3>1
  <2> QED BY <2>1, <2>2
<1>5. SumFunctionOnSet(g, T) = rest + (IF b \in T THEN g[b] ELSE 0)
  <2>1. SumFunctionOnSet(g, T \ {b}) = rest
    BY <1>2, <1>3
  <2>2. CASE b \in T
    BY <1>1, <2>1, <2>2, SumRemove
  <2>3. CASE b \notin T
    <3>1. T \ {b} = T
      BY <2>3
    <3> QED BY <2>1, <2>3, <3>1
  <2> QED BY <2>2, <2>3
<1>6. (IF b \in S THEN f[b] ELSE 0) \in Int /\ (IF b \in T THEN g[b] ELSE 0) \in Int
  OBVIOUS
<1> QED BY <1>3, <1>4, <1>5, <1>6

\* Whoever has a debt bought something, at a price.
LEMMA DebtsHavePrices ==
  ASSUME TypeOK, BuysOK, NEW kinds, "none" \notin kinds
  PROVE  /\ Due(kinds) \in SUBSET Buys /\ IsFiniteSet(Due(kinds))
         /\ \A b \in Due(kinds) : PriceOf(b) \in Nat \ {0}
         /\ Debts(kinds) \in Nat /\ settled \in Nat
         /\ Owing(kinds) = Debts(kinds) - settled
<1>1. Due(kinds) \in SUBSET Buys /\ IsFiniteSet(Due(kinds))
  BY KidMoneyAssumption, FS_Subset DEF Due
<1>2. ASSUME NEW b \in Due(kinds) PROVE PriceOf(b) \in Nat \ {0}
  <2>1. b \in Buys /\ buys[b].item # None
    BY <1>2 DEF Due, BuysOK, BuyOK
  <2> QED BY <2>1, ItemsHavePrices DEF Item
<1>3. Debts(kinds) \in Nat
  <2> DEFINE f == [b \in Due(kinds) |-> PriceOf(b)]
  <2>1. \A b \in Due(kinds) : f[b] \in Nat
    BY <1>2
  <2> HIDE DEF f
  <2>2. SumFunctionOnSet(f, Due(kinds)) \in Nat
    BY <1>1, <2>1, SumNat
  <2> QED BY <2>2 DEF f, Debts
<1>4. Owing(kinds) = Debts(kinds) - settled /\ settled \in Nat
  BY DEF Owing, Debts, Due, TypeOK
<1> QED BY <1>1, <1>2, <1>3, <1>4

\* A step of one buy changes the debts by what it adds to them or takes off.
LEMMA DebtsChange ==
  ASSUME TypeOK, BuysOK, NEW b \in Buys, buys' \in [Buys -> BuyRow],
         \A c \in Buys \ {b} : buys'[c] = buys[c],
         buys'[b].debit # "none" => PriceOf(b)' \in Nat,
         NEW kinds, "none" \notin kinds
  PROVE  Debts(kinds)' - (IF buys'[b].debit \in kinds THEN PriceOf(b)' ELSE 0)
           = Debts(kinds) - (IF buys[b].debit \in kinds THEN PriceOf(b) ELSE 0)
<1>1. PICK S \in SUBSET Buys : S = Due(kinds)
  BY DEF Due
<1>2. PICK T \in SUBSET Buys : T = Due(kinds)'
  BY DEF Due
<1>3. PICK f : f = [c \in S |-> PriceOf(c)]
  OBVIOUS
<1>4. PICK g : g = [c \in T |-> PriceOf(c)']
  OBVIOUS
<1>5. S \ {b} = T \ {b} /\ (b \in S <=> buys[b].debit \in kinds) /\ (b \in T <=> buys'[b].debit \in kinds)
  BY <1>1, <1>2 DEF Due
<1>6. \A c \in S : f[c] = PriceOf(c) /\ f[c] \in Int
  BY <1>1, <1>3, DebtsHavePrices
<1>7. ASSUME NEW c \in S \ {b} PROVE g[c] = f[c]
  <2>1. c \in T /\ c \in S /\ PriceOf(c)' = PriceOf(c)
    BY <1>5 DEF PriceOf
  <2> QED BY <2>1, <1>4, <1>6
<1>11. ASSUME NEW c \in T PROVE g[c] \in Int
  <2>1. g[c] = PriceOf(c)'
    BY <1>4
  <2>2. CASE c = b
    BY <1>5, <2>1, <2>2
  <2>3. CASE c # b
    <3>1. c \in S \ {b}
      BY <1>5, <2>3
    <3> QED BY <3>1, <1>6, <1>7
  <2> QED BY <2>2, <2>3
<1>8. SumFunctionOnSet(g, T) - (IF b \in T THEN g[b] ELSE 0)
        = SumFunctionOnSet(f, S) - (IF b \in S THEN f[b] ELSE 0)
  <2>1. \A c \in S : f[c] \in Int
    BY <1>6
  <2>2. S \ {b} = T \ {b}
    BY <1>5
  <2> QED BY <1>7, <1>11, <2>1, <2>2, OneApart, SMTT(40)
<1>9. Debts(kinds) = SumFunctionOnSet(f, S) /\ Debts(kinds)' = SumFunctionOnSet(g, T)
  BY <1>1, <1>2, <1>3, <1>4 DEF Debts
<1>10. (b \in S => f[b] = PriceOf(b)) /\ (b \in T => g[b] = PriceOf(b)')
  BY <1>4, <1>6
<1> QED BY <1>5, <1>8, <1>9, <1>10

\* The debts read nothing but the buys.
LEMMA DebtsKept ==
  ASSUME NEW kinds,
         \A b \in Buys : buys'[b].debit = buys[b].debit /\ buys'[b].item = buys[b].item
  PROVE  Debts(kinds)' = Debts(kinds)
<1>1. Due(kinds)' = Due(kinds)
  BY DEF Due
<1>2. \A b \in Due(kinds) : PriceOf(b)' = PriceOf(b)
  BY DEF Due, PriceOf
<1>3. [b \in Due(kinds) |-> PriceOf(b)]' = [b \in Due(kinds) |-> PriceOf(b)]
  BY <1>1, <1>2
<1> QED BY <1>1, <1>3 DEF Debts

\* What a step of a buy does with its debt.
DebtStep(b) ==
  \/ /\ buys'[b].debit = buys[b].debit
     /\ buys[b].debit # "none" => buys'[b].item = buys[b].item
  \/ /\ mode = "deferred" /\ buys[b].debit = "none" /\ buys'[b].debit \in {"hold", "purchase"}
     /\ BuyIs(b, "paying") /\ buys'[b].item = buys[b].item
     /\ OutstandingDebt + PriceOf(b) <= read /\ chain' = chain
  \/ /\ buys[b].debit = "hold" /\ buys'[b].debit \in {"purchase", "refunded"}
     /\ buys'[b].item = buys[b].item /\ chain' = chain

\* A buy's debt is held, kept or given back, and only when there is money for it.
LEMMA BuyDebts ==
  ASSUME TypeOK, BuysOK, OutstandingDebt \in Int, NEW b \in Buys, BuyStep(b)
  PROVE  DebtStep(b)
<1>1. buys \in [Buys -> BuyRow] /\ BuyOK(b) /\ read \in Int
  BY TypeIsRows DEF Rows, BuysOK
<1>2. buys[b].item # None => PriceOf(b) \in Nat
  BY ItemsHavePrices DEF Item
<1> USE DEF DebtStep, BuyRow
<1>0. TurnedAway(b) => DebtStep(b)
  BY <1>1 DEF TurnedAway
<1>a. CASE Tap(b)
  <2>1. buys[b].debit = "none" /\ buys'[b].debit = buys[b].debit
    BY <1>a, <1>1 DEF Tap, BuyIs, BuyOK
  <2> QED BY <2>1
<1>b. CASE Enter(b)
  BY <1>b, <1>0, <1>1 DEF Enter, GoOn
<1>c. CASE ReadBalance(b)
  BY <1>c, <1>1 DEF ReadBalance
<1>d. CASE Afford(b)
  BY <1>d, <1>0, <1>1 DEF Afford
<1>e. CASE RecordDeferredSpend(b)
  <2>1. buys[b].debit = "none" /\ PriceOf(b) \in Nat
    BY <1>e, <1>1, <1>2 DEF RecordDeferredSpend, BuyIs, BuyOK
  <2>2. CASE OutstandingDebt + PriceOf(b) > read
    BY <1>e, <2>2, <1>0 DEF RecordDeferredSpend
  <2>3. CASE ~ (OutstandingDebt + PriceOf(b) > read)
    <3>1. buys' = [buys EXCEPT ![b].pc = "paid", ![b].paid = TRUE,
                     ![b].debit = IF Item(b).kind = "coupon" THEN "hold" ELSE "purchase"]
      BY <1>e, <2>3 DEF RecordDeferredSpend
    <3>2. buys'[b].debit \in {"hold", "purchase"} /\ buys'[b].item = buys[b].item
      BY <3>1, <1>1
    <3> QED BY <1>e, <1>1, <2>1, <2>3, <3>2 DEF RecordDeferredSpend
  <2> QED BY <2>2, <2>3
<1>f. CASE SendPayment(b)
  BY <1>f, <1>0, <1>1 DEF SendPayment
<1>g. CASE HandOver(b)
  BY <1>g, <1>1 DEF HandOver
<1>h. CASE RefusedAtCap(b)
  BY <1>h, <1>0 DEF RefusedAtCap
<1>i. CASE BalanceReadFails(b)
  BY <1>i, <1>0 DEF BalanceReadFails
<1>j. CASE ApproveCoupon(b)
  BY <1>j, <1>1 DEF ApproveCoupon
<1>k. CASE RejectCoupon(b)
  BY <1>k, <1>1 DEF RejectCoupon
<1>l. CASE GiveBack(b)
  BY <1>l, <1>1 DEF GiveBack
<1> QED BY <1>a, <1>b, <1>c, <1>d, <1>e, <1>f, <1>g, <1>h, <1>i, <1>j, <1>k, <1>l DEF BuyStep

-----------------------------------------------------------------------------
(* What is spendable, and what leaves.                                     *)

OwedKinds == {"hold", "purchase"}

DebtFacts ==
  /\ OutstandingDebt = Debts(OwedKinds) - settled /\ CommittedDebt = Debts({"purchase"}) - settled
  /\ Debts(OwedKinds) \in Nat /\ Debts({"purchase"}) \in Nat /\ settled \in Nat
  /\ OutstandingDebt \in Int /\ CommittedDebt \in Int
  /\ mode # "deferred" => OutstandingDebt = 0

\* The sums of the model are the sums of the debts.
LEMMA DebtsAdded == TypeOK /\ BuysOK /\ ModeOK => DebtFacts
<1> SUFFICES ASSUME TypeOK, BuysOK, ModeOK PROVE DebtFacts
  OBVIOUS
<1>1. /\ Owing(OwedKinds) = Debts(OwedKinds) - settled
      /\ Debts(OwedKinds) \in Nat /\ settled \in Nat
  BY DebtsHavePrices DEF OwedKinds
<1>2. Owing({"purchase"}) = Debts({"purchase"}) - settled /\ Debts({"purchase"}) \in Nat
  BY DebtsHavePrices
<1>3. OutstandingDebt = Owing(OwedKinds) /\ CommittedDebt = Owing({"purchase"})
  BY DEF OutstandingDebt, CommittedDebt, OwedKinds
<1>4. ASSUME mode # "deferred" PROVE OutstandingDebt = 0
  <2>1. Due(OwedKinds) = {} /\ settled = 0
    BY <1>4 DEF ModeOK, Due, OwedKinds
  <2>2. Debts(OwedKinds) = SumFunctionOnSet([b \in {} |-> PriceOf(b)], {})
    BY <2>1 DEF Debts
  <2>3. Debts(OwedKinds) = 0
    BY <2>2, SumEmpty
  <2> QED BY <1>1, <1>3, <2>1, <2>3
<1> QED BY <1>1, <1>2, <1>3, <1>4 DEF DebtFacts

\* The same, one step later.
LEMMA DebtsAddedNext == (TypeOK /\ BuysOK /\ ModeOK)' => DebtFacts'
  BY DebtsAdded, PTL

\* What is reserved only ever lowers what is spendable.
LEMMA ReservedIsNat ==
  ASSUME NEW self
  PROVE  ReservedOutflow(self) \in Nat
<1>1. ASSUME NEW S \in SUBSET Asks PROVE SumFunctionOnSet(AskValue, S) \in Nat
  <2>1. IsFiniteSet(S) /\ \A r \in S : AskValue[r] \in Nat
    BY <1>1, KidMoneyAssumption, FS_Subset
  <2> QED BY <2>1, SumNat
<1>2. PendingStake \in Nat
  BY <1>1 DEF PendingStake
<1>3. ApprovedUnsettled(self) \in Nat
  <2> DEFINE S == {r \in Asks \ {self} : asks[r].status = "pending" /\ asks[r].approval = "approved"}
  <2>1. S \in SUBSET Asks
    OBVIOUS
  <2> HIDE DEF S
  <2>2. SumFunctionOnSet(AskValue, S) \in Nat
    BY <2>1, <1>1
  <2> QED BY <2>2 DEF S, ApprovedUnsettled
<1> QED BY <1>2, <1>3 DEF ReservedOutflow

\* What is spendable is on the address.
LEMMA SpendableIsThere ==
  ASSUME DebtFacts, NEW found \in Int, NEW self, NEW value \in Nat, Available(found, self) >= value,
         mode # "deferred"
  PROVE  found >= value
<1>1. OutstandingDebt = 0
  BY DEF DebtFacts
<1> QED BY <1>1, ReservedIsNat DEF Available

\* Money arrives, or what leaves was there and is counted beside the stakes.
MoneyStep(p, value) ==
  \/ chain' \in Int /\ chain' >= chain /\ stakes' = stakes
  \/ chain >= value /\ mode # "deferred" /\ Leaves(p, value)

\* A step of a buy moves money as MoneyStep says.
LEMMA BuyMoney ==
  ASSUME TypeOK, BuysOK, DebtFacts, ReadHolds, NEW b \in Buys, BuyStep(b)
  PROVE  MoneyStep(b, PriceOf(b))
<1>1. buys[b].item # None => PriceOf(b) \in Nat
  BY ItemsHavePrices DEF Item
<1>2. buys[b].pc # "new" => PriceOf(b) \in Nat
  BY <1>1 DEF BuysOK, BuyOK
<1>3. chain \in Int /\ read \in Int /\ mode \in {"sim", "chain", "deferred"}
  BY KidMoneyAssumption DEF TypeOK
<1> USE DEF MoneyStep
<1>a. CASE Tap(b)
  BY <1>3, <1>a DEF Tap
<1>b. CASE Enter(b)
  BY <1>3, <1>b DEF Enter
<1>c. CASE ReadBalance(b)
  BY <1>3, <1>c DEF ReadBalance
<1>d. CASE Afford(b)
  <2>1. CASE UNCHANGED <<chain, stakes>>
    BY <1>3, <2>1
  <2>2. CASE ~ UNCHANGED <<chain, stakes>>
    <3>1. Available(read, None) >= PriceOf(b) /\ mode = "sim" /\ Leaves(b, PriceOf(b))
      BY <1>d, <2>2 DEF Afford
    <3>2. PriceOf(b) \in Nat /\ read <= chain
      BY <1>2, <1>d, <3>1 DEF Afford, BuyIs, ReadHolds
    <3>3. read >= PriceOf(b)
      BY <1>3, <3>1, <3>2, SpendableIsThere
    <3> QED BY <1>3, <3>1, <3>2, <3>3
  <2> QED BY <2>1, <2>2
<1>e. CASE RecordDeferredSpend(b)
  BY <1>3, <1>e DEF RecordDeferredSpend
<1>f. CASE SendPayment(b)
  BY <1>3, <1>f DEF SendPayment
<1>g. CASE HandOver(b)
  BY <1>3, <1>g DEF HandOver
<1>h. CASE RefusedAtCap(b)
  BY <1>3, <1>h DEF RefusedAtCap
<1>i. CASE BalanceReadFails(b)
  BY <1>3, <1>i DEF BalanceReadFails
<1>j. CASE ApproveCoupon(b)
  BY <1>3, <1>j DEF ApproveCoupon
<1>k. CASE RejectCoupon(b)
  BY <1>3, <1>k DEF RejectCoupon
<1>l. CASE GiveBack(b)
  <2>1. PriceOf(b) \in Nat /\ stakes' = stakes
    BY <1>2, <1>l DEF GiveBack, BuyIs
  <2>2. chain' = chain + PriceOf(b) \/ \E moved \in {0, 1} : chain' = chain + moved * PriceOf(b)
    BY <1>l DEF GiveBack
  <2> QED BY <1>3, <2>1, <2>2
<1> QED BY <1>a, <1>b, <1>c, <1>d, <1>e, <1>f, <1>g, <1>h, <1>i, <1>j, <1>k, <1>l DEF BuyStep

\* Reads, faults, bought minutes, and what no buy touches.
LEMMA BuyRest ==
  ASSUME TypeOK, BuysOK, NEW b \in Buys, BuyStep(b)
  PROVE  /\ UNCHANGED <<mode, metered, asks, reads, settled, paydays>>
         /\ read' \in {read, chain, 0} /\ (faults' = faults \/ Lost)
         /\ earned' \in 0 .. MaxEarned
<1>1. UNCHANGED <<mode, metered, asks, reads, settled, paydays>>
  BY DEF BuyStep, Tap, Enter, ReadBalance, Afford, RecordDeferredSpend, SendPayment, HandOver,
         RefusedAtCap, BalanceReadFails, ApproveCoupon, RejectCoupon, GiveBack
<1>2. read' \in {read, chain, 0}
  BY DEF BuyStep, Tap, Enter, ReadBalance, Afford, RecordDeferredSpend, SendPayment, HandOver,
         RefusedAtCap, BalanceReadFails, ApproveCoupon, RejectCoupon, GiveBack,
         GoOn, TurnedAway, LockKept, Queue, Release
<1>3. faults' = faults \/ Lost
  BY DEF BuyStep, Tap, Enter, ReadBalance, Afford, RecordDeferredSpend, SendPayment, HandOver,
         RefusedAtCap, BalanceReadFails, ApproveCoupon, RejectCoupon, GiveBack
<1>4. earned' = earned \/ HandOver(b)
  BY DEF BuyStep, Tap, Enter, ReadBalance, Afford, RecordDeferredSpend, SendPayment,
         RefusedAtCap, BalanceReadFails, ApproveCoupon, RejectCoupon, GiveBack
<1>5. HandOver(b) => earned' \in 0 .. MaxEarned
  <2>1. HandOver(b) => Item(b).minutes \in Nat
    <3>1. HandOver(b) => Item(b) # None
      BY DEF HandOver, BuyIs, BuysOK, BuyOK, Item
    <3> QED BY <3>1, ItemsHavePrices
  <2>2. earned \in 0 .. MaxEarned /\ MaxEarned \in Nat /\ metered \in BOOLEAN
    BY KidMoneyAssumption DEF TypeOK
  <2>3. ASSUME HandOver(b)
        PROVE  earned' = earned \/ (earned' = earned + Item(b).minutes /\ ~ (earned + Item(b).minutes > MaxEarned))
    BY <2>3 DEF HandOver, AtCap
  <2> QED BY <2>1, <2>2, <2>3
<1> QED BY <1>1, <1>2, <1>3, <1>4, <1>5 DEF TypeOK

\* What a read has made of a row stays true while less is left beside the stake.
LEMMA VerdictsKept ==
  ASSUME TypeOK, VerdictsHold, reads' = reads,
         \A s \in Asks : reads[s] # {} =>
           /\ stakes'[s].others >= stakes[s].others /\ stakes'[s].others \in Nat
           /\ stakes[s].row # "none" => stakes'[s].row # "none"
           /\ stakes[s].tx = "executed" => stakes'[s].tx = "executed"
  PROVE  VerdictsHold'
<1> SUFFICES ASSUME NEW s \in Asks
             PROVE  /\ reads[s] # {} => stakes'[s].row # "none"
                    /\ "done" \in reads[s] /\ stakes'[s].tx # "executed" => stakes'[s].others >= AskValue[s]
  BY DEF VerdictsHold
<1>1. stakes[s].others \in Nat /\ AskValue[s] \in Nat
  BY KidMoneyAssumption DEF TypeOK
<1> QED BY <1>1 DEF VerdictsHold

\* What leaves is counted beside every stake, proven or not.
LEMMA LeavingIsCounted ==
  ASSUME TypeOK, StakesAccounted, VerdictsHold, PhantomStakeHasACause, NEW p, NEW value \in Nat,
         MoneyStep(p, value), p \in Asks => stakes[p].row = "none", reads' = reads
  PROVE  StakesAccounted' /\ VerdictsHold' /\ PhantomStakeHasACause'
<1>1. stakes \in [Asks -> StakeRow] /\ chain \in Int /\ AskValue \in [Asks -> Nat]
  BY TypeIsRows, KidMoneyAssumption DEF Rows
<1>2. CASE chain' \in Int /\ chain' >= chain /\ stakes' = stakes
  BY <1>1, <1>2 DEF StakesAccounted, VerdictsHold, PhantomStakeHasACause, StakeRow
<1>3. CASE Leaves(p, value)
  <2>1. chain' = chain - value /\ SameStakes(stakes')
    BY <1>3, BesideRows DEF Leaves
  <2>2. \A s \in Asks : stakes'[s].others = IF s # p /\ stakes[s].row # "none"
                                             THEN stakes[s].others + value ELSE stakes[s].others
    BY <1>3, BesideRows DEF Leaves
  <2>3. ASSUME NEW s \in Asks, stakes'[s].row # "none", stakes'[s].tx # "executed"
        PROVE  chain' >= stakes'[s].before - stakes'[s].others
    <3>1. stakes[s].row # "none" /\ stakes[s].tx # "executed" /\ s # p
      BY <2>1, <2>3 DEF SameStakes
    <3>2. chain >= stakes[s].before - stakes[s].others
      BY <3>1 DEF StakesAccounted
    <3>3. stakes'[s].others = stakes[s].others + value /\ stakes'[s].before = stakes[s].before
      BY <2>1, <2>2, <3>1 DEF SameStakes
    <3>4. stakes[s].others \in Nat /\ stakes[s].before \in Int
      BY <1>1 DEF StakeRow
    <3> QED BY <1>1, <2>1, <3>2, <3>3, <3>4
  <2>4. ASSUME NEW s \in Asks
        PROVE  stakes'[s].others >= stakes[s].others /\ stakes'[s].others \in Nat
    BY <1>1, <2>2 DEF StakeRow
  <2>5. ASSUME NEW s \in Asks, stakes'[s].row = "done", stakes'[s].tx # "executed"
        PROVE  stakes'[s].others >= AskValue[s]
    <3>1. stakes[s].row = "done" /\ stakes[s].tx # "executed"
      BY <2>1, <2>5 DEF SameStakes
    <3> QED BY <1>1, <2>4, <3>1 DEF PhantomStakeHasACause, StakeRow
  <2>6. VerdictsHold'
    BY <2>1, <2>4, VerdictsKept DEF SameStakes
  <2> QED BY <2>3, <2>5, <2>6 DEF StakesAccounted, PhantomStakeHasACause
<1> QED BY <1>2, <1>3 DEF MoneyStep

\* A step of a buy keeps the types.
LEMMA BuyTypes ==
  ASSUME TypeOK, BuysOK, OneAtATime, DebtFacts, ReadHolds, NEW b \in Buys, BuyStep(b)
  PROVE  TypeOK'
<1>1. buys' \in [Buys -> BuyRow] /\ SameStakes(stakes') /\ LockStep(b, Spending(b)')
  BY BuyRows, BuyStakes, BuyLock
<1>2. chain' \in Int
  <2>1. chain \in Int /\ (buys[b].pc # "new" => PriceOf(b) \in Nat)
    BY ItemsHavePrices DEF TypeOK, BuysOK, BuyOK, Item
  <2>2. chain' \in Int \/ Leaves(b, PriceOf(b))
    BY BuyMoney DEF MoneyStep
  <2>3. Leaves(b, PriceOf(b)) /\ buys[b].pc = "new" => UNCHANGED chain
    BY DEF BuyStep, Tap, Enter, ReadBalance, Afford, RecordDeferredSpend, SendPayment, HandOver,
           RefusedAtCap, BalanceReadFails, ApproveCoupon, RejectCoupon, GiveBack, BuyIs
  <2> QED BY <2>1, <2>2, <2>3 DEF Leaves
<1>3. lockQ' \in Seq(Buys \cup Asks)
  <2>1. lockQ \in Seq(Buys \cup Asks)
    BY DEF TypeOK
  <2>2. Holds(b) => lockQ # <<>>
    BY DEF Holds
  <2> QED BY <1>1, <2>1, <2>2 DEF LockStep
<1>4. /\ UNCHANGED <<mode, metered, asks, reads, settled, paydays>> /\ read' \in {read, chain, 0}
      /\ (faults' = faults \/ Lost) /\ earned' \in 0 .. MaxEarned
  BY BuyRest
<1>5. /\ mode \in Modes /\ metered \in BOOLEAN /\ chain \in Int /\ read \in Int /\ settled \in Nat
      /\ asks \in [Asks -> [pc : {"idle", "checked", "queued", "counting", "paying"},
                status : {"none", "pending", "executed", "rejected"}, approval : CardStates]]
      /\ reads \in [Asks -> SUBSET {"asked", "done", "failed"}]
      /\ paydays \in 0 .. MaxPaydays /\ faults \in 0 .. MaxFaults
  BY DEF TypeOK
<1>6. read' \in Int /\ faults' \in 0 .. MaxFaults
  BY <1>4, <1>5, KidMoneyAssumption DEF Lost
<1> QED BY <1>1, <1>2, <1>3, <1>4, <1>5, <1>6 DEF TypeOK, BuyRow, SameStakes, StakeRow

\* A step of a buy keeps to the one form of money its instance has.
LEMMA BuyModes ==
  ASSUME TypeOK, BuysOK, ModeOK, DebtFacts, NEW b \in Buys, BuyStep(b)
  PROVE  ModeOK'
<1>1. SameStakes(stakes') /\ DebtStep(b) /\ UNCHANGED <<mode, asks, settled>>
  BY BuyStakes, BuyDebts, BuyRest DEF DebtFacts
<1>2. \A c \in Buys \ {b} : buys'[c] = buys[c]
  BY BuyRows
<1>3. mode # "deferred" => \A c \in Buys : buys'[c].debit = "none"
  BY <1>1, <1>2 DEF ModeOK, DebtStep
<1> QED BY <1>1, <1>3 DEF ModeOK, SameStakes

\* The balance a buy read is still there when it is used.
LEMMA BuyKeepsRead ==
  ASSUME TypeOK, BuysOK, OneAtATime, DebtFacts, ReadHolds, AsksOK, NEW b \in Buys, BuyStep(b)
  PROVE  ReadHolds'
<1>1. /\ chain \in Int /\ chain' \in Int /\ read \in Int /\ mode' = mode /\ asks' = asks
      /\ Buys \cap Asks = {} /\ \A c \in Buys \ {b} : buys'[c] = buys[c]
  BY BuyTypes, BuyRest, BuyRows, KidMoneyAssumption DEF TypeOK
<1>2. CASE chain' >= chain /\ read' = read /\ ~ (buys'[b].pc \in {"counting", "paying"} /\ buys[b].pc # buys'[b].pc)
  BY <1>1, <1>2 DEF ReadHolds
<1>3. CASE read' <= chain' /\ read' \in Int
  BY <1>1, <1>3 DEF ReadHolds
<1>4. ASSUME Holds(b) PROVE (\A r \in Asks : ~ Sending(r)) /\ (\A c \in Buys \ {b} : ~ Spending(c))
  BY <1>1, <1>4 DEF OneAtATime, Holds
<1>5. CASE Holds(b) /\ ~ (buys'[b].pc \in {"counting", "paying"})
  BY <1>1, <1>4, <1>5 DEF ReadHolds, Spending, Sending
<1>6. buys \in [Buys -> BuyRow]
  BY TypeIsRows DEF Rows
<1> USE DEF BuyRow
<1>a. CASE Tap(b)
  BY <1>1, <1>2, <1>6, <1>a DEF Tap, Queue
<1>b. CASE Enter(b)
  BY <1>1, <1>5, <1>6, <1>b DEF Enter, TurnedAway, GoOn
<1>c. CASE ReadBalance(b)
  BY <1>1, <1>3, <1>c DEF ReadBalance
<1>d. CASE Afford(b)
  <2>2. buys'[b].pc \in {"over", "paid"} \/ (read' = chain /\ chain' = chain)
    BY <1>6, <1>d DEF Afford, TurnedAway
  <2> QED BY <1>1, <1>3, <1>5, <1>d, <2>2 DEF Afford
<1>e. CASE RecordDeferredSpend(b)
  BY <1>5, <1>6, <1>e DEF RecordDeferredSpend, TurnedAway
<1>f. CASE SendPayment(b)
  BY <1>5, <1>6, <1>f DEF SendPayment, TurnedAway
<1>g. CASE HandOver(b)
  BY <1>5, <1>6, <1>g DEF HandOver
<1>h. CASE RefusedAtCap(b)
  BY <1>5, <1>6, <1>h DEF RefusedAtCap, TurnedAway
<1>i. CASE BalanceReadFails(b)
  BY <1>5, <1>6, <1>i DEF BalanceReadFails, TurnedAway
<1>j. CASE ApproveCoupon(b)
  BY <1>1, <1>2, <1>6, <1>j DEF ApproveCoupon
<1>k. CASE RejectCoupon(b)
  BY <1>1, <1>2, <1>6, <1>k DEF RejectCoupon
<1>l. CASE GiveBack(b)
  <2>1. PriceOf(b) \in Nat /\ read' = read /\ buys'[b].pc = "over"
    BY <1>6, <1>l, ItemsHavePrices DEF GiveBack, BuyIs, BuysOK, BuyOK, Item
  <2>2. chain' >= chain
    BY <1>1, <1>l, <2>1 DEF GiveBack
  <2> QED BY <1>2, <2>1, <2>2
<1> QED BY <1>a, <1>b, <1>c, <1>d, <1>e, <1>f, <1>g, <1>h, <1>i, <1>j, <1>k, <1>l DEF BuyStep

\* Debts only grow by what is there to cover them.
LEMMA BuyStaysCovered ==
  ASSUME TypeOK, BuysOK, ModeOK, DebtFacts, ReadHolds, NeverOverspent, SettledIsOwed,
         NEW b \in Buys, BuyStep(b), DebtFacts', BuysOK', TypeOK'
  PROVE  NeverOverspent' /\ SettledIsOwed'
<1>1. /\ buys \in [Buys -> BuyRow] /\ buys' \in [Buys -> BuyRow]
      /\ \A c \in Buys \ {b} : buys'[c] = buys[c]
      /\ settled' = settled /\ settled \in Nat /\ mode' = mode
      /\ chain \in Int /\ chain' \in Int /\ read \in Int
  BY TypeIsRows, BuyRows, BuyRest DEF Rows, TypeOK
<1>2. /\ OutstandingDebt = Debts(OwedKinds) - settled /\ OutstandingDebt' = Debts(OwedKinds)' - settled
      /\ CommittedDebt = Debts({"purchase"}) - settled /\ CommittedDebt' = Debts({"purchase"})' - settled
      /\ Debts(OwedKinds) \in Nat /\ Debts(OwedKinds)' \in Nat
      /\ Debts({"purchase"}) \in Nat /\ Debts({"purchase"})' \in Nat
  BY <1>1 DEF DebtFacts
<1>3. buys[b].debit # "none" \/ buys[b].pc # "new" => PriceOf(b) \in Nat
  BY ItemsHavePrices DEF BuysOK, BuyOK, Item
<1>4. DebtStep(b)
  BY BuyDebts DEF DebtFacts
<1>5. buys'[b].debit # "none" => PriceOf(b)' = PriceOf(b) /\ PriceOf(b) \in Nat
  <2>1. buys'[b].debit # "none" => buys'[b].item = buys[b].item /\ PriceOf(b) \in Nat
    BY <1>3, <1>4 DEF DebtStep, BuyIs
  <2> QED BY <2>1 DEF PriceOf
<1>6. /\ Debts(OwedKinds)' - (IF buys'[b].debit \in OwedKinds THEN PriceOf(b)' ELSE 0)
           = Debts(OwedKinds) - (IF buys[b].debit \in OwedKinds THEN PriceOf(b) ELSE 0)
      /\ Debts({"purchase"})' - (IF buys'[b].debit \in {"purchase"} THEN PriceOf(b)' ELSE 0)
           = Debts({"purchase"}) - (IF buys[b].debit \in {"purchase"} THEN PriceOf(b) ELSE 0)
  BY <1>1, <1>5, DebtsChange DEF OwedKinds
<1>7. SettledIsOwed'
  <2>1. Debts({"purchase"})' >= Debts({"purchase"})
    BY <1>2, <1>3, <1>4, <1>5, <1>6 DEF DebtStep
  <2> QED BY <1>1, <1>2, <2>1 DEF SettledIsOwed
<1>8. NeverOverspent'
  <2>1. CASE mode = "deferred"
    <3>1. chain' >= chain
      BY <2>1, BuyMoney DEF MoneyStep
    <3>2. \/ Debts(OwedKinds)' <= Debts(OwedKinds)
          \/ /\ Debts(OwedKinds)' = Debts(OwedKinds) + PriceOf(b) /\ PriceOf(b) \in Nat
             /\ BuyIs(b, "paying") /\ OutstandingDebt + PriceOf(b) <= read
      BY <1>2, <1>3, <1>4, <1>5, <1>6 DEF DebtStep, OwedKinds
    <3>3. BuyIs(b, "paying") => read <= chain
      BY <2>1 DEF ReadHolds, BuyIs
    <3> QED BY <1>1, <1>2, <3>1, <3>2, <3>3 DEF NeverOverspent
  <2>2. CASE mode # "deferred"
    <3>1. OutstandingDebt = 0 /\ OutstandingDebt' = 0 /\ chain >= 0
      BY <1>1, <2>2 DEF DebtFacts, NeverOverspent
    <3>2. chain' >= 0
      <4>1. CASE Leaves(b, PriceOf(b)) /\ chain >= PriceOf(b)
        <5>1. PriceOf(b) \in Int \/ chain' = chain
          BY <1>3, <4>1 DEF BuyStep, Tap, Enter, ReadBalance, Afford, RecordDeferredSpend, SendPayment, HandOver,
              RefusedAtCap, BalanceReadFails, ApproveCoupon, RejectCoupon, GiveBack, BuyIs
        <5> QED BY <1>1, <3>1, <4>1, <5>1 DEF Leaves
      <4>2. CASE chain' >= chain
        BY <1>1, <3>1, <4>2
      <4> QED BY <4>1, <4>2, BuyMoney DEF MoneyStep
    <3> QED BY <3>1, <3>2 DEF NeverOverspent
  <2> QED BY <2>1, <2>2
<1> QED BY <1>7, <1>8

\* Money leaves with a request only where it is, and only as much as is there.
LEMMA AskChain ==
  ASSUME TypeOK, AsksOK, ModeOK, DebtFacts, ReadHolds, NEW r \in Asks, AskStep(r)
  PROVE  /\ chain' \in Int
         /\ \/ chain' = chain
            \/ chain' = chain - AskValue[r] /\ chain >= AskValue[r] /\ mode # "deferred"
<1>1. chain \in Int /\ AskValue[r] \in Nat
  BY KidMoneyAssumption DEF TypeOK
<1>2. CASE StakeLands(r)
  <2>1. mode = "chain"
    BY <1>2 DEF StakeLands, ModeOK
  <2> QED BY <1>1, <1>2, <2>1 DEF StakeLands
<1>3. CASE StakeDies(r) \/ WalletRead(r)
  BY <1>1, <1>3 DEF StakeDies, WalletRead, ListStake, LookAtStake, SettleStake, StakeReads
<1>4. CASE SendAsk(r)
  <2>1. mode # "deferred"
    BY <1>4 DEF SendAsk, AskIs, ModeOK
  <2>2. chain' = chain \/ (chain >= AskValue[r] /\ Leaves(r, AskValue[r]))
    BY <1>4 DEF SendAsk
  <2> QED BY <1>1, <2>1, <2>2 DEF Leaves
<1>5. CASE AffordAsk(r) /\ chain' # chain
  <2>1. Available(read, r) >= AskValue[r] /\ mode = "sim" /\ Leaves(r, AskValue[r])
    BY <1>5 DEF AffordAsk
  <2>2. read <= chain /\ read \in Int
    BY <2>1, <1>5 DEF ReadHolds, AffordAsk, AskIs, TypeOK
  <2>3. read >= AskValue[r]
    BY <1>1, <2>1, <2>2, SpendableIsThere
  <2> QED BY <1>1, <2>1, <2>2, <2>3 DEF Leaves
<1> QED BY <1>1, <1>2, <1>3, <1>4, <1>5
        DEF AskStep, Ask, CheckFunds, Decide, RejectAsk, StartExecuting

\* Only a read of the wallet writes what reads found.
LEMMA AskReads ==
  ASSUME TypeOK, NEW r \in Asks, AskStep(r)
  PROVE  /\ reads' \in [Asks -> SUBSET {"asked", "done", "failed"}]
         /\ ~ WalletRead(r) => reads' = reads
<1>1. reads \in [Asks -> SUBSET {"asked", "done", "failed"}]
  BY DEF TypeOK
<1>2. CASE ListStake(r)
  BY <1>1, <1>2 DEF ListStake, WalletRead
<1>3. CASE LookAtStake(r)
  <2>1. PICK verdict \in {"done", "failed"} : reads' = [reads EXCEPT ![r] = @ \cup {verdict}]
    BY <1>3 DEF LookAtStake
  <2> QED BY <1>1, <1>3, <2>1 DEF WalletRead
<1>4. CASE reads' = reads
  BY <1>1, <1>4
<1> QED BY <1>2, <1>3, <1>4
        DEF AskStep, Ask, CheckFunds, Decide, RejectAsk, StartExecuting, AffordAsk, SendAsk,
            StakeLands, StakeDies, WalletRead, SettleStake

\* A step of a request keeps the types.
LEMMA AskTypes ==
  ASSUME TypeOK, AsksOK, ModeOK, OneAtATime, DebtFacts, ReadHolds, NEW r \in Asks, AskStep(r)
  PROVE  TypeOK'
<1>1. /\ asks' \in [Asks -> AskRow] /\ stakes' \in [Asks -> StakeRow] /\ chain' \in Int
      /\ LockStep(r, Sending(r)')
  BY AskRows, AskStakes, AskLock, AskChain DEF DebtFacts
<1>2. lockQ' \in Seq(Buys \cup Asks)
  <2>1. lockQ \in Seq(Buys \cup Asks)
    BY DEF TypeOK
  <2>2. Holds(r) => lockQ # <<>>
    BY DEF Holds
  <2> QED BY <1>1, <2>1, <2>2 DEF LockStep
<1>3. UNCHANGED <<mode, metered, buys, earned, settled, paydays>>
  BY AskFrame DEF Kept
<1>4. read' \in {read, chain, 0} /\ (faults' = faults \/ Lost)
  BY DEF AskStep, Ask, CheckFunds, Decide, RejectAsk, StartExecuting, AffordAsk, SendAsk,
         StakeLands, StakeDies, WalletRead, ListStake, LookAtStake, SettleStake, StakeReads, Reopened, Executed, LockKept, Queue, Release
<1>5. read' \in Int /\ faults' \in 0 .. MaxFaults
  <2>1. read \in Int /\ chain \in Int /\ faults \in 0 .. MaxFaults
    BY DEF TypeOK
  <2> QED BY <1>4, <2>1, KidMoneyAssumption DEF Lost
<1>6. reads' \in [Asks -> SUBSET {"asked", "done", "failed"}]
  BY AskReads
<1> QED BY <1>1, <1>2, <1>3, <1>5, <1>6 DEF TypeOK, AskRow, StakeRow

\* A step of a request keeps to the one form of money its instance has.
LEMMA AskModes ==
  ASSUME TypeOK, AsksOK, ModeOK, VerdictsHold, DebtFacts, NEW r \in Asks, AskStep(r)
  PROVE  ModeOK'
<1>1. /\ asks \in [Asks -> AskRow] /\ asks' \in [Asks -> AskRow]
      /\ \A s \in Asks \ {r} : /\ asks'[s] = asks[s]
                               /\ stakes'[s].row = stakes[s].row /\ stakes'[s].tx = stakes[s].tx
      /\ UNCHANGED <<mode, buys, settled>>
  BY AskRows, AskStakes, AskFrame, TypeIsRows DEF Kept, DebtFacts, Rows
<1>2. ASSUME mode # "chain"
      PROVE  stakes'[r].row = "none" /\ stakes'[r].tx = "none" /\ asks'[r].pc # "paying"
  <2>1. stakes[r].row = "none" /\ stakes[r].tx = "none" /\ asks[r].pc # "paying"
    BY <1>2 DEF ModeOK
  <2>2. ~ SendAsk(r) /\ ~ StakeLands(r) /\ ~ StakeDies(r) /\ ~ SettleStake(r)
    BY <2>1 DEF VerdictsHold, SendAsk, StakeLands, StakeDies, WalletRead, ListStake, LookAtStake, SettleStake, StakeReads, AskIs
  <2>3. stakes' \in {stakes, Beside(r, AskValue[r])}
    BY <2>2 DEF AskStep, Ask, CheckFunds, Decide, RejectAsk, StartExecuting, AffordAsk, Leaves,
       WalletRead, ListStake, LookAtStake
  <2>4. stakes'[r].row = "none" /\ stakes'[r].tx = "none"
    BY <2>1, <2>3, BesideRows, KidMoneyAssumption DEF SameStakes
  <2>5. asks'[r].pc # "paying"
    BY <1>1, <1>2, <2>1, <2>2 DEF AskStep, Ask, CheckFunds, Decide, RejectAsk, StartExecuting, AffordAsk,
       Reopened, Executed, WalletRead, ListStake, LookAtStake, StakeReads, AskRow
  <2> QED BY <2>4, <2>5
<1>3. ASSUME mode = "deferred" PROVE asks'[r].status = "none"
  <2>1. asks[r].status = "none" /\ asks[r].approval # "pending" /\ asks[r].pc = "idle"
    BY <1>3 DEF ModeOK, AsksOK, AskOK
  <2>2. asks' = asks
    BY <1>3, <2>1 DEF AskStep, Ask, CheckFunds, Decide, RejectAsk, StartExecuting, AffordAsk, SendAsk,
         StakeLands, StakeDies, WalletRead, ListStake, LookAtStake, SettleStake, StakeReads, AskIs
  <2> QED BY <2>1, <2>2
<1> QED BY <1>1, <1>2, <1>3 DEF ModeOK

\* The balance a request read is still there when it is used.
LEMMA AskKeepsRead ==
  ASSUME TypeOK, AsksOK, ModeOK, OneAtATime, DebtFacts, ReadHolds, NEW r \in Asks, AskStep(r)
  PROVE  ReadHolds'
<1>1. /\ asks \in [Asks -> AskRow] /\ asks' \in [Asks -> AskRow] /\ \A s \in Asks \ {r} : asks'[s] = asks[s]
      /\ chain \in Int /\ chain' \in Int /\ read \in Int /\ mode' = mode /\ buys' = buys
      /\ Buys \cap Asks = {}
  BY AskRows, AskTypes, AskFrame, TypeIsRows, KidMoneyAssumption DEF Rows, TypeOK, Kept
<1> SUFFICES ASSUME mode # "chain" PROVE ReadHolds'
  BY <1>1 DEF ReadHolds
<1>2. ~ SendAsk(r) /\ ~ StakeLands(r)
  BY DEF ModeOK, SendAsk, StakeLands, AskIs
<1>3. CASE chain' = chain /\ read' = read /\ (asks'[r].pc = "counting" => asks[r].pc = "counting")
  BY <1>1, <1>3 DEF ReadHolds
<1>4. CASE StartExecuting(r)
  BY <1>1, <1>4 DEF ReadHolds, StartExecuting
<1>5. CASE Holds(r) /\ asks'[r].pc # "counting"
  <2>1. (\A b \in Buys : ~ Spending(b)) /\ (\A s \in Asks \ {r} : ~ Sending(s))
    BY <1>1, <1>5 DEF OneAtATime, Holds
  <2> QED BY <1>1, <1>5, <2>1 DEF ReadHolds, Spending, Sending
<1> USE DEF AskRow, LockKept
<1>a. CASE Ask(r)
  BY <1>1, <1>3, <1>a DEF Ask
<1>b. CASE CheckFunds(r)
  BY <1>1, <1>3, <1>b DEF CheckFunds
<1>c. CASE Decide(r)
  BY <1>1, <1>3, <1>c DEF Decide, Queue
<1>d. CASE RejectAsk(r)
  BY <1>1, <1>3, <1>d DEF RejectAsk
<1>f. CASE AffordAsk(r)
  BY <1>1, <1>5, <1>f DEF AffordAsk, Reopened, Executed
<1>i. CASE StakeDies(r)
  BY <1>1, <1>3, <1>i DEF StakeDies
<1>j. CASE WalletRead(r)
  BY <1>1, <1>3, <1>j DEF WalletRead, ListStake, LookAtStake, SettleStake, StakeReads
<1> QED BY <1>2, <1>4, <1>a, <1>b, <1>c, <1>d, <1>f, <1>i, <1>j DEF AskStep

\* A request sends no money that is owed.
LEMMA AskStaysCovered ==
  ASSUME TypeOK, AsksOK, ModeOK, DebtFacts, ReadHolds, NeverOverspent, SettledIsOwed,
         NEW r \in Asks, AskStep(r)
  PROVE  NeverOverspent' /\ SettledIsOwed'
<1>1. UNCHANGED <<buys, settled>>
  BY AskFrame DEF Kept
<1>2. OutstandingDebt' = OutstandingDebt /\ CommittedDebt' = CommittedDebt
  BY <1>1 DEF OutstandingDebt, CommittedDebt, Owing, PriceOf
<1>3. chain \in Int /\ AskValue[r] \in Nat /\ OutstandingDebt \in Int
      /\ (mode # "deferred" => OutstandingDebt = 0)
  BY KidMoneyAssumption DEF TypeOK, DebtFacts
<1> QED BY <1>2, <1>3, AskChain DEF NeverOverspent, SettledIsOwed

\* What a stake's proof is worth: the baseline less what else left is still there until it
\* leaves itself.
LEMMA AskKeepsStakes ==
  ASSUME TypeOK, AsksOK, ModeOK, DebtFacts, ReadHolds, StakesAccounted, VerdictsHold,
         PhantomStakeHasACause, NEW r \in Asks, AskStep(r)
  PROVE  StakesAccounted' /\ VerdictsHold' /\ PhantomStakeHasACause'
<1>1. /\ stakes \in [Asks -> StakeRow] /\ AskValue[r] \in Nat \ {0} /\ chain \in Int /\ read \in Int
      /\ OutstandingDebt \in Int /\ AskValue \in [Asks -> Nat]
      /\ reads \in [Asks -> SUBSET {"asked", "done", "failed"}]
  BY TypeIsRows, KidMoneyAssumption DEF Rows, DebtFacts, TypeOK
<1>2. CASE StakeLands(r)
  <2>1. SameStakes(Beside(r, AskValue[r]))
    BY <1>1, BesideRows
  <2>2. \A s \in Asks : Beside(r, AskValue[r])[s].others = IF s # r /\ stakes[s].row # "none"
                          THEN stakes[s].others + AskValue[r] ELSE stakes[s].others
    BY <1>1, BesideRows
  <2>3. /\ stakes' = [Beside(r, AskValue[r]) EXCEPT ![r].tx = "executed"] /\ chain' = chain - AskValue[r]
    BY <1>2 DEF StakeLands
  <2>4. /\ stakes'[r].tx = "executed"
        /\ \A s \in Asks \ {r} : stakes'[s] = Beside(r, AskValue[r])[s]
    BY <2>1, <2>3 DEF SameStakes, StakeRow
  <2>5. ASSUME NEW s \in Asks, stakes'[s].row # "none", stakes'[s].tx # "executed"
        PROVE  chain' >= stakes'[s].before - stakes'[s].others
    <3>1. s # r /\ stakes[s].row # "none" /\ stakes[s].tx # "executed"
      BY <2>1, <2>4, <2>5 DEF SameStakes
    <3>2. chain >= stakes[s].before - stakes[s].others
      BY <3>1 DEF StakesAccounted
    <3>3. stakes'[s].others = stakes[s].others + AskValue[r] /\ stakes'[s].before = stakes[s].before
      BY <2>1, <2>2, <2>4, <3>1 DEF SameStakes
    <3>4. stakes[s].others \in Nat /\ stakes[s].before \in Int
      BY <1>1 DEF StakeRow
    <3> QED BY <1>1, <2>3, <3>2, <3>3, <3>4
  <2>7. ASSUME NEW s \in Asks
        PROVE  stakes'[s].others >= stakes[s].others /\ stakes'[s].others \in Nat
    <3>1. Beside(r, AskValue[r])[s].others >= stakes[s].others /\ Beside(r, AskValue[r])[s].others \in Nat
      BY <1>1, <2>2 DEF StakeRow
    <3>2. stakes'[s].others = Beside(r, AskValue[r])[s].others
      BY <2>1, <2>3 DEF SameStakes, StakeRow
    <3> QED BY <3>1, <3>2
  <2>6. ASSUME NEW s \in Asks, stakes'[s].row = "done", stakes'[s].tx # "executed"
        PROVE  stakes'[s].others >= AskValue[s]
    <3>1. s # r /\ stakes[s].row = "done" /\ stakes[s].tx # "executed"
      BY <2>1, <2>4, <2>6 DEF SameStakes
    <3>2. stakes'[s].others >= stakes[s].others /\ stakes'[s].others \in Nat
      BY <2>7
    <3> QED BY <1>1, <3>1, <3>2 DEF PhantomStakeHasACause, StakeRow
  <2>8. VerdictsHold'
    <3>1. reads' = reads
      BY <1>2 DEF StakeLands
    <3>2. \A s \in Asks : /\ stakes[s].row # "none" => stakes'[s].row # "none"
                          /\ stakes[s].tx = "executed" => stakes'[s].tx = "executed"
      BY <2>1, <2>4, <2>3 DEF SameStakes, StakeRow
    <3> QED BY <2>7, <3>1, <3>2, VerdictsKept
  <2> QED BY <2>5, <2>6, <2>8 DEF StakesAccounted, PhantomStakeHasACause
<1>3. CASE StakeDies(r)
  <2>1. /\ chain' = chain
        /\ \A s \in Asks : /\ stakes'[s].row = stakes[s].row /\ stakes'[s].before = stakes[s].before
                           /\ stakes'[s].others = stakes[s].others
                           /\ stakes'[s].tx = "executed" <=> stakes[s].tx = "executed"
    BY <1>1, <1>3 DEF StakeDies, StakeRow
  <2>2. reads' = reads
    BY <1>3 DEF StakeDies
  <2> QED BY <2>1, <2>2 DEF StakesAccounted, VerdictsHold, PhantomStakeHasACause
<1>4. CASE SettleStake(r)
  <2>1. PICK verdict \in reads[r] \ {"asked"} : stakes' = [stakes EXCEPT ![r].row = verdict]
    BY <1>4 DEF SettleStake
  <2>2. chain' = chain /\ reads' = reads /\ verdict \in {"done", "failed"}
    BY <1>1, <1>4, <2>1 DEF SettleStake, StakeReads
  <2>3. /\ \A s \in Asks \ {r} : stakes'[s] = stakes[s]
        /\ stakes'[r].row = verdict /\ stakes'[r].tx = stakes[r].tx
        /\ stakes'[r].before = stakes[r].before /\ stakes'[r].others = stakes[r].others
    BY <1>1, <2>1, <2>2 DEF StakeRow
  <2>4. stakes[r].row # "none"
    BY <2>1 DEF VerdictsHold
  <2>5. StakesAccounted' /\ VerdictsHold'
    BY <2>2, <2>3, <2>4 DEF StakesAccounted, VerdictsHold
  <2>6. verdict = "done" /\ stakes[r].tx # "executed" => stakes[r].others >= AskValue[r]
    BY <2>1 DEF VerdictsHold
  <2> QED BY <2>3, <2>5, <2>6 DEF PhantomStakeHasACause
<1>8. CASE ListStake(r)
  <2>1. /\ UNCHANGED <<chain, stakes>> /\ stakes[r].row = "pending"
        /\ \A s \in Asks : reads'[s] = IF s = r THEN reads[s] \cup {"asked"} ELSE reads[s]
    BY <1>1, <1>8 DEF ListStake, StakeReads
  <2>2. \A s \in Asks : /\ reads'[s] # {} => reads[s] # {} \/ s = r
                        /\ "done" \in reads'[s] => "done" \in reads[s]
    <3>1. ASSUME NEW s \in Asks, s # r PROVE reads'[s] = reads[s]
      BY <2>1, <3>1
    <3>2. reads'[r] = reads[r] \cup {"asked"}
      BY <2>1
    <3> QED BY <3>1, <3>2
  <2>3. VerdictsHold'
    BY <2>1, <2>2 DEF VerdictsHold
  <2> QED BY <2>1, <2>3 DEF StakesAccounted, PhantomStakeHasACause
<1>9. CASE LookAtStake(r)
  <2>1. /\ UNCHANGED <<chain, stakes>> /\ "asked" \in reads[r]
        /\ \A s \in Asks \ {r} : reads'[s] = reads[s]
        /\ reads'[r] = reads[r] \cup {IF ProvenByDrop(r) THEN "done" ELSE "failed"}
    BY <1>1, <1>9 DEF LookAtStake, StakeReads
  <2>2. stakes[r].row # "none"
    BY <2>1 DEF VerdictsHold
  <2>3. ProvenByDrop(r) /\ stakes[r].tx # "executed" => stakes[r].others >= AskValue[r]
    <3>1. mode = "chain"
      BY <2>2 DEF ModeOK
    <3>2. OutstandingDebt = 0
      BY <3>1 DEF DebtFacts
    <3>3. stakes[r].tx # "executed" => chain >= stakes[r].before - stakes[r].others
      BY <2>2 DEF StakesAccounted
    <3>4. stakes[r].others \in Nat /\ stakes[r].before \in Int
      BY <1>1 DEF StakeRow
    <3> QED BY <1>1, <3>2, <3>3, <3>4 DEF ProvenByDrop
  <2>4. VerdictsHold'
    BY <2>1, <2>2, <2>3 DEF VerdictsHold
  <2> QED BY <2>1, <2>4 DEF StakesAccounted, PhantomStakeHasACause
<1>5. CASE SendAsk(r) /\ stakes' = StakeSent(r) /\ stakes' # stakes /\ ~ Leaves(r, AskValue[r])
  <2>1. mode = "chain" /\ chain' = chain
    BY <1>5 DEF SendAsk, AskIs, ModeOK
  <2>2. OutstandingDebt = 0
    BY <2>1 DEF DebtFacts
  <2>3. /\ stakes'[r].row = "pending" /\ stakes'[r].before = read - OutstandingDebt
        /\ stakes'[r].others = IF read > chain THEN read - chain ELSE 0
        /\ \A s \in Asks \ {r} : stakes'[s] = stakes[s]
    BY <1>1, <1>5 DEF StakeSent
  <2>4. chain' >= stakes'[r].before - stakes'[r].others
    BY <1>1, <2>1, <2>2, <2>3
  <2>5. stakes[r].row = "none" /\ reads[r] = {} /\ reads' = reads
    <3>1. Sending(r)
      BY <1>5 DEF SendAsk, AskIs, Sending
    <3>2. stakes[r].row = "none"
      BY <3>1 DEF AsksOK, AskOK
    <3> QED BY <1>5, <3>2 DEF VerdictsHold, SendAsk
  <2> QED BY <2>1, <2>3, <2>4, <2>5 DEF StakesAccounted, VerdictsHold, PhantomStakeHasACause
<1>6. CASE UNCHANGED <<chain, stakes, reads>>
  BY <1>6 DEF StakesAccounted, VerdictsHold, PhantomStakeHasACause
<1>7. CASE Leaves(r, AskValue[r]) /\ (SendAsk(r) \/ AffordAsk(r))
  <2>1. Sending(r) /\ reads' = reads
    BY <1>7 DEF SendAsk, AffordAsk, AskIs, Sending
  <2>2. stakes[r].row = "none"
    BY <2>1 DEF AsksOK, AskOK
  <2>3. chain >= AskValue[r] /\ mode # "deferred"
    BY <1>1, <1>7, AskChain DEF Leaves
  <2>4. MoneyStep(r, AskValue[r]) /\ AskValue[r] \in Nat
    BY <1>1, <1>7, <2>3 DEF MoneyStep
  <2> QED BY <2>1, <2>2, <2>4, LeavingIsCounted
<1> QED BY <1>2, <1>3, <1>4, <1>5, <1>6, <1>7, <1>8, <1>9
        DEF AskStep, WalletRead, Ask, CheckFunds, Decide, RejectAsk, StartExecuting, AffordAsk, SendAsk

-----------------------------------------------------------------------------
(* The goods.                                                              *)

\* Charged and over, and nothing came of it.
EmptyHanded(b) ==
  /\ buys[b].paid /\ buys[b].pc = "over" /\ buys[b].receipt \notin {"done", "fulfilled"}
  /\ buys[b].back = 0 /\ buys[b].approval # "pending"

\* As nobody has anything twice, what a receipt says is in hand.
Hands == \A b \in Buys : OutOfPocket(b) <=> EmptyHanded(b)

\* What a receipt says of the goods.
LEMMA ReceiptsAreGoods == TypeOK /\ BuysOK /\ OwnedOnce => Hands
<1> SUFFICES ASSUME TypeOK, BuysOK, OwnedOnce, NEW b \in Buys PROVE OutOfPocket(b) <=> EmptyHanded(b)
  BY DEF Hands
<1>1. buys[b].receipt \in {"done", "fulfilled"} => InHand(b)
  <2>1. ASSUME buys[b].receipt \in {"done", "fulfilled"}, Item(b).kind = "unique",
               NEW c \in Buys \ {b}, Item(c) = Item(b), buys[c].receipt = "done"
        PROVE  FALSE
    <3>1. buys[b].receipt = "done"
      BY <2>1 DEF BuysOK, BuyOK
    <3>2. buys[b].item # None
      BY <3>1 DEF BuysOK, BuyOK
    <3> QED BY <2>1, <3>1, <3>2 DEF OwnedOnce, Unique
  <2> QED BY <2>1 DEF InHand
<1> QED BY <1>1 DEF OutOfPocket, EmptyHanded, InHand, BuyIs

\* The same, one step later.
LEMMA ReceiptsAreGoodsNext == (TypeOK /\ BuysOK /\ OwnedOnce)' => Hands'
  BY ReceiptsAreGoods, PTL

\* What a step of a buy does with the goods and with what it paid.
GoodsStep(b) ==
  /\ buys[b].pc # "new" => buys'[b].item = buys[b].item
  /\ buys'[b].receipt = "done" => buys[b].receipt = "done" \/ HandOver(b)
  /\ Spending(b)' => Spending(b) \/ (Enter(b) /\ ~ (Unique(b) /\ Owned(Item(b))))
  /\ EmptyHanded(b)' /\ ~ BoughtAtCap(b)' =>
       \/ Lost
       \/ EmptyHanded(b) /\ ~ BoughtAtCap(b) /\ buys'[b].approval = buys[b].approval

\* A step of a buy hands over what was paid for, or a fault stranded it.
LEMMA BuyGoods ==
  ASSUME TypeOK, BuysOK, NEW b \in Buys, BuyStep(b)
  PROVE  GoodsStep(b)
<1>1. buys \in [Buys -> BuyRow] /\ BuyOK(b) /\ metered' = metered
  BY TypeIsRows, BuyRest DEF Rows, BuysOK
<1> USE DEF GoodsStep, BuyRow, BuyOK, BuyIs
<1>2. TurnedAway(b) /\ ~ buys[b].paid => GoodsStep(b)
  BY <1>1 DEF TurnedAway, Spending, EmptyHanded
<1>a. CASE Tap(b)
  BY <1>1, <1>a DEF Tap, Spending, EmptyHanded
<1>b. CASE Enter(b)
  <2>1. CASE TurnedAway(b)
    BY <1>1, <1>2, <1>b, <2>1 DEF Enter
  <2>2. CASE GoOn(b, "reading") /\ ~ TurnedAway(b)
    BY <1>1, <1>b, <2>2 DEF Enter, GoOn, EmptyHanded, Unique
  <2> QED BY <1>b, <2>1, <2>2 DEF Enter
<1>c. CASE ReadBalance(b)
  BY <1>1, <1>c DEF ReadBalance, Spending, EmptyHanded
<1>d. CASE Afford(b)
  <2>1. TurnedAway(b) \/ buys' = [buys EXCEPT ![b].pc = "paid", ![b].paid = TRUE] \/ buys' = [buys EXCEPT ![b].pc = "paying"]
    BY <1>d DEF Afford
  <2> QED BY <1>1, <1>2, <1>d, <2>1 DEF Afford, Spending, EmptyHanded
<1>e. CASE RecordDeferredSpend(b)
  <2>1. CASE OutstandingDebt + PriceOf(b) > read
    BY <1>1, <1>2, <1>e, <2>1 DEF RecordDeferredSpend
  <2>2. CASE ~ (OutstandingDebt + PriceOf(b) > read)
    BY <1>1, <1>e, <2>2 DEF RecordDeferredSpend, Spending, EmptyHanded
  <2> QED BY <2>1, <2>2
<1>f. CASE SendPayment(b)
  <2>1. CASE TurnedAway(b)
    BY <1>1, <1>2, <1>f, <2>1 DEF SendPayment
  <2>2. CASE buys' = [buys EXCEPT ![b].pc = "paid", ![b].paid = TRUE]
    BY <1>1, <1>f, <2>2 DEF SendPayment, Spending, EmptyHanded
  <2>3. CASE buys' = [buys EXCEPT ![b].pc = "over", ![b].paid = TRUE] /\ Lost
    BY <1>1, <1>f, <2>3 DEF SendPayment, Spending
  <2> QED BY <1>f, <2>1, <2>2, <2>3 DEF SendPayment
<1>g. CASE HandOver(b)
  BY <1>1, <1>g DEF HandOver, Spending, EmptyHanded
<1>h. CASE RefusedAtCap(b)
  <2>1. BoughtAtCap(b)'
    BY <1>1, <1>h DEF RefusedAtCap, TurnedAway, AtCap, BoughtAtCap, Item
  <2> QED BY <1>1, <1>h, <2>1 DEF RefusedAtCap, TurnedAway, Spending
<1>i. CASE BalanceReadFails(b)
  BY <1>1, <1>i DEF BalanceReadFails, TurnedAway, Spending
<1>j. CASE ApproveCoupon(b)
  BY <1>1, <1>j DEF ApproveCoupon, Spending, EmptyHanded
<1>k. CASE RejectCoupon(b)
  <2>1. CASE buys[b].debit = "hold"
    BY <1>1, <1>k, <2>1 DEF RejectCoupon, Spending, EmptyHanded
  <2>2. CASE buys[b].debit # "hold"
    BY <1>1, <1>k, <2>2 DEF RejectCoupon, Spending, EmptyHanded
  <2> QED BY <2>1, <2>2
<1>l. CASE GiveBack(b)
  <2>1. CASE buys' = [buys EXCEPT ![b].pc = "over", ![b].receipt = "refunded", ![b].back = @ + 1]
    BY <1>1, <1>l, <2>1 DEF GiveBack, Spending, EmptyHanded
  <2>2. CASE Lost
    BY <1>1, <1>l, <2>2 DEF GiveBack, Spending
  <2> QED BY <1>l, <2>1, <2>2 DEF GiveBack
<1> QED BY <1>a, <1>b, <1>c, <1>d, <1>e, <1>f, <1>g, <1>h, <1>i, <1>j, <1>k, <1>l DEF BuyStep

\* What is being bought is not owned yet, and what is handed over nobody has.
LEMMA BuyOwns ==
  ASSUME TypeOK, BuysOK, OneAtATime, NotOwnedYet, OwnedOnce, NEW b \in Buys, BuyStep(b), BuysOK'
  PROVE  NotOwnedYet' /\ OwnedOnce'
<1>1. GoodsStep(b) /\ (\A c \in Buys \ {b} : buys'[c] = buys[c])
  BY BuyGoods, BuyRows
<1>2. ASSUME NEW d \in Buys, buys'[d].receipt = "done"
      PROVE  buys'[d].item = buys[d].item /\ (buys[d].receipt = "done" \/ (d = b /\ HandOver(b)))
  <2>1. CASE d = b
    <3>1. buys[b].receipt = "done" \/ HandOver(b)
      BY <1>1, <1>2, <2>1 DEF GoodsStep
    <3>2. buys[b].pc # "new"
      BY <3>1 DEF BuysOK, BuyOK, HandOver, BuyIs
    <3> QED BY <1>1, <2>1, <3>1, <3>2 DEF GoodsStep
  <2>2. CASE d # b
    BY <1>1, <1>2, <2>2
  <2> QED BY <2>1, <2>2
<1>3. ASSUME NEW c \in Buys, Spending(c)', Unique(c)', NEW d \in Buys, buys'[d].item = buys'[c].item, buys'[d].receipt = "done"
      PROVE  FALSE
  <2>1. ~ HandOver(b)
    <3>1. SUFFICES ASSUME HandOver(b) PROVE FALSE
      OBVIOUS
    <3>2. buys'[b].pc = "over" /\ Holds(b)
      BY <3>1, TypeIsRows DEF HandOver, Rows, BuyRow
    <3>3. c # b /\ Spending(c)
      BY <1>1, <1>3, <3>2 DEF Spending
    <3> QED BY <3>2, <3>3 DEF OneAtATime, Holds
  <2>2. buys'[d].item = buys[d].item /\ buys[d].receipt = "done"
    BY <1>2, <1>3, <2>1
  <2>3. CASE Spending(c) /\ buys'[c].item = buys[c].item
    BY <1>3, <2>2, <2>3 DEF NotOwnedYet, Owned, Unique, Item
  <2>4. CASE ~ (Spending(c) /\ buys'[c].item = buys[c].item)
    <3>1. c = b
      BY <1>1, <1>3, <2>4 DEF Spending
    <3>2. buys[b].pc # "new" => buys'[b].item = buys[b].item
      BY <1>1 DEF GoodsStep
    <3>3. Spending(b) => buys[b].pc # "new"
      BY DEF Spending
    <3>4. Enter(b) /\ ~ (Unique(b) /\ Owned(Item(b))) /\ buys'[b].item = buys[b].item
      BY <1>1, <1>3, <2>4, <3>1, <3>2, <3>3 DEF GoodsStep, Enter, BuyIs
    <3> QED BY <1>3, <2>2, <3>1, <3>4 DEF Owned, Unique, Item
  <2> QED BY <2>3, <2>4
<1>4. ASSUME NEW c \in Buys, NEW d \in Buys, c # d, buys'[c].item = buys'[d].item, Unique(c)',
             buys'[c].receipt = "done", buys'[d].receipt = "done"
      PROVE  FALSE
  <2>1. buys[c].item = buys[d].item /\ Unique(c) /\ Unique(d) /\ buys'[c].item = buys[c].item
    BY <1>2, <1>4 DEF Unique, Item
  <2>2. CASE buys[c].receipt = "done" /\ buys[d].receipt = "done"
    <3>1. buys[c].item # None
      BY <2>2 DEF BuysOK, BuyOK
    <3> QED BY <1>4, <2>1, <2>2, <3>1 DEF OwnedOnce, Item
  <2>3. CASE buys[c].receipt # "done"
    <3>1. c = b /\ HandOver(b) /\ buys[d].receipt = "done"
      BY <1>2, <1>4, <2>3
    <3>2. Spending(c)
      BY <3>1 DEF HandOver, BuyIs, Spending
    <3> QED BY <2>1, <3>1, <3>2 DEF NotOwnedYet, Owned, Item
  <2>4. CASE buys[d].receipt # "done"
    <3>1. d = b /\ HandOver(b) /\ buys[c].receipt = "done"
      BY <1>2, <1>4, <2>4
    <3>2. Spending(d)
      BY <3>1 DEF HandOver, BuyIs, Spending
    <3> QED BY <2>1, <3>1, <3>2 DEF NotOwnedYet, Owned, Item
  <2> QED BY <2>2, <2>3, <2>4
<1>5. NotOwnedYet'
  BY <1>3 DEF NotOwnedYet, Owned, Item
<1>6. OwnedOnce'
  BY <1>4 DEF OwnedOnce, Item
<1> QED BY <1>5, <1>6

\* One more buy stranded at most for one more fault, and none without.
LEMMA OneMoreStranded ==
  ASSUME FaultsCostBuys, NEW h, faults \in Nat, faults' \in Nat,
         \/ faults' = faults + 1
         \/ faults' = faults /\ \A c \in Buys : (Unserved(c) \/ ~ Unserved(c)'),
         \A c \in Buys : Unserved(c)' => Unserved(c) \/ c = h,
         (\E c \in Buys : OutOfPocket(c)' /\ ~ BoughtAtCap(c)') =>
            faults' > 0
  PROVE  FaultsCostBuys'
<1>1. PICK N \in SUBSET Buys : N = {c \in Buys : Unserved(c)}
  OBVIOUS
<1>2. PICK M \in SUBSET Buys : M = {c \in Buys : Unserved(c)'}
  OBVIOUS
<1>3. IsFiniteSet(N) /\ Cardinality(N) \in Nat /\ Cardinality(N) <= faults
  BY <1>1, KidMoneyAssumption, FS_Subset, FS_CardinalityType DEF FaultsCostBuys
<1>4. CASE faults' = faults + 1
  <2>1. M \subseteq N \cup {h}
    BY <1>1, <1>2
  <2>2. IsFiniteSet(N \cup {h}) /\ Cardinality(N \cup {h}) <= Cardinality(N) + 1
    BY <1>3, FS_AddElement
  <2>3. Cardinality(M) <= Cardinality(N \cup {h}) /\ IsFiniteSet(M) /\ Cardinality(M) \in Nat /\ Cardinality(N \cup {h}) \in Nat
    BY <2>1, <2>2, FS_Subset, FS_CardinalityType
  <2>4. Cardinality(M) <= faults'
    BY <1>3, <1>4, <2>2, <2>3
  <2> QED BY <1>2, <2>4 DEF FaultsCostBuys
<1>5. CASE faults' = faults /\ \A c \in Buys : (Unserved(c) \/ ~ Unserved(c)')
  <2>1. M \subseteq N
    BY <1>1, <1>2, <1>5
  <2>2. Cardinality(M) <= Cardinality(N) /\ IsFiniteSet(M) /\ Cardinality(M) \in Nat
    BY <1>3, <2>1, FS_Subset, FS_CardinalityType
  <2>3. Cardinality(M) <= faults'
    BY <1>3, <1>5, <2>2
  <2> QED BY <1>2, <2>3 DEF FaultsCostBuys
<1> QED BY <1>4, <1>5

\* A step of a buy strands no more buys than there were faults.
LEMMA BuyFaults ==
  ASSUME TypeOK, BuysOK, Hands, Hands', FaultsCostBuys, NEW b \in Buys, BuyStep(b), TypeOK'
  PROVE  FaultsCostBuys'
<1>1. GoodsStep(b) /\ (\A c \in Buys \ {b} : buys'[c] = buys[c]) /\ metered' = metered
  BY BuyGoods, BuyRows, BuyRest
<1>2. faults \in Nat /\ faults' \in Nat /\ (faults' = faults \/ Lost)
  BY BuyRest, KidMoneyAssumption DEF TypeOK
<1>3. ASSUME NEW c \in Buys, OutOfPocket(c)', ~ BoughtAtCap(c)'
      PROVE  \/ Lost /\ c = b
             \/ OutOfPocket(c) /\ ~ BoughtAtCap(c) /\ buys'[c].approval = buys[c].approval
  <2>1. EmptyHanded(c)'
    BY <1>3 DEF Hands
  <2>2. CASE c = b
    BY <1>1, <1>3, <2>1, <2>2 DEF GoodsStep, Hands
  <2>3. CASE c # b
    <3>1. EmptyHanded(c) /\ ~ BoughtAtCap(c)
      BY <1>1, <1>3, <2>1, <2>3 DEF EmptyHanded, BoughtAtCap, Item
    <3> QED BY <1>1, <2>3, <3>1 DEF Hands
  <2> QED BY <2>2, <2>3
<1>4. \A c \in Buys : Unserved(c)' => Unserved(c) \/ (Lost /\ c = b)
  BY <1>3 DEF Unserved
<1>5. (\E c \in Buys : OutOfPocket(c)' /\ ~ BoughtAtCap(c)') => faults' > 0
  BY <1>2, <1>3 DEF FaultsCostBuys, Lost
<1>6. CASE Lost
  BY <1>2, <1>4, <1>5, <1>6, OneMoreStranded DEF Lost
<1>7. CASE ~ Lost
  BY <1>2, <1>4, <1>5, <1>7, OneMoreStranded
<1> QED BY <1>6, <1>7

-----------------------------------------------------------------------------
(* The steps together.                                                     *)

\* Every step of a buy keeps the invariant.
LEMMA BuySteps ==
  ASSUME IInv, NEW b \in Buys, BuyStep(b)
  PROVE  IInv'
<1>1. DebtFacts /\ Hands
  BY DebtsAdded, ReceiptsAreGoods DEF IInv
<1>2. TypeOK' /\ BuysOK' /\ OneAtATime'
  BY <1>1, BuyTypes, BuysStayOK, OneBuyerAtATime DEF IInv
<1>3. ModeOK' /\ ReadHolds'
  BY <1>1, BuyModes, BuyKeepsRead DEF IInv
<1>4. DebtFacts'
  BY <1>2, <1>3, DebtsAddedNext
<1>5. NeverOverspent' /\ SettledIsOwed'
  BY <1>1, <1>2, <1>4, BuyStaysCovered DEF IInv
<1>6. AsksOK'
  <2>1. SameStakes(stakes') /\ asks' = asks
    BY <1>1, BuyStakes, BuyRest DEF IInv
  <2> QED BY <2>1 DEF IInv, AsksOK, AskOK, SameStakes, Sending
<1>7. StakesAccounted' /\ VerdictsHold' /\ PhantomStakeHasACause'
  <2>1. MoneyStep(b, PriceOf(b)) /\ b \notin Asks /\ reads' = reads
    BY <1>1, BuyMoney, BuyRest, KidMoneyAssumption DEF IInv
  <2>2. CASE PriceOf(b) \in Nat
    BY <2>1, <2>2, LeavingIsCounted DEF IInv
  <2>3. CASE PriceOf(b) \notin Nat
    <3>1. BuyIs(b, "new")
      BY <2>3, ItemsHavePrices DEF IInv, BuysOK, BuyOK, BuyIs, Item
    <3>2. UNCHANGED <<chain, stakes>>
      BY <3>1 DEF BuyStep, Tap, Enter, ReadBalance, Afford, RecordDeferredSpend, SendPayment, HandOver,
         RefusedAtCap, BalanceReadFails, ApproveCoupon, RejectCoupon, GiveBack, BuyIs, IInv, BuysOK, BuyOK
    <3> QED BY <2>1, <3>2 DEF IInv, StakesAccounted, VerdictsHold, PhantomStakeHasACause
  <2> QED BY <2>2, <2>3
<1>8. NotOwnedYet' /\ OwnedOnce'
  BY <1>2, BuyOwns DEF IInv
<1>9. Hands'
  BY <1>2, <1>8, ReceiptsAreGoodsNext
<1>10. FaultsCostBuys'
  BY <1>1, <1>2, <1>9, BuyFaults DEF IInv
<1> QED BY <1>2, <1>3, <1>5, <1>6, <1>7, <1>8, <1>10 DEF IInv

\* Every step of a request keeps the invariant.
LEMMA AskSteps ==
  ASSUME IInv, NEW r \in Asks, AskStep(r)
  PROVE  IInv'
<1>1. DebtFacts
  BY DebtsAdded DEF IInv
<1>2. TypeOK' /\ OneAtATime' /\ AsksOK'
  BY <1>1, AskTypes, OneSenderAtATime, AsksStayOK DEF IInv, DebtFacts
<1>3. ModeOK' /\ ReadHolds' /\ NeverOverspent' /\ SettledIsOwed'
  BY <1>1, AskModes, AskKeepsRead, AskStaysCovered DEF IInv
<1>4. StakesAccounted' /\ VerdictsHold' /\ PhantomStakeHasACause'
  BY <1>1, AskKeepsStakes DEF IInv
<1>5. buys' = buys /\ metered' = metered
  BY AskFrame DEF Kept
<1>6. BuysOK' /\ NotOwnedYet' /\ OwnedOnce'
  BY <1>5 DEF IInv, BuysOK, BuyOK, NotOwnedYet, OwnedOnce, Owned, Unique, Spending, Item
<1>7. FaultsCostBuys'
  <2>1. faults' = faults \/ Lost
    BY DEF AskStep, Ask, CheckFunds, Decide, RejectAsk, StartExecuting, AffordAsk, SendAsk,
         StakeLands, StakeDies, WalletRead, ListStake, LookAtStake, SettleStake, StakeReads
  <2>2. faults \in Nat /\ faults' \in Nat
    BY <1>2, KidMoneyAssumption DEF IInv, TypeOK
  <2>3. \A c \in Buys : (OutOfPocket(c)' <=> OutOfPocket(c)) /\ (BoughtAtCap(c)' <=> BoughtAtCap(c))
    BY <1>5 DEF OutOfPocket, InHand, BoughtAtCap, Item, BuyIs
  <2>4. \A c \in Buys : Unserved(c)' <=> Unserved(c)
    BY <1>5, <2>3 DEF Unserved
  <2>5. (\E c \in Buys : OutOfPocket(c)' /\ ~ BoughtAtCap(c)') => faults' > 0
    BY <2>1, <2>2, <2>3 DEF IInv, FaultsCostBuys, Lost
  <2>6. FaultsCostBuys
    BY DEF IInv
  <2> QED BY <2>1, <2>2, <2>4, <2>5, <2>6, OneMoreStranded DEF Lost
<1> QED BY <1>2, <1>3, <1>4, <1>6, <1>7 DEF IInv

\* Pay absorbs no more debt than is committed.
LEMMA PaydaySteps ==
  ASSUME IInv, Payday
  PROVE  IInv'
<1>1. DebtFacts /\ chain \in Int /\ settled \in Nat /\ Gross \in Nat
  BY DebtsAdded, KidMoneyAssumption DEF IInv, TypeOK
<1>2. PICK absorbed \in Int : /\ absorbed = IF Gross < CommittedDebt THEN Gross ELSE CommittedDebt
                              /\ chain' = chain + Gross - absorbed /\ settled' = settled + absorbed
  BY <1>1 DEF Payday, DebtFacts
<1>3. 0 <= absorbed /\ absorbed <= Gross /\ absorbed <= CommittedDebt
  BY <1>1, <1>2 DEF IInv, SettledIsOwed, DebtFacts
<1>4. UNCHANGED <<mode, metered, buys, asks, stakes, reads, earned, lockQ, read, faults>> /\ paydays' \in 0 .. MaxPaydays
  BY KidMoneyAssumption DEF Payday, IInv, TypeOK
<1>5. chain' \in Int /\ chain' >= chain /\ settled' \in Nat
  BY <1>1, <1>2, <1>3
<1>6. TypeOK'
  BY <1>4, <1>5 DEF IInv, TypeOK
<1>7. BuysOK' /\ AsksOK' /\ OneAtATime' /\ NotOwnedYet' /\ OwnedOnce'
  BY <1>4 DEF IInv, BuysOK, BuyOK, AsksOK, AskOK, OneAtATime, Spending, Sending, Holds,
              NotOwnedYet, OwnedOnce, Owned, Unique, Item
<1>8. ModeOK'
  <2>1. ASSUME mode # "deferred" PROVE settled' = 0
    <3>1. settled = 0
      BY <2>1 DEF IInv, ModeOK
    <3>2. Due({"purchase"}) = {}
      BY <2>1 DEF IInv, ModeOK, Due
    <3>3. Debts({"purchase"}) = SumFunctionOnSet([b \in {} |-> PriceOf(b)], {})
      BY <3>2 DEF Debts
    <3>4. CommittedDebt = 0
      BY <1>1, <3>1, <3>3, SumEmpty DEF DebtFacts
    <3> QED BY <1>2, <1>3, <3>1, <3>4
  <2> QED BY <1>4, <2>1 DEF IInv, ModeOK
<1>9. ReadHolds'
  BY <1>1, <1>4, <1>5 DEF IInv, ReadHolds, TypeOK
<1>10. /\ OutstandingDebt' = OutstandingDebt - absorbed /\ CommittedDebt' = CommittedDebt - absorbed
  <2>1. DebtFacts' /\ Debts(OwedKinds)' = Debts(OwedKinds) /\ Debts({"purchase"})' = Debts({"purchase"})
    BY <1>4, <1>6, <1>7, <1>8, DebtsAddedNext, DebtsKept
  <2> QED BY <1>1, <1>2, <2>1 DEF DebtFacts
<1>11. NeverOverspent' /\ SettledIsOwed'
  BY <1>1, <1>2, <1>3, <1>10 DEF IInv, NeverOverspent, SettledIsOwed, DebtFacts
<1>12. StakesAccounted' /\ VerdictsHold' /\ PhantomStakeHasACause'
  <2>1. stakes \in [Asks -> StakeRow]
    BY TypeIsRows DEF IInv, Rows
  <2> QED BY <1>1, <1>4, <1>5, <2>1 DEF IInv, StakesAccounted, VerdictsHold, PhantomStakeHasACause, StakeRow
<1>13. FaultsCostBuys'
  BY <1>4 DEF IInv, FaultsCostBuys, Unserved, OutOfPocket, InHand, BoughtAtCap, Item, BuyIs
<1> QED BY <1>6, <1>7, <1>8, <1>9, <1>11, <1>12, <1>13 DEF IInv

\* A crash ends every call; the one buy that was charged under the lock is stranded.
LEMMA CrashSteps ==
  ASSUME IInv, Crash
  PROVE  IInv'
<1>1. /\ buys \in [Buys -> BuyRow] /\ asks \in [Asks -> AskRow] /\ stakes \in [Asks -> StakeRow]
      /\ faults \in Nat /\ faults' = faults + 1 /\ faults' \in 0 .. MaxFaults
  <2>1. Rows
    BY TypeIsRows DEF IInv
  <2>2. faults \in 0 .. MaxFaults
    BY DEF IInv, TypeOK
  <2> QED BY <2>1, <2>2, KidMoneyAssumption DEF Rows, Crash, Lost
<1>2. UNCHANGED <<mode, metered, chain, stakes, earned, settled, paydays>> /\ lockQ' = <<>> /\ read' = 0
      /\ reads' = [r \in Asks |-> {}]
  BY DEF Crash
<1>3. /\ \A b \in Buys : buys'[b] = IF BuyIs(b, "new") THEN buys[b] ELSE [buys[b] EXCEPT !.pc = "over"]
      /\ \A r \in Asks : asks'[r] = [asks[r] EXCEPT !.pc = "idle"]
      /\ DOMAIN buys' = Buys /\ DOMAIN asks' = Asks
      /\ buys' = [b \in Buys |-> buys'[b]] /\ asks' = [r \in Asks |-> asks'[r]]
  BY DEF Crash
<1>4. \A b \in Buys : buys'[b] \in BuyRow
  <2>1. "over" \in BuyStates
    BY DEF BuyStates
  <2> QED BY <1>1, <1>3, <2>1, BuyFields
<1>5. \A r \in Asks : asks'[r] \in AskRow
  BY <1>1, <1>3 DEF AskRow
<1>6. TypeOK'
  <2>1. buys' \in [Buys -> BuyRow] /\ asks' \in [Asks -> AskRow]
    BY <1>3, <1>4, <1>5
  <2> QED BY <1>1, <1>2, <2>1 DEF IInv, TypeOK, BuyRow, AskRow
<1>7. ASSUME NEW b \in Buys
      PROVE  /\ buys'[b].item = buys[b].item /\ buys'[b].paid = buys[b].paid /\ buys'[b].receipt = buys[b].receipt
             /\ buys'[b].debit = buys[b].debit /\ buys'[b].approval = buys[b].approval /\ buys'[b].back = buys[b].back
             /\ buys'[b].pc = IF buys[b].pc = "new" THEN "new" ELSE "over"
  BY <1>1, <1>3 DEF BuyRow, BuyIs
<1>8. ASSUME NEW r \in Asks
      PROVE  asks'[r].status = asks[r].status /\ asks'[r].approval = asks[r].approval /\ asks'[r].pc = "idle"
  BY <1>1, <1>3 DEF AskRow
<1>9. OneAtATime' /\ ReadHolds'
  BY <1>7, <1>8 DEF OneAtATime, ReadHolds, Spending, Sending
<1>10. BuysOK'
  BY <1>7 DEF IInv, BuysOK, BuyOK, Item
<1>11. AsksOK' /\ ModeOK'
  BY <1>2, <1>7, <1>8 DEF IInv, AsksOK, AskOK, ModeOK, Sending
<1>12. NeverOverspent' /\ SettledIsOwed'
  <2>1. DebtFacts /\ DebtFacts'
    BY <1>6, <1>10, <1>11, DebtsAdded, DebtsAddedNext DEF IInv
  <2>2. Debts(OwedKinds)' = Debts(OwedKinds) /\ Debts({"purchase"})' = Debts({"purchase"})
    BY <1>7, DebtsKept
  <2> QED BY <1>2, <2>1, <2>2 DEF IInv, NeverOverspent, SettledIsOwed, DebtFacts
<1>13. StakesAccounted' /\ VerdictsHold' /\ PhantomStakeHasACause'
  BY <1>2 DEF IInv, StakesAccounted, VerdictsHold, PhantomStakeHasACause
<1>14. NotOwnedYet' /\ OwnedOnce'
  BY <1>7 DEF IInv, NotOwnedYet, OwnedOnce, Spending, Unique, Item
<1>15. FaultsCostBuys'
  <2>1. Hands /\ Hands'
    BY <1>6, <1>10, <1>14, ReceiptsAreGoods, ReceiptsAreGoodsNext DEF IInv
  <2>2. ASSUME NEW c \in Buys, Unserved(c)' PROVE Unserved(c) \/ c = Head(lockQ)
    <3>1. EmptyHanded(c)' /\ ~ BoughtAtCap(c) /\ buys[c].approval # "rejected"
      BY <1>2, <1>7, <2>1, <2>2 DEF Unserved, Hands, BoughtAtCap, Item
    <3>2. buys[c].paid /\ buys[c].pc \in {"paid", "over", "returning"}
      BY <1>7, <3>1 DEF EmptyHanded, IInv, BuysOK, BuyOK
    <3>3. CASE buys[c].pc = "paid"
      BY <3>3 DEF IInv, OneAtATime, Spending, Holds
    <3>4. CASE buys[c].pc = "returning"
      BY <3>1, <3>4 DEF IInv, BuysOK, BuyOK
    <3>5. CASE buys[c].pc = "over"
      BY <1>7, <2>1, <3>1, <3>5 DEF EmptyHanded, Hands, Unserved
    <3> QED BY <3>2, <3>3, <3>4, <3>5
  <2>3. FaultsCostBuys /\ faults' \in Nat /\ faults' > 0
    BY <1>1 DEF IInv
  <2> QED BY <1>1, <2>2, <2>3, OneMoreStranded
<1> QED BY <1>6, <1>9, <1>10, <1>11, <1>12, <1>13, <1>14, <1>15 DEF IInv

\* The invariant holds to begin with.
LEMMA Starts == Init => IInv
<1> SUFFICES ASSUME Init PROVE IInv
  OBVIOUS
<1>1. /\ \A b \in Buys : buys[b] = NewBuy
      /\ \A r \in Asks : asks[r] = NewAsk /\ stakes[r] = NewStake
      /\ settled = 0 /\ faults = 0 /\ chain = Opening /\ lockQ = <<>>
  BY DEF Init
<1>2. TypeOK
  BY KidMoneyAssumption DEF Init, TypeOK, NewBuy, NewAsk, NewStake, BuyStates, CardStates
<1>3. OneAtATime /\ BuysOK /\ AsksOK /\ ModeOK /\ ReadHolds
  BY <1>1 DEF OneAtATime, BuysOK, BuyOK, AsksOK, AskOK, ModeOK, ReadHolds, Spending, Sending, NewBuy, NewAsk, NewStake
<1>4. NeverOverspent /\ SettledIsOwed
  <2>1. Due(OwedKinds) = {} /\ Due({"purchase"}) = {}
    BY <1>1 DEF Due, OwedKinds, NewBuy
  <2>2. Debts(OwedKinds) = 0 /\ Debts({"purchase"}) = 0
    BY <2>1, SumEmpty DEF Debts
  <2> QED BY <1>1, <1>2, <1>3, <2>2, DebtsAdded, KidMoneyAssumption DEF DebtFacts, NeverOverspent, SettledIsOwed
<1>5. StakesAccounted /\ VerdictsHold /\ PhantomStakeHasACause
  BY <1>1 DEF Init, StakesAccounted, VerdictsHold, PhantomStakeHasACause, NewStake
<1>6. NotOwnedYet /\ OwnedOnce
  BY <1>1 DEF NotOwnedYet, OwnedOnce, Owned, Spending, NewBuy, Item
<1>7. FaultsCostBuys
  <2>1. \A b \in Buys : ~ OutOfPocket(b)
    BY <1>1 DEF OutOfPocket, NewBuy
  <2>2. {b \in Buys : Unserved(b)} = {}
    BY <2>1 DEF Unserved
  <2> QED BY <1>1, <2>1, <2>2, FS_EmptySet DEF FaultsCostBuys
<1> QED BY <1>2, <1>3, <1>4, <1>5, <1>6, <1>7 DEF IInv

\* Every step keeps the invariant.
LEMMA Steps == IInv /\ [Next]_vars => IInv'
<1> SUFFICES ASSUME IInv, [Next]_vars PROVE IInv'
  OBVIOUS
<1>1. ASSUME NEW b \in Buys, BuyStep(b) PROVE IInv'
  BY <1>1, BuySteps
<1>2. ASSUME NEW r \in Asks, AskStep(r) PROVE IInv'
  BY <1>2, AskSteps
<1>3. CASE Payday
  BY <1>3, PaydaySteps
<1>4. CASE Crash
  BY <1>4, CrashSteps
<1>5. CASE UNCHANGED vars
  BY <1>5 DEF vars, IInv, TypeOK, OneAtATime, BuysOK, BuyOK, AsksOK, AskOK, ModeOK, ReadHolds, SettledIsOwed,
     NeverOverspent, StakesAccounted, VerdictsHold, PhantomStakeHasACause, NotOwnedYet, OwnedOnce, FaultsCostBuys, Unserved,
     OutOfPocket, InHand, BoughtAtCap, Owned, Unique, Spending, Sending, Holds, Item, BuyIs,
     OutstandingDebt, CommittedDebt, Owing, PriceOf
<1> QED BY <1>1, <1>2, <1>3, <1>4, <1>5 DEF Next, BuyStep, AskStep, WalletRead

\* What the model-checked invariants below rest on: the spend lock, the debts, the stakes
\* and the goods as KidMoneyInvariant relates them, in every state.
THEOREM Invariant == Spec => []IInv
<1>1. Init => IInv
  BY Starts
<1>2. IInv /\ [Next]_vars => IInv'
  BY Steps
<1> QED BY <1>1, <1>2, PTL DEF Spec

\* Every row, balance and queue of the spend paths stays within its type.
THEOREM TypeCorrect == Spec => []TypeOK
<1>1. IInv => TypeOK
  BY DEF IInv
<1> QED BY <1>1, Invariant, PTL

\* Whatever the order of buys, requests, pay, faults and crashes, the address never goes
\* negative and what a deferred kid owes never exceeds what is there.
THEOREM KidNeverOverspends == Spec => []NeverOverspent
<1>1. IInv => NeverOverspent
  BY DEF IInv
<1> QED BY <1>1, Invariant, PTL

\* A kid is charged for nothing only where a provider, a store or the process failed in that
\* very buy, or the day's cap was reached first: each fault strands one buy at most.
THEOREM FaultsCostOneBuyEach == Spec => []AFaultCostsOneBuy
<1>1. IInv => AFaultCostsOneBuy
  <2> SUFFICES ASSUME IInv PROVE AFaultCostsOneBuy
    OBVIOUS
  <2> DEFINE stranded == {b \in Buys : OutOfPocket(b) /\ ~ BoughtAtCap(b)}
  <2>1. {b \in stranded : buys[b].approval # "rejected"} = {b \in Buys : Unserved(b)}
    BY DEF Unserved
  <2>2. stranded # {} => faults > 0
    BY DEF IInv, FaultsCostBuys
  <2> QED BY <2>1, <2>2 DEF IInv, FaultsCostBuys, AFaultCostsOneBuy
<1> QED BY <1>1, Invariant, PTL

\* No receipt without a payment, and money goes back once, to a kid without the goods.
THEOREM NeverGoodsAndMoney == Spec => []GoodsOrMoney
<1>1. IInv => GoodsOrMoney
  <2> SUFFICES ASSUME IInv, NEW b \in Buys
               PROVE  /\ buys[b].receipt # "none" => buys[b].paid
                      /\ buys[b].back > 0 => buys[b].paid /\ buys[b].back = 1 /\ ~ InHand(b)
    BY DEF GoodsOrMoney
  <2>1. BuyOK(b) /\ buys[b].back \in Nat
    BY DEF IInv, BuysOK, TypeOK
  <2> QED BY <2>1 DEF BuyOK, InHand
<1> QED BY <1>1, Invariant, PTL

\* A stake settled as done by the drop of the balance, and never sent, always has other
\* spending of at least its value behind it.
THEOREM PhantomsAreExplained == Spec => []PhantomStakeHasACause
<1>1. IInv => PhantomStakeHasACause
  BY DEF IInv
<1> QED BY <1>1, Invariant, PTL
=============================================================================
