------------------------------- MODULE KidMoney -------------------------------
(***************************************************************************)
(* The money of one kid: what the Treasure Box takes for its goods, what   *)
(* sends and stakes move once a grown-up approved them, what a refused     *)
(* coupon gives back, and the per-child spend lock all of it queues for.   *)
(*                                                                         *)
(* `mode` is where the money is.  "sim": the balance is the sum of the     *)
(* ledger.  "chain": the server signs for the kid and a node answers.      *)
(* "deferred": the address is a grown-up's, so the kid sends nothing and a *)
(* purchase is a debt that a later payout absorbs (kid-netting.ts).        *)
(*                                                                         *)
(* An action is the stretch of a handler between two awaits.  The node is  *)
(* not in this repository: it executes what the address can cover and may  *)
(* leave any caller without an answer.                                     *)
(*                                                                         *)
(* Sources: src/src/routes/store.ts, src/src/routes/approvals.ts,          *)
(* src/src/routes/wallet.ts, src/src/wallet/kid-wallet.ts,                 *)
(* src/src/wallet/kid-staking.ts, src/src/wallet/spend-lock.ts,            *)
(* src/src/kid-netting.ts, src/src/repo-wallet.ts.                         *)
(***************************************************************************)
EXTENDS Integers, Sequences, FiniteSets, Functions

CONSTANTS
  None,
  Buys,        \* taps on Buy, each a request of its own
  Shelf,       \* what the Treasure Box sells: [name, kind, price, minutes]
  Asks,        \* rows of send_requests
  AskKind,     \* a request's kind: "send" or "stake"
  AskValue,    \* a request's value_luna
  Modes,       \* where the money may be
  Opening,     \* what the kid starts with
  Gross,       \* what one day's work pays
  MaxEarned,   \* children.max_earned_min
  MaxPaydays,  \* bound on the payouts
  MaxFaults    \* bound on crashes and on answers lost after money moved

GoodsKinds == {"unique", "minutes", "coupon"}   \* unique: a pack, a timer style or an app

ASSUME KidMoneyAssumption ==
  /\ Shelf \subseteq [name : STRING, kind : GoodsKinds, price : Nat \ {0}, minutes : Nat]
  /\ AskKind \in [Asks -> {"send", "stake"}] /\ AskValue \in [Asks -> Nat \ {0}]
  /\ Modes \subseteq {"sim", "chain", "deferred"}
  /\ Opening \in Nat /\ Gross \in Nat /\ MaxEarned \in Nat
  /\ MaxPaydays \in Nat /\ MaxFaults \in Nat
  /\ IsFiniteSet(Buys) /\ IsFiniteSet(Asks) /\ Buys \cap Asks = {} /\ None \notin Shelf

VARIABLES
  mode, metered,   \* the kind of instance, and whether this kid's screen time is metered
  chain,           \* what is at the kid's address
  buys,            \* each buy: its request, its receipt, its debit, its coupon's approval
  asks,            \* each send request, its approval and the call executing it
  stakes,          \* the ledger row and the transaction of a stake
  reads,           \* what the wallet reads in progress make of a stake's row
  earned,          \* today's bought minutes of a metered kid
  settled,         \* debt absorbed by payouts so far
  lockQ,           \* who waits for childSpendKey, the head holds it
  read,            \* the balance as the holder read it
  paydays, faults  \* payouts and faults so far (bounds)

vars == <<mode, metered, chain, buys, asks, stakes, reads, earned, settled, lockQ, read, paydays, faults>>

NewBuy == [item |-> None, pc |-> "new", paid |-> FALSE, receipt |-> "none",
           debit |-> "none", approval |-> "none", back |-> 0]
NewAsk == [pc |-> "idle", status |-> "none", approval |-> "none"]
NewStake == [row |-> "none", tx |-> "none", before |-> 0, others |-> 0]

-----------------------------------------------------------------------------
(* What is spendable.                                                      *)

PriceOf(b) == buys[b].item.price

Owing(kinds) ==
  LET due == {b \in Buys : buys[b].debit \in kinds} IN
    SumFunctionOnSet([b \in due |-> PriceOf(b)], due) - settled
OutstandingDebt == Owing({"hold", "purchase"})
CommittedDebt == Owing({"purchase"})

PendingStake == SumFunctionOnSet(AskValue, {r \in Asks : stakes[r].row = "pending"})
ApprovedUnsettled(self) ==
  SumFunctionOnSet(AskValue,
    {r \in Asks \ {self} : asks[r].status = "pending" /\ asks[r].approval = "approved"})
ReservedOutflow(self) == PendingStake + ApprovedUnsettled(self)

\* availableKidLuna: `found` is the balance the await came back with, the rest is read after it.
Available(found, self) == found - OutstandingDebt - ReservedOutflow(self)

-----------------------------------------------------------------------------
(* The spend lock: one holder per kid, in arrival order.                   *)

\* Slip: the caller runs at once, whoever holds the lock.
HoldsWithoutWaiting(p) == TRUE

Holds(p) == lockQ # <<>> /\ Head(lockQ) = p
Queue(p) == lockQ' = Append(lockQ, p) /\ UNCHANGED read
LockKept == UNCHANGED <<lockQ, read>>
\* The holder leaves and whoever came next holds the lock.
Release == lockQ' = Tail(lockQ) /\ read' = 0

Lost == faults < MaxFaults /\ faults' = faults + 1

\* Money leaving beside a stake, which the stake's proof can mistake for it.
Beside(r, value) ==
  [s \in Asks |-> IF s # r /\ stakes[s].row # "none"
                    THEN [stakes[s] EXCEPT !.others = @ + value] ELSE stakes[s]]

Leaves(r, value) == chain' = chain - value /\ stakes' = Beside(r, value)

-----------------------------------------------------------------------------
(* POST /kids/:id/buy.                                                     *)

BuyIs(b, pc) == buys[b].pc = pc
Item(b) == buys[b].item
Owned(item) == \E b \in Buys : buys[b].item = item /\ buys[b].receipt = "done"

GoOn(b, pc) == buys' = [buys EXCEPT ![b].pc = pc] /\ LockKept
TurnedAway(b) == buys' = [buys EXCEPT ![b].pc = "over"] /\ Release

Tap(b) ==
  /\ BuyIs(b, "new")
  /\ \E item \in Shelf : buys' = [buys EXCEPT ![b].item = item, ![b].pc = "queued"]
  /\ Queue(b)
  /\ UNCHANGED <<reads, mode, metered, chain, asks, stakes, earned, settled, paydays, faults>>

\* Slip: "do you own this?" was answered before the lock, so it is not asked under it.
EnterUnasked(b) ==
  /\ Holds(b) /\ BuyIs(b, "queued")
  /\ GoOn(b, "reading")
  /\ UNCHANGED <<reads, mode, metered, chain, asks, stakes, earned, settled, paydays, faults>>

\* A grounded kid buys no minutes, and a household without a tablet neither minutes nor
\* an app: either is refused here, before the charge.
Enter(b) ==
  /\ Holds(b) /\ BuyIs(b, "queued")
  /\ \/ Item(b).kind = "unique" /\ Owned(Item(b)) /\ TurnedAway(b)
     \/ Item(b).kind # "coupon" /\ TurnedAway(b)
     \/ ~(Item(b).kind = "unique" /\ Owned(Item(b))) /\ GoOn(b, "reading")
  /\ UNCHANGED <<reads, mode, metered, chain, asks, stakes, earned, settled, paydays, faults>>

ReadBalance(b) ==
  /\ Holds(b) /\ BuyIs(b, "reading")
  /\ buys' = [buys EXCEPT ![b].pc = "counting"]
  /\ read' = chain
  /\ UNCHANGED <<reads, mode, metered, chain, asks, stakes, earned, settled, lockQ, paydays, faults>>

\* After the balance is read: too dear, charged in the ledger, or on to the wire or the debt.
Afford(b) ==
  /\ Holds(b) /\ BuyIs(b, "counting")
  /\ \/ /\ Available(read, None) < PriceOf(b)
        /\ TurnedAway(b)
        /\ UNCHANGED <<chain, stakes>>
     \/ /\ Available(read, None) >= PriceOf(b)
        /\ mode = "sim"
        /\ buys' = [buys EXCEPT ![b].pc = "paid", ![b].paid = TRUE]
        /\ Leaves(b, PriceOf(b))
        /\ LockKept
     \/ /\ Available(read, None) >= PriceOf(b)
        /\ mode # "sim"
        /\ buys' = [buys EXCEPT ![b].pc = "paying"]
        /\ read' = chain
        /\ UNCHANGED <<chain, stakes, lockQ>>
  /\ UNCHANGED <<reads, mode, metered, asks, earned, settled, paydays, faults>>

\* A coupon's debt is a hold: the grown-up may still say no.  Rule 3 is tested once more
\* here, against the raw balance.
RecordDeferredSpend(b) ==
  /\ Holds(b) /\ BuyIs(b, "paying") /\ mode = "deferred"
  /\ IF OutstandingDebt + PriceOf(b) > read
       THEN TurnedAway(b)
       ELSE /\ buys' = [buys EXCEPT ![b].pc = "paid", ![b].paid = TRUE,
                          ![b].debit = IF Item(b).kind = "coupon" THEN "hold" ELSE "purchase"]
            /\ LockKept
  /\ UNCHANGED <<reads, mode, metered, chain, asks, stakes, earned, settled, paydays, faults>>

\* The kid's key signs.  The node takes it, refuses it, or takes it and its answer is lost.
SendPayment(b) ==
  /\ Holds(b) /\ BuyIs(b, "paying") /\ mode = "chain"
  /\ \/ /\ chain >= PriceOf(b)
        /\ buys' = [buys EXCEPT ![b].pc = "paid", ![b].paid = TRUE]
        /\ Leaves(b, PriceOf(b))
        /\ UNCHANGED <<lockQ, read, faults>>
     \/ TurnedAway(b) /\ UNCHANGED <<chain, stakes, faults>>
     \/ /\ chain >= PriceOf(b)
        /\ buys' = [buys EXCEPT ![b].pc = "over", ![b].paid = TRUE]
        /\ Release
        /\ Leaves(b, PriceOf(b))
        /\ Lost
  /\ UNCHANGED <<reads, mode, metered, asks, earned, settled, paydays>>

\* Slip: the cap on bought minutes is forgotten.
NeverAtCap(b) == FALSE

AtCap(b) == Item(b).kind = "minutes" /\ metered /\ earned + Item(b).minutes > MaxEarned

\* The balance is read once more for the answer, then the goods are handed over.
HandOver(b) ==
  /\ Holds(b) /\ BuyIs(b, "paid") /\ ~AtCap(b)
  /\ buys' = [buys EXCEPT ![b].pc = "over",
                ![b].receipt = IF Item(b).kind = "coupon" THEN "pending_parent" ELSE "done",
                ![b].approval = IF Item(b).kind = "coupon" THEN "pending" ELSE "none"]
  /\ earned' = IF Item(b).kind = "minutes" /\ metered THEN earned + Item(b).minutes ELSE earned
  /\ Release
  /\ UNCHANGED <<reads, mode, metered, chain, asks, stakes, settled, paydays, faults>>

RefusedAtCap(b) ==
  /\ Holds(b) /\ BuyIs(b, "paid") /\ AtCap(b)
  /\ TurnedAway(b)
  /\ UNCHANGED <<reads, mode, metered, chain, asks, stakes, earned, settled, paydays, faults>>

BalanceReadFails(b) ==
  /\ Holds(b) /\ BuyIs(b, "paid") /\ mode # "sim"
  /\ TurnedAway(b) /\ Lost
  /\ UNCHANGED <<reads, mode, metered, chain, asks, stakes, earned, settled, paydays>>

-----------------------------------------------------------------------------
(* A coupon in front of a grown-up.                                        *)

ApproveCoupon(b) ==
  /\ buys[b].approval = "pending"
  /\ buys' = [buys EXCEPT ![b].approval = "approved", ![b].receipt = "fulfilled",
                ![b].debit = IF @ = "hold" THEN "purchase" ELSE @]
  /\ UNCHANGED <<reads, mode, metered, chain, asks, stakes, earned, settled, lockQ, read, paydays, faults>>

\* Slip: a card that was already decided is decided again.
RejectAnyway(b) ==
  /\ buys[b].approval \in {"pending", "approved"} /\ buys[b].debit # "purchase"
  /\ \/ /\ buys[b].debit = "hold"
        /\ buys' = [buys EXCEPT ![b].approval = "rejected", ![b].receipt = "refunded",
                      ![b].debit = "refunded", ![b].back = @ + 1]
     \/ /\ buys[b].debit # "hold"
        /\ buys' = [buys EXCEPT ![b].approval = "rejected", ![b].pc = "returning"]
  /\ UNCHANGED <<reads, mode, metered, chain, asks, stakes, earned, settled, lockQ, read, paydays, faults>>

\* A held debt is reversed with the decision; a charge is sent back by the hot wallet.
RejectCoupon(b) ==
  /\ buys[b].approval = "pending"
  /\ \/ /\ buys[b].debit = "hold"
        /\ buys' = [buys EXCEPT ![b].approval = "rejected", ![b].receipt = "refunded",
                      ![b].debit = "refunded", ![b].back = @ + 1]
     \/ /\ buys[b].debit # "hold"
        /\ buys' = [buys EXCEPT ![b].approval = "rejected", ![b].pc = "returning"]
  /\ UNCHANGED <<reads, mode, metered, chain, asks, stakes, earned, settled, lockQ, read, paydays, faults>>

\* refundKidSpend, which takes no lock; when it throws, the card stays decided.
GiveBack(b) ==
  /\ BuyIs(b, "returning")
  /\ \/ /\ buys' = [buys EXCEPT ![b].pc = "over", ![b].receipt = "refunded", ![b].back = @ + 1]
        /\ chain' = chain + PriceOf(b)
        /\ UNCHANGED faults
     \/ /\ mode = "chain" /\ Lost
        /\ \E moved \in {0, 1} :
             /\ buys' = [buys EXCEPT ![b].pc = "over", ![b].back = @ + moved]
             /\ chain' = chain + moved * PriceOf(b)
  /\ UNCHANGED <<reads, mode, metered, asks, stakes, earned, settled, lockQ, read, paydays>>

-----------------------------------------------------------------------------
(* Sends and stakes, which a grown-up approves.                            *)

AskIs(r, pc) == asks[r].pc = pc
Kept == UNCHANGED <<mode, metered, buys, earned, settled, paydays>>

\* POST /kids/:id/send and /stake.  Nothing leaves an address a grown-up owns.
Ask(r) ==
  /\ mode # "deferred"
  /\ asks[r].status = "none"
  /\ Available(chain, None) >= AskValue[r]
  /\ asks' = [asks EXCEPT ![r].status = "pending", ![r].approval = "pending"]
  /\ Kept /\ UNCHANGED <<reads, chain, stakes, lockQ, read, faults>>

\* Approving reads the balance before it decides, and tests it again under the lock.
CheckFunds(r) ==
  /\ AskIs(r, "idle") /\ asks[r].approval = "pending"
  /\ Available(chain, r) >= AskValue[r]
  /\ asks' = [asks EXCEPT ![r].pc = "checked"]
  /\ Kept /\ UNCHANGED <<reads, chain, stakes, lockQ, read, faults>>

Decide(r) ==
  /\ AskIs(r, "checked")
  /\ \/ /\ asks[r].approval = "pending"
        /\ asks' = [asks EXCEPT ![r].pc = "queued", ![r].approval = "approved"]
        /\ Queue(r)
     \/ /\ asks[r].approval # "pending"
        /\ asks' = [asks EXCEPT ![r].pc = "idle"]
        /\ LockKept
  /\ Kept /\ UNCHANGED <<reads, chain, stakes, faults>>

RejectAsk(r) ==
  /\ asks[r].approval = "pending"
  /\ asks' = [asks EXCEPT ![r].approval = "rejected", ![r].status = "rejected"]
  /\ Kept /\ UNCHANGED <<reads, chain, stakes, lockQ, read, faults>>

StartExecuting(r) ==
  /\ Holds(r) /\ AskIs(r, "queued")
  /\ asks' = [asks EXCEPT ![r].pc = "counting"]
  /\ read' = chain
  /\ Kept /\ UNCHANGED <<reads, chain, stakes, lockQ, faults>>

\* The request is still pending, so its card goes back into the queue.
Reopened(r) ==
  /\ asks' = [asks EXCEPT ![r].pc = "idle", ![r].approval = "pending"]
  /\ Release

Executed(r) ==
  /\ asks' = [asks EXCEPT ![r].pc = "idle", ![r].status = "executed"]
  /\ Release

\* A stake's row keeps the balance it was checked against: its only proof.  Another stake
\* may have left the address since that balance was read.
StakeSent(r) ==
  [stakes EXCEPT ![r] =
     [row |-> "pending", tx |-> "pooled", before |-> read - OutstandingDebt,
      others |-> IF read > chain THEN read - chain ELSE 0]]

AffordAsk(r) ==
  /\ Holds(r) /\ AskIs(r, "counting")
  /\ \/ /\ Available(read, r) < AskValue[r]
        /\ Reopened(r)
        /\ UNCHANGED <<chain, stakes>>
     \/ /\ Available(read, r) >= AskValue[r]
        /\ mode = "sim"
        /\ Executed(r)
        /\ Leaves(r, AskValue[r])
     \/ /\ Available(read, r) >= AskValue[r]
        /\ mode = "chain"
        /\ asks' = [asks EXCEPT ![r].pc = "paying"]
        /\ UNCHANGED <<chain, stakes, lockQ, read>>
  /\ Kept /\ UNCHANGED <<reads, faults>>

SendAsk(r) ==
  /\ Holds(r) /\ AskIs(r, "paying")
  /\ \/ /\ AskKind[r] = "send" /\ chain >= AskValue[r]
        /\ Executed(r)
        /\ Leaves(r, AskValue[r])
        /\ UNCHANGED faults
     \/ /\ AskKind[r] = "stake"
        /\ Executed(r)
        /\ stakes' = StakeSent(r)
        /\ UNCHANGED <<chain, faults>>
     \/ Reopened(r) /\ UNCHANGED <<chain, stakes, faults>>
     \/ /\ chain >= AskValue[r]
        /\ Reopened(r)
        /\ Leaves(r, AskValue[r])
        /\ Lost
  /\ Kept /\ UNCHANGED reads

-----------------------------------------------------------------------------
(* What the node does with a stake, and what the wallet read makes of it.  *)

StakeLands(r) ==
  /\ stakes[r].tx = "pooled" /\ chain >= AskValue[r]
  /\ chain' = chain - AskValue[r]
  /\ stakes' = [Beside(r, AskValue[r]) EXCEPT ![r].tx = "executed"]
  /\ Kept /\ UNCHANGED <<reads, asks, lockQ, read, faults>>

StakeDies(r) ==
  /\ stakes[r].tx = "pooled"
  /\ stakes' = [stakes EXCEPT ![r].tx = "failed"]
  /\ Kept /\ UNCHANGED <<reads, chain, asks, lockQ, read, faults>>

\* Slip: any drop of the balance proves the stake.
ProvenByAnyDrop(r) == chain - OutstandingDebt < stakes[r].before

ProvenByDrop(r) == chain - OutstandingDebt <= stakes[r].before - AskValue[r]

\* settlePendingStakes, which takes no lock.  Every read of the wallet and every stake's check
\* call it first: it lists the pending rows, awaits the balance, and writes what it makes of
\* it onto the row, whatever another read wrote meanwhile.  When the node does not answer, it
\* writes nothing; a row that is not proven in time is written off.
StakeReads == UNCHANGED <<chain, asks, lockQ, read, faults>>

ListStake(r) ==
  /\ stakes[r].row = "pending"
  /\ "asked" \notin reads[r]
  /\ reads' = [reads EXCEPT ![r] = @ \cup {"asked"}]
  /\ Kept /\ StakeReads /\ UNCHANGED stakes

\* Several reads may be between their halves: what one made of the row is kept for the others.
LookAtStake(r) ==
  /\ "asked" \in reads[r]
  /\ reads' = [reads EXCEPT ![r] = @ \cup {IF ProvenByDrop(r) THEN "done" ELSE "failed"}]
  /\ Kept /\ StakeReads /\ UNCHANGED stakes

SettleStake(r) ==
  /\ \E verdict \in reads[r] \ {"asked"} : stakes' = [stakes EXCEPT ![r].row = verdict]
  /\ Kept /\ StakeReads /\ UNCHANGED reads

-----------------------------------------------------------------------------

\* A payout.  A deferred instance absorbs committed debt into it (see ParentPayout).
Payday ==
  /\ paydays < MaxPaydays /\ paydays' = paydays + 1
  /\ LET absorbed == IF Gross < CommittedDebt THEN Gross ELSE CommittedDebt IN
       chain' = chain + Gross - absorbed /\ settled' = settled + absorbed
  /\ UNCHANGED <<reads, mode, metered, buys, asks, stakes, earned, lockQ, read, faults>>

\* The process dies: every call in flight is gone, the rows and the node stay.
Crash ==
  /\ Lost
  /\ \/ lockQ # <<>>
     \/ \E b \in Buys : BuyIs(b, "returning")
     \/ \E r \in Asks : AskIs(r, "checked")
  /\ buys' = [b \in Buys |-> IF BuyIs(b, "new") THEN buys[b] ELSE [buys[b] EXCEPT !.pc = "over"]]
  /\ asks' = [r \in Asks |-> [asks[r] EXCEPT !.pc = "idle"]]
  /\ lockQ' = <<>> /\ read' = 0
  /\ reads' = [r \in Asks |-> {}]
  /\ UNCHANGED <<mode, metered, chain, stakes, earned, settled, paydays>>

Init ==
  /\ mode \in Modes /\ metered \in BOOLEAN
  /\ chain = Opening
  /\ buys = [b \in Buys |-> NewBuy]
  /\ asks = [r \in Asks |-> NewAsk]
  /\ stakes = [r \in Asks |-> NewStake] /\ reads = [r \in Asks |-> {}]
  /\ earned = 0 /\ settled = 0 /\ lockQ = <<>> /\ read = 0 /\ paydays = 0 /\ faults = 0

Next ==
  \/ \E b \in Buys :
       \/ Tap(b) \/ Enter(b) \/ ReadBalance(b) \/ Afford(b) \/ RecordDeferredSpend(b)
       \/ SendPayment(b) \/ HandOver(b) \/ RefusedAtCap(b) \/ BalanceReadFails(b)
       \/ ApproveCoupon(b) \/ RejectCoupon(b) \/ GiveBack(b)
  \/ \E r \in Asks :
       \/ Ask(r) \/ CheckFunds(r) \/ Decide(r) \/ RejectAsk(r) \/ StartExecuting(r)
       \/ AffordAsk(r) \/ SendAsk(r) \/ StakeLands(r) \/ StakeDies(r)
       \/ ListStake(r) \/ LookAtStake(r) \/ SettleStake(r)
  \/ Payday \/ Crash

Spec == Init /\ [][Next]_vars

-----------------------------------------------------------------------------
(* Properties.                                                             *)

BuyStates == {"new", "queued", "reading", "counting", "paying", "paid", "over", "returning"}
CardStates == {"none", "pending", "approved", "rejected"}

\* Every field is of its type and only callers wait for the lock; a metered kid never has
\* more bought minutes in a day than the grown-up allows (store.ts, the earned cap).
TypeOK ==
  /\ mode \in Modes /\ metered \in BOOLEAN /\ chain \in Int
  /\ buys \in [Buys -> [item : Shelf \cup {None}, pc : BuyStates, paid : BOOLEAN,
                receipt : {"none", "done", "pending_parent", "fulfilled", "refunded"},
                debit : {"none", "hold", "purchase", "refunded"},
                approval : CardStates, back : Nat]]
  /\ asks \in [Asks -> [pc : {"idle", "checked", "queued", "counting", "paying"},
                status : {"none", "pending", "executed", "rejected"}, approval : CardStates]]
  /\ stakes \in [Asks -> [row : {"none", "pending", "done", "failed"},
                  tx : {"none", "pooled", "executed", "failed"}, before : Int, others : Nat]]
  /\ reads \in [Asks -> SUBSET {"asked", "done", "failed"}]
  /\ earned \in 0 .. MaxEarned /\ settled \in Nat
  /\ lockQ \in Seq(Buys \cup Asks) /\ read \in Int
  /\ paydays \in 0 .. MaxPaydays /\ faults \in 0 .. MaxFaults

\* However buys, sends, stakes, refunds and payouts interleave, the kid never spends what is
\* not there: every debt is backed by NIM at the address (kid-netting.ts, rule 3), and a
\* ledger balance never goes below zero (the overdraft of kid-wallet.ts).
NeverOverspent == chain >= OutstandingDebt

\* What a buy got for its money: the goods, nothing a sibling buy already has, its money
\* back, or a coupon that a grown-up still has to decide.
InHand(b) ==
  /\ buys[b].receipt \in {"done", "fulfilled"}
  /\ Item(b).kind = "unique" => \A c \in Buys \ {b} : Item(c) = Item(b) => buys[c].receipt # "done"

OutOfPocket(b) ==
  /\ buys[b].paid /\ BuyIs(b, "over")
  /\ ~InHand(b) /\ buys[b].back = 0 /\ buys[b].approval # "pending"

BoughtAtCap(b) == metered /\ Item(b).kind = "minutes"

\* The Treasure Box takes no money for nothing: only a crash or a lost answer can leave a buy
\* charged without goods, and each of them one buy at most, the one that held the spend lock
\* (#129).  A fault can also swallow what refused coupons were to give back.  Bought minutes
\* of a metered kid are ChargedIsGranted's.
AFaultCostsOneBuy ==
  LET stranded == {b \in Buys : OutOfPocket(b) /\ ~BoughtAtCap(b)} IN
    /\ Cardinality({b \in stranded : buys[b].approval # "rejected"}) <= faults
    /\ stranded # {} => faults > 0

\* Nobody gets the goods and the money: what was given back was paid, once, and is not in
\* hand (the race-safe decide and the coupon branches of applyApprove and applyReject).
GoodsOrMoney ==
  \A b \in Buys :
    /\ buys[b].receipt # "none" => buys[b].paid
    /\ buys[b].back > 0 => buys[b].paid /\ buys[b].back = 1 /\ ~InHand(b)

\* A stake the wallet calls done and the chain refused was mistaken for something else that
\* left meanwhile, of at least its size (settlePendingStakes proves a stake by the balance).
PhantomStakeHasACause ==
  \A r \in Asks :
    stakes[r].row = "done" /\ stakes[r].tx # "executed" => stakes[r].others >= AskValue[r]

\* "Refused BEFORE the charge, never refunded after" (store.ts, the earned cap): without a
\* fault, whoever was charged was granted.
ChargedIsGranted == (\E b \in Buys : OutOfPocket(b)) => faults > 0
=============================================================================
