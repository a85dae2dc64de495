-------------------------- MODULE KidMoneyInvariant --------------------------
(***************************************************************************)
(* The inductive invariant of KidMoney: why the kid never overspends, why  *)
(* a buy ends with goods or money and never both, and what a stake's proof *)
(* by balance is worth.  Whoever is past the head of childSpendKey is      *)
(* alone, so what was read under it is still there when it is used; and    *)
(* each kind of instance has money in one form only.                       *)
(***************************************************************************)
EXTENDS KidMoney

-----------------------------------------------------------------------------
(* Who holds the spend lock.                                               *)

Spending(b) == buys[b].pc \in {"reading", "counting", "paying", "paid"}
Sending(r) == asks[r].pc \in {"counting", "paying"}

OneAtATime ==
  /\ \A b \in Buys : Spending(b) => Holds(b)
  /\ \A r \in Asks : Sending(r) => Holds(r)

-----------------------------------------------------------------------------
(* The rows.                                                               *)

\* A buy that has not been charged got nothing; one that was has gone through the
\* states of its card and its receipt together.
BuyOK(b) ==
  /\ buys[b].pc = "new" <=> buys[b].item = None
  /\ buys[b].receipt # "none" \/ buys[b].debit # "none" => buys[b].paid
  /\ buys[b].paid => buys[b].pc \in {"paid", "over", "returning"}
  /\ buys[b].pc = "paid" => buys[b].paid /\ buys[b].receipt = "none"
  /\ buys[b].approval = "none" <=> buys[b].receipt \in {"none", "done"}
  /\ buys[b].approval = "pending" => buys[b].receipt = "pending_parent" /\ buys[b].pc = "over"
  /\ buys[b].approval = "approved" <=> buys[b].receipt = "fulfilled"
  /\ buys[b].approval # "none" => Item(b).kind = "coupon"
  /\ buys[b].back # 0 => buys[b].back = 1 /\ buys[b].approval = "rejected" /\ buys[b].pc = "over"
  /\ buys[b].pc = "returning" => buys[b].approval = "rejected"

BuysOK == \A b \in Buys : BuyOK(b)

\* A request is executed by the call that a grown-up's yes started, and its row is written
\* with it.
AskOK(r) ==
  /\ asks[r].approval = "pending" => asks[r].status = "pending"
  /\ Sending(r) \/ asks[r].pc = "queued" => asks[r].status = "pending" /\ asks[r].approval = "approved"
  /\ asks[r].status = "executed" => asks[r].approval = "approved" /\ asks[r].pc = "idle"
  /\ asks[r].status = "none" => asks[r].pc = "idle"
  /\ stakes[r].row # "none" \/ stakes[r].tx # "none" => asks[r].status = "executed"

AsksOK == \A r \in Asks : AskOK(r)

\* Only a deferred instance has debts, and it sends nothing; only the chain has stakes.
ModeOK ==
  /\ mode # "deferred" => settled = 0 /\ \A b \in Buys : buys[b].debit = "none"
  /\ mode # "chain" => \A r \in Asks : /\ stakes[r].row = "none" /\ stakes[r].tx = "none"
                                       /\ asks[r].pc # "paying"
  /\ mode = "deferred" => \A r \in Asks : asks[r].status = "none"

-----------------------------------------------------------------------------
(* The money.                                                              *)

\* Off the chain the balance can only have grown since the holder of the lock read it.
ReadHolds ==
  mode # "chain" => /\ \A b \in Buys : buys[b].pc \in {"counting", "paying"} => read <= chain
                    /\ \A r \in Asks : asks[r].pc = "counting" => read <= chain

SettledIsOwed == CommittedDebt >= 0

\* What is missing beside a stake that has not left is accounted for.
StakesAccounted ==
  \A r \in Asks :
    stakes[r].row # "none" /\ stakes[r].tx # "executed" =>
      chain >= stakes[r].before - stakes[r].others

\* A read of the wallet is about a row that is there; and one that is about to call a stake
\* done, however late, had what a row called done must have.
VerdictsHold ==
  \A r \in Asks :
    /\ reads[r] # {} => stakes[r].row # "none"
    /\ "done" \in reads[r] /\ stakes[r].tx # "executed" => stakes[r].others >= AskValue[r]

-----------------------------------------------------------------------------
(* The goods.                                                              *)

Unique(b) == Item(b).kind = "unique"

\* Nobody owns what the holder of the lock is buying, and nobody has it twice.
NotOwnedYet == \A b \in Buys : Spending(b) /\ Unique(b) => ~ Owned(Item(b))

OwnedOnce ==
  \A b, c \in Buys :
    /\ b # c /\ Item(b) = Item(c) /\ buys[b].item # None /\ Unique(b)
    => ~ (buys[b].receipt = "done" /\ buys[c].receipt = "done")

\* Charged, and neither served nor turned down.
Unserved(b) == OutOfPocket(b) /\ ~ BoughtAtCap(b) /\ buys[b].approval # "rejected"

FaultsCostBuys ==
  /\ Cardinality({b \in Buys : Unserved(b)}) <= faults
  /\ (\E b \in Buys : OutOfPocket(b) /\ ~ BoughtAtCap(b)) => faults > 0

IInv ==
  /\ TypeOK /\ OneAtATime /\ BuysOK /\ AsksOK /\ ModeOK
  /\ ReadHolds /\ SettledIsOwed /\ NeverOverspent
  /\ StakesAccounted /\ VerdictsHold /\ PhantomStakeHasACause
  /\ NotOwnedYet /\ OwnedOnce /\ FaultsCostBuys
=============================================================================
