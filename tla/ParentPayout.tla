----------------------------- MODULE ParentPayout -----------------------------
(***************************************************************************)
(* A chore payout the PARENT's own wallet signs (HATCH_CUSTODY=parent).    *)
(* An approval mints a signing intent, the wallet signs it, the relay      *)
(* checks the bytes against the intent and puts them on the wire, and      *)
(* paying settles the chore.  A kid's deferred spending (kid_debits) is    *)
(* netted out of what the parent signs.                                    *)
(*                                                                         *)
(* As in ServerPayout, an action is one uninterrupted stretch of the event *)
(* loop; a stretch of several durable writes is several actions with cpu   *)
(* naming its actor, because a crash can separate them.                    *)
(*                                                                         *)
(* Sources: src/src/wallet/payout-intent.ts, payout-intent-mint.ts,        *)
(* payout-relay.ts, payout-subject.ts, src/src/kid-netting.ts,             *)
(* src/src/routes/payouts.ts, approvals.ts, chores.ts, store.ts, wallet.ts,*)
(* src/src/repo-wallet.ts, src/src/wallet/kid-wallet.ts.                   *)
(***************************************************************************)
EXTENDS Integers, FiniteSets, Functions

CONSTANTS
  Chores,       \* chores of one kid; a chore stands for its payout ref too
  Approvals,    \* approval row ids (a bound)
  Handlers,     \* requests that can be in progress at once
  Intents,      \* signing intents that can ever be minted (a bound)
  Events,       \* wallet_events row ids (a bound)
  Purchases,    \* deferred purchases the kid can make (a bound)
  HandIns,      \* chores the kid hands in at all (a bound)
  Price, Cost,  \* of a chore and of a purchase, in luna
  Coupons,      \* purchases a grown-up can still refuse
  ShareBps,     \* the partial shares a grown-up may commit, in basis points
  Savings,      \* what the kid's address holds at the start
  TTL,          \* PAYOUT_INTENT_TTL_MS, in ticks of the clock
  MaxClock,     \* bound on the clock
  ExactMs,      \* TRUE: a relay may be served in the very tick an intent expires
  RepayButton,  \* TRUE: grown-ups also use POST /family/earns/:id/repay
  Overlaps,     \* TRUE: a relay may be under way while its chore's payment is
                \* written off or repaid
  None

ASSUME ParentPayoutAssumption ==
  /\ Price \in [Chores -> Nat \ {0}] /\ Cost \in [Purchases -> Nat \ {0}]
  /\ HandIns \subseteq Chores /\ Coupons \subseteq Purchases /\ ShareBps \subseteq 1..9999
  /\ Savings \in Nat /\ TTL \in Nat /\ MaxClock \in Nat
  /\ ExactMs \in BOOLEAN /\ RepayButton \in BOOLEAN /\ Overlaps \in BOOLEAN
  /\ \A c \in Chores, bps \in ShareBps : Price[c] * bps >= 10000   \* no share rounds to nothing
  /\ IsFiniteSet(Chores) /\ IsFiniteSet(Purchases) /\ IsFiniteSet(Intents)
  /\ None \notin Chores \cup Approvals \cup Handlers \cup Intents \cup Events
  /\ None \notin {"mint", "relay", "repay"}

VARIABLES
  chore,     \* chores.status
  approval,  \* approvals rows
  attempt,   \* payout_attempts rows, by chore
  intent,    \* every intent minted: its pinned literals, and what its bytes did
  cleared,   \* kid_debits rows of kind 'settlement', by chore (0: no row)
  debit,     \* kid_debits rows of kind 'hold' and 'purchase', by purchase
  event,     \* wallet_events rows of kind 'earn'
  clock,
  lock,      \* holder of the family spend lock
  task,      \* the handlers' local state
  handin,    \* chores whose hand-in passed its check and has not written yet
  cpu        \* who is between two durable writes of one stretch, if anybody

vars == <<chore, approval, attempt, intent, cleared, debit, event, clock, lock,
          task, handin, cpu>>
board == <<chore, approval>>
money == <<attempt, intent, cleared, event>>
world == <<debit, clock, handin>>

-----------------------------------------------------------------------------
(* The rows, and a request's local state.                                  *)

ApprovalRow == [status : {"none", "pending", "approved", "rejected"},
                of : Chores \cup {None}, share : ShareBps \cup {None}]
AttemptRow == [status : {"none", "preparing", "in_flight", "settled"},
               intent : Intents \cup {None}, bytes : Intents \cup {None}]
Intent == [state : {"none", "offered", "held", "pool", "executed", "rejected"},
           of : Chores \cup {None}, value : Nat, netted : Nat, expires : Nat]
EventRow == [status : {"none", "pending", "done", "failed"}, of : Chores \cup {None},
             held : BOOLEAN, repaid : BOOLEAN, value : Nat, hash : Intents \cup {None}]
Pcs == {"idle", "height", "parse", "wire", "row", "settle", "decide", "finish",
        "look", "attempt", "prepare", "mark"}
Task == [pc : Pcs, act : {"mint", "relay", "repay", None}, of : Chores \cup {None}, gross : Nat,
         want : Intents \cup {None}, tx : Intents \cup {None}, ev : Events \cup {None}]

NoApproval == [status |-> "none", of |-> None, share |-> None]
NoAttempt  == [status |-> "none", intent |-> None, bytes |-> None]
NoIntent   == [state |-> "none", of |-> None, value |-> 0, netted |-> 0, expires |-> 0]
NoEvent    == [status |-> "none", of |-> None, held |-> FALSE, repaid |-> FALSE,
               value |-> 0, hash |-> None]
Idle       == [pc |-> "idle", act |-> None, of |-> None, gross |-> 0,
               want |-> None, tx |-> None, ev |-> None]

Free == cpu = None
Runs(h, pc) == cpu \in {None, h} /\ task[h].pc = pc
Goto(h, pc) == task' = [task EXCEPT ![h].pc = pc]
Done(h) == task' = [task EXCEPT ![h] = Idle]
Release(h) == lock' = IF lock = h THEN None ELSE lock

ApplyShare(full, bps) == IF bps = None THEN full ELSE (full * bps) \div 10000

PendingApprovals(c) == {a \in Approvals : approval[a].status = "pending" /\ approval[a].of = c}
FreeApprovals == {a \in Approvals : approval[a].status = "none"}

\* openApproval: the pending row of this chore, or a new one.
Opened(a, c) ==
  IF PendingApprovals(c) # {} THEN a \in PendingApprovals(c) /\ approval' = approval
  ELSE /\ a \in FreeApprovals
       /\ approval' = [approval EXCEPT ![a] = [status |-> "pending", of |-> c, share |-> None]]

RowsFor(c) == {e \in Events : event[e].of = c /\ event[e].held}  \* walletEventForPayoutRef
FreeEvents == {e \in Events : event[e].status = "none"}
FreeIntents == {m \in Intents : intent[m].state = "none"}

\* Requests that have not done with this chore's claim yet.
Relaying(c) == \E h \in Handlers :
  task[h].act = "relay" /\ task[h].of = c /\ task[h].pc \in {"parse", "wire", "row", "settle"}
Repaying(c) == \E h \in Handlers : task[h].act = "repay" /\ task[h].of = c

LandedUnlessInFlight(c) == RowsFor(c) # {} \/ cleared[c] # 0   \* slip: forgets the claim

PayoutMayHaveLanded(c) ==
  RowsFor(c) # {} \/ cleared[c] # 0 \/ attempt[c].status = "in_flight"

-----------------------------------------------------------------------------
(* The debits, and what of them a payout may absorb.                       *)

Debts(kinds) == SumFunctionOnSet(Cost, {p \in Purchases : debit[p] \in kinds})
Settled == SumFunctionOnSet(cleared, Chores)

Outstanding == Debts({"hold", "purchase"}) - Settled
CommittedAndHeld == Outstanding   \* slip: nets a coupon that can still come back

\* A purchase a grown-up may still refuse is not nettable.
CommittedDebt == Debts({"purchase"}) - Settled

\* payout_attempts.netted_luna: what the intent of the row nets.
Pinned == [c \in Chores |-> IF attempt[c].intent = None THEN 0 ELSE intent[attempt[c].intent].netted]

ReservedWhilePreparing(at) ==   \* slip: bytes on the wire reserve nothing
  SumFunctionOnSet(Pinned,
    {c \in Chores : /\ attempt[c].status = "preparing" /\ attempt[c].intent # None
                    /\ intent[attempt[c].intent].expires > at})

\* The row has not settled, and its intent can still be signed.
Reserves(c, at) ==
  /\ attempt[c].status \in {"preparing", "in_flight"} /\ attempt[c].intent # None
  /\ attempt[c].status = "preparing" => intent[attempt[c].intent].expires > at

ReservedNetting(at) == SumFunctionOnSet(Pinned, {c \in Chores : Reserves(c, at)})

NettableDebt(at) ==
  IF CommittedDebt > ReservedNetting(at) THEN CommittedDebt - ReservedNetting(at) ELSE 0

\* netPayout: the part of the gross that clears debt.
NettedOf(gross, debt) == IF debt < gross THEN debt ELSE gross

ChainBalance ==
  Savings + SumFunctionOnSet([m \in Intents |-> intent[m].value],
                             {m \in Intents : intent[m].state = "executed"})

\* recordDeferredSpend: never more debt than the kid's address holds.
Buy(p) ==
  /\ Free /\ debit[p] = "none"
  /\ Outstanding + Cost[p] <= ChainBalance
  /\ debit' = [debit EXCEPT ![p] = IF p \in Coupons THEN "hold" ELSE "purchase"]
  /\ UNCHANGED <<board, money, clock, lock, task, handin, cpu>>

\* A grown-up honours the coupon (commitHeldDebit) ...
Honour(p) ==
  /\ Free /\ debit[p] = "hold"
  /\ debit' = [debit EXCEPT ![p] = "purchase"]
  /\ UNCHANGED <<board, money, clock, lock, task, handin, cpu>>

\* ... or refuses it (reverseHeldDebit).
GiveBack(p) ==
  /\ Free /\ debit[p] = "hold"
  /\ debit' = [debit EXCEPT ![p] = "refunded"]
  /\ UNCHANGED <<board, money, clock, lock, task, handin, cpu>>

-----------------------------------------------------------------------------
Init ==
  /\ chore = [c \in Chores |-> "open"]
  /\ approval = [a \in Approvals |-> NoApproval]
  /\ attempt = [c \in Chores |-> NoAttempt]
  /\ intent = [m \in Intents |-> NoIntent]
  /\ cleared = [c \in Chores |-> 0]
  /\ debit = [p \in Purchases |-> "none"]
  /\ event = [e \in Events |-> NoEvent]
  /\ clock = 0
  /\ lock = None
  /\ task = [h \in Handlers |-> Idle]
  /\ handin = {}
  /\ cpu = None

-----------------------------------------------------------------------------
(* The kid hands a chore in, and a grown-up says no to it: none of these   *)
(* take the family spend lock.                                             *)

StartSubmit(c) ==
  /\ Free /\ c \in HandIns
  /\ chore[c] # "approved" /\ c \notin handin
  /\ handin' = handin \cup {c}
  /\ UNCHANGED <<board, money, debit, clock, lock, task, cpu>>

Submit(c) ==
  /\ Free /\ c \in handin
  /\ handin' = handin \ {c}
  /\ chore' = [chore EXCEPT ![c] = "submitted"]
  /\ \E a \in Approvals : Opened(a, c)
  /\ UNCHANGED <<money, debit, clock, lock, task, cpu>>

Reject(a) ==
  /\ Free
  /\ approval[a].status = "pending"
  /\ ~ PayoutMayHaveLanded(approval[a].of)
  /\ approval' = [approval EXCEPT ![a].status = "rejected"]
  /\ chore' = [chore EXCEPT ![approval[a].of] = "rejected"]
  /\ UNCHANGED <<money, world, lock, task, cpu>>

DirectReject(c) ==
  /\ Free
  /\ ~ PayoutMayHaveLanded(c)
  /\ approval' = [a \in Approvals |->
       IF a \in PendingApprovals(c) THEN [approval[a] EXCEPT !.status = "rejected"]
       ELSE approval[a]]
  /\ chore' = [chore EXCEPT ![c] = "rejected"]
  /\ UNCHANGED <<money, world, lock, task, cpu>>

-----------------------------------------------------------------------------
(* Approving: under the family spend lock, the head height is read and an  *)
(* intent is minted.  The approval stays pending until the money moves.    *)

\* POST /approvals/:id/approve.  The first share committed to a card binds.
StartApprove(h, a) ==
  /\ Free /\ task[h].pc = "idle" /\ lock = None
  /\ approval[a].status = "pending"
  /\ lock' = h
  /\ \E bps \in ShareBps \cup {None} :
       /\ bps # None => approval[a].share = None
       /\ approval' = IF bps = None THEN approval ELSE [approval EXCEPT ![a].share = bps]
  /\ task' = [task EXCEPT ![h] = [Idle EXCEPT
       !.pc = "height", !.act = "mint", !.of = approval[a].of,
       !.gross = ApplyShare(Price[approval[a].of], approval'[a].share)]]
  /\ UNCHANGED <<chore, money, world, cpu>>

\* POST /chores/:id/approve: always the full price.
StartDirect(h, c) ==
  /\ Free /\ task[h].pc = "idle" /\ lock = None
  /\ chore[c] # "approved"
  /\ lock' = h
  /\ \E a \in Approvals : Opened(a, c)
  /\ task' = [task EXCEPT ![h] = [Idle EXCEPT
       !.pc = "height", !.act = "mint", !.of = c, !.gross = Price[c]]]
  /\ UNCHANGED <<chore, money, world, cpu>>

NoHeight(h) ==   \* chain_unreachable
  /\ Free /\ task[h].pc = "height"
  /\ Done(h) /\ Release(h)
  /\ UNCHANGED <<board, money, world, cpu>>

\* Only an expired claim whose bytes were never recorded may be minted again.
Reusable(c) ==
  /\ attempt[c].status = "preparing"
  /\ attempt[c].intent # None /\ clock > intent[attempt[c].intent].expires

\* The old intent is handed back, or there is nothing to hand back.
AlreadyClaimed(h) ==
  /\ Free /\ task[h].pc = "height"
  /\ attempt[task[h].of].status # "none" /\ ~ Reusable(task[h].of)
  /\ Done(h) /\ Release(h)
  /\ UNCHANGED <<board, money, world, cpu>>

AlreadySettled(h) ==
  /\ Free /\ task[h].pc = "height"
  /\ attempt[task[h].of].status = "none" /\ cleared[task[h].of] # 0
  /\ Done(h) /\ Release(h)
  /\ UNCHANGED <<board, money, world, cpu>>

Mintable(h) ==
  /\ Free /\ task[h].pc = "height"
  /\ \/ attempt[task[h].of].status = "none" /\ cleared[task[h].of] = 0
     \/ Reusable(task[h].of)

MintIntent(h, m) ==
  /\ Mintable(h) /\ m \in FreeIntents
  /\ LET c == task[h].of
         netted == NettedOf(task[h].gross, NettableDebt(clock))
     IN /\ netted < task[h].gross
        /\ attempt' = [attempt EXCEPT ![c] =
             [status |-> "preparing", intent |-> m, bytes |-> None]]
        /\ intent' = [intent EXCEPT ![m] =
             [state |-> "offered", of |-> c, value |-> task[h].gross - netted,
              netted |-> netted, expires |-> clock + TTL]]
  /\ Done(h) /\ Release(h)
  /\ UNCHANGED <<board, cleared, event, world, cpu>>

\* The debt eats the payout whole: it is cleared at once, and the request goes
\* on to settle the chore.
SettleWhole(h) ==
  /\ Mintable(h)
  /\ NettedOf(task[h].gross, NettableDebt(clock)) = task[h].gross
  /\ attempt' = [attempt EXCEPT ![task[h].of] = NoAttempt]
  /\ cleared' = [cleared EXCEPT ![task[h].of] = IF @ = 0 THEN task[h].gross ELSE @]
  /\ Goto(h, "decide")
  /\ UNCHANGED <<board, intent, event, world, lock, cpu>>

-----------------------------------------------------------------------------
(* The relay: POST /payouts/broadcast, with bytes the parent's wallet      *)
(* signed for some intent it was ever offered.                             *)

StartRelay(h, m) ==
  /\ Free /\ task[h].pc = "idle"
  /\ Overlaps \/ ~ Repaying(intent[m].of)
  /\ intent[m].state # "none" /\ attempt[intent[m].of].intent # None
  /\ task' = [task EXCEPT ![h] = [Idle EXCEPT
       !.pc = IF RowsFor(intent[m].of) # {} THEN "decide" ELSE "parse",
       !.act = "relay", !.of = intent[m].of, !.want = attempt[intent[m].of].intent, !.tx = m]]
  /\ UNCHANGED <<board, money, world, lock, cpu>>

VerifyWithoutClock(h) == task[h].tx = task[h].want   \* slip: an expired intent is relayed

\* verifySignedPayout: every literal of the intent, and its expiry.
Verified(h) == task[h].tx = task[h].want /\ clock <= intent[task[h].want].expires

OtherBytesInFlight(h) ==
  LET row == attempt[task[h].of]
  IN row.status = "in_flight" /\ row.bytes \notin {None, task[h].tx}

\* Bound on the clock's resolution: whether a tick can hold both this and a mint.
Served(h) == ExactMs \/ clock # intent[task[h].want].expires

RefuseRelay(h) ==
  /\ Free /\ task[h].pc = "parse" /\ Served(h)
  /\ ~ Verified(h) \/ OtherBytesInFlight(h)
  /\ Done(h)
  /\ UNCHANGED <<board, money, world, lock, cpu>>

ArmAfterwards(h) ==   \* slip: the bytes go out before they are recorded
  /\ Free /\ task[h].pc = "parse" /\ Served(h)
  /\ Verified(h) /\ ~ OtherBytesInFlight(h)
  /\ intent' = [intent EXCEPT ![task[h].tx].state = IF @ = "offered" THEN "held" ELSE @]
  /\ Goto(h, "wire")
  /\ UNCHANGED <<board, attempt, cleared, event, world, lock, cpu>>

\* Durable first, wire second.
ArmRelay(h) ==
  /\ Free /\ task[h].pc = "parse" /\ Served(h)
  /\ Verified(h) /\ ~ OtherBytesInFlight(h)
  /\ attempt' = [attempt EXCEPT ![task[h].of] =
       IF @.status = "none" THEN @ ELSE [@ EXCEPT !.status = "in_flight", !.bytes = task[h].tx]]
  /\ intent' = [intent EXCEPT ![task[h].tx].state = IF @ = "offered" THEN "held" ELSE @]
  /\ Goto(h, "wire")
  /\ UNCHANGED <<board, cleared, event, world, lock, cpu>>

SettleUnheard(h) ==   \* slip: no answer is taken for a yes
  /\ Free /\ task[h].pc = "wire"
  /\ Goto(h, "decide")
  /\ UNCHANGED <<board, money, world, lock, cpu>>

\* The node's answer never came, or was a refusal.
BroadcastFails(h) ==
  /\ Free /\ task[h].pc = "wire"
  /\ Done(h) /\ Release(h)
  /\ UNCHANGED <<board, money, world, cpu>>

NodeTook(m) == intent[m].state \in {"pool", "executed", "rejected"}

\* The node answered.  First the debt the payout carried ...
ClearDebt(h) ==
  /\ Free /\ task[h].pc = "wire" /\ task[h].act = "relay"
  /\ NodeTook(task[h].tx)
  /\ cleared' = [cleared EXCEPT ![task[h].of] =
       IF @ = 0 THEN intent[task[h].want].netted ELSE @]
  /\ cpu' = h
  /\ Goto(h, "row")
  /\ UNCHANGED <<board, attempt, intent, event, world, lock>>

\* ... then the ledger row, unless a racing relay wrote it ...
WriteRow(h, e) ==
  /\ Runs(h, "row") /\ RowsFor(task[h].of) = {} /\ e \in FreeEvents
  /\ event' = [event EXCEPT ![e] =
       [status |-> "pending", of |-> task[h].of, held |-> TRUE, repaid |-> FALSE,
        value |-> IF task[h].act = "repay" THEN task[h].gross ELSE intent[task[h].want].value,
        hash |-> task[h].tx]]
  /\ cpu' = h
  /\ Goto(h, "settle")
  /\ UNCHANGED <<board, attempt, intent, cleared, world, lock>>

RowTaken(h) ==   \* the unique index on payout_ref refuses the second row
  /\ Runs(h, "row") /\ RowsFor(task[h].of) # {}
  /\ cpu' = None
  /\ Done(h) /\ Release(h)
  /\ UNCHANGED <<board, money, world>>

SettleAsDone(h) ==   \* slip: the claim takes the ledger row's status
  /\ Runs(h, "settle")
  /\ attempt' = [attempt EXCEPT ![task[h].of].status = "done"]
  /\ cpu' = None
  /\ Goto(h, IF task[h].act = "repay" THEN "mark" ELSE "decide")
  /\ UNCHANGED <<board, intent, cleared, event, world, lock>>

\* ... then the claim ...
SettleAttempt(h) ==
  /\ Runs(h, "settle")
  /\ attempt' = [attempt EXCEPT ![task[h].of].status = IF @ = "none" THEN @ ELSE "settled"]
  /\ cpu' = None
  /\ Goto(h, IF task[h].act = "repay" THEN "mark" ELSE "decide")
  /\ UNCHANGED <<board, intent, cleared, event, world, lock>>

\* ... and settlePayoutSubject: the card first, the chore after it.
Decide(h) ==
  /\ Free /\ task[h].pc = "decide"
  /\ approval' = [a \in Approvals |->
       IF a \in PendingApprovals(task[h].of) THEN [approval[a] EXCEPT !.status = "approved"]
       ELSE approval[a]]
  /\ cpu' = h
  /\ Goto(h, "finish")
  /\ UNCHANGED <<chore, money, world, lock>>

Finish(h) ==
  /\ Runs(h, "finish")
  /\ chore' = [chore EXCEPT ![task[h].of] = "approved"]
  /\ cpu' = None
  /\ Done(h) /\ Release(h)
  /\ UNCHANGED <<approval, money, world>>

-----------------------------------------------------------------------------
(* POST /family/earns/:id/repay is the server-signed code: with no key it  *)
(* cannot sign, but it can replay bytes that are in flight.                *)

StartRepay(h, e) ==
  /\ RepayButton /\ Free /\ task[h].pc = "idle" /\ lock = None
  /\ Overlaps \/ ~ Relaying(event[e].of)
  /\ event[e].status = "failed" /\ ~ event[e].repaid
  /\ lock' = h
  /\ task' = [task EXCEPT ![h] = [Idle EXCEPT
       !.pc = "look", !.act = "repay", !.of = event[e].of, !.gross = event[e].value, !.ev = e]]
  /\ UNCHANGED <<board, money, world, cpu>>

RepayFindsRow(h) ==
  /\ Free /\ task[h].pc = "look" /\ RowsFor(task[h].of) # {}
  /\ Goto(h, "mark")
  /\ UNCHANGED <<board, money, world, lock, cpu>>

\* The kid's wallet row is read across an await, after the ledger was.
RepayFindsNone(h) ==
  /\ Free /\ task[h].pc = "look" /\ RowsFor(task[h].of) = {}
  /\ Goto(h, "attempt")
  /\ UNCHANGED <<board, money, world, lock, cpu>>

RepayReplays(h) ==
  /\ Free /\ task[h].pc = "attempt" /\ attempt[task[h].of].status = "in_flight"
  /\ task' = [task EXCEPT ![h].pc = "wire", ![h].tx = attempt[task[h].of].bytes]
  /\ UNCHANGED <<board, money, world, lock, cpu>>

RepayAnswered(h) ==
  /\ Free /\ task[h].pc = "wire" /\ task[h].act = "repay"
  /\ NodeTook(task[h].tx)
  /\ Goto(h, "row")
  /\ UNCHANGED <<board, money, world, lock, cpu>>

\* Nothing in flight: a claim is staked (unless one stands), and then there is
\* no key to sign with.
RepayClaims(h) ==
  /\ Free /\ task[h].pc = "attempt" /\ attempt[task[h].of].status # "in_flight"
  /\ attempt' = [attempt EXCEPT ![task[h].of] =
       IF @.status = "none" THEN [NoAttempt EXCEPT !.status = "preparing"] ELSE @]
  /\ Goto(h, "prepare")
  /\ UNCHANGED <<board, intent, cleared, event, world, lock, cpu>>

RepayThrows(h) ==
  /\ Free /\ task[h].pc = "prepare"
  /\ attempt' = [attempt EXCEPT ![task[h].of] = IF @.status = "preparing" THEN NoAttempt ELSE @]
  /\ Done(h) /\ Release(h)
  /\ UNCHANGED <<board, intent, cleared, event, world, cpu>>

MarkRepaid(h) ==
  /\ Free /\ task[h].pc = "mark"
  /\ event' = [event EXCEPT ![task[h].ev].repaid = TRUE]
  /\ Done(h) /\ Release(h)
  /\ UNCHANGED <<board, attempt, intent, cleared, world, cpu>>

-----------------------------------------------------------------------------
(* The sweep, the chain, the clock and the process itself.                 *)

Confirm(e) ==
  /\ Free /\ event[e].status = "pending" /\ intent[event[e].hash].state = "executed"
  /\ event' = [event EXCEPT ![e].status = "done"]
  /\ UNCHANGED <<board, attempt, intent, cleared, world, lock, task, cpu>>

\* markWalletEventFailed.  (ServerPayout takes its three writes apart.)
WriteOff(e) ==
  /\ Free /\ event[e].status = "pending" /\ intent[event[e].hash].state = "rejected"
  /\ Overlaps \/ ~ Relaying(event[e].of)
  /\ event' = [event EXCEPT ![e].status = "failed", ![e].held = FALSE]
  /\ attempt' = [attempt EXCEPT ![event[e].of] = NoAttempt]
  /\ UNCHANGED <<board, intent, cleared, world, lock, task, cpu>>

Reach(m) ==
  /\ intent[m].state = "held"
  /\ intent' = [intent EXCEPT ![m].state = "pool"]
  /\ UNCHANGED <<board, attempt, cleared, event, world, lock, task, cpu>>

Include(m) ==
  /\ intent[m].state = "pool"
  /\ \E outcome \in {"executed", "rejected"} : intent' = [intent EXCEPT ![m].state = outcome]
  /\ UNCHANGED <<board, attempt, cleared, event, world, lock, task, cpu>>

Tick ==
  /\ Free /\ clock < MaxClock
  /\ clock' = clock + 1
  /\ UNCHANGED <<board, money, debit, handin, lock, task, cpu>>

Crash ==
  /\ handin # {} \/ \E h \in Handlers : task[h].pc # "idle"
  /\ lock' = None
  /\ task' = [h \in Handlers |-> Idle]
  /\ handin' = {}
  /\ cpu' = None
  /\ UNCHANGED <<board, money, debit, clock>>

-----------------------------------------------------------------------------
Approve(h) ==
  \/ \E a \in Approvals : StartApprove(h, a)
  \/ \E c \in Chores : StartDirect(h, c)
  \/ NoHeight(h) \/ AlreadyClaimed(h) \/ AlreadySettled(h)
  \/ \E m \in Intents : MintIntent(h, m)
  \/ SettleWhole(h)

Relay(h) ==
  \/ \E m \in Intents : StartRelay(h, m)
  \/ RefuseRelay(h) \/ ArmRelay(h) \/ BroadcastFails(h) \/ ClearDebt(h)
  \/ \E e \in Events : WriteRow(h, e)
  \/ RowTaken(h) \/ SettleAttempt(h) \/ Decide(h) \/ Finish(h)

Repay(h) ==
  \/ \E e \in Events : StartRepay(h, e)
  \/ RepayFindsRow(h) \/ RepayFindsNone(h) \/ RepayReplays(h) \/ RepayAnswered(h)
  \/ RepayClaims(h) \/ RepayThrows(h) \/ MarkRepaid(h)

Next ==
  \/ \E c \in Chores : StartSubmit(c) \/ Submit(c) \/ DirectReject(c)
  \/ \E a \in Approvals : Reject(a)
  \/ \E h \in Handlers : Approve(h) \/ Relay(h) \/ Repay(h)
  \/ \E p \in Purchases : Buy(p) \/ Honour(p) \/ GiveBack(p)
  \/ \E e \in Events : Confirm(e) \/ WriteOff(e)
  \/ \E m \in Intents : Reach(m) \/ Include(m)
  \/ Tick \/ Crash

Spec == Init /\ [][Next]_vars

-----------------------------------------------------------------------------
(* Every value has its type.                                               *)

TypeOK ==
  /\ chore \in [Chores -> {"open", "submitted", "approved", "rejected"}]
  /\ approval \in [Approvals -> ApprovalRow]
  /\ attempt \in [Chores -> AttemptRow]
  /\ intent \in [Intents -> Intent]
  /\ cleared \in [Chores -> Nat]
  /\ debit \in [Purchases -> {"none", "hold", "purchase", "refunded"}]
  /\ event \in [Events -> EventRow]
  /\ clock \in 0..MaxClock
  /\ lock \in Handlers \cup {None}
  /\ task \in [Handlers -> Task]
  /\ handin \subseteq Chores
  /\ cpu \in Handlers \cup {None}

-----------------------------------------------------------------------------
(* Safety.                                                                 *)

Alive(m) == intent[m].state \in {"held", "pool", "executed"}
AliveFor(c) == {m \in Intents : Alive(m) /\ intent[m].of = c}

\* A chore never has two signed transactions on the wire that can both move
\* money, though any number of intents for it were offered, expired and were
\* signed too late (payout-intent.ts: the claim is "the primary guard").
AtMostOneAlive ==
  \A c \in Chores : \A m, n \in AliveFor(c) : m = n

\* Bytes that may move money are on record: nothing can mint a second intent or
\* reject the chore as if nothing had left.
NothingUntracked ==
  \A m \in Intents : Alive(m) => PayoutMayHaveLanded(intent[m].of)

\* A chore reads approved only when it was paid for: by a ledger row, or by a
\* debt it cleared.
ApprovedIsPaidFor ==
  \A c \in Chores : chore[c] = "approved" =>
    cleared[c] # 0 \/ \E e \in Events : event[e].of = c

\* What a kid gave up for a payout of this chore: the netting of the intent that
\* pays it or may still be signed to pay it, or the debt cleared without one.
Payable(m) ==
  \/ Alive(m)
  \/ /\ intent[m].state = "offered" /\ attempt[intent[m].of].intent = m
     /\ clock < intent[m].expires

GivenUp(c) ==
  LET paying == {m \in Intents : Payable(m) /\ intent[m].of = c}
  IN IF paying = {} THEN cleared[c]
     ELSE SumFunctionOnSet([m \in Intents |-> intent[m].netted], paying)

\* No purchase is taken out of the kid's earnings twice, however many payouts
\* are approved, expire and are approved again in the meantime (kid-netting.ts:
\* "TWO APPROVALS IN THE SAME MINUTE BOTH NET AGAINST THE SAME DEBT").  The
\* server-signed repay of a payment written off settles no debt: from then on
\* it can be.
RepayPossible == RepayButton /\ \E e \in Events : event[e].status = "failed"

NeverNettedTwice ==
  ~ RepayPossible =>
    SumFunctionOnSet([c \in Chores |-> GivenUp(c)], Chores) <= Debts({"purchase"})

\* The kid never owes more than its address holds, and never less than nothing
\* (kid-netting.ts, rule 3).
DebtIsCovered == Outstanding \in 0..ChainBalance

\* No step turns a chore down while its payment is on the wire or has arrived.
RejectNeverBesidePayment ==
  [][\A c \in Chores : chore[c] # "rejected" /\ chore'[c] = "rejected" => AliveFor(c) = {}]_vars

=============================================================================
