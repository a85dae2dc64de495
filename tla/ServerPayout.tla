---------------------------- MODULE ServerPayout ----------------------------
(***************************************************************************)
(* A chore payout the SERVER signs: the approval that authorises it, the   *)
(* write-ahead attempt that makes it exactly-once, the ledger row that     *)
(* records it and the sweep that proves or writes off that row.            *)
(*                                                                         *)
(* The server is one process with an event loop.  A handler runs without   *)
(* interruption from one await to the next, so every action below is one   *)
(* such stretch -- except where a stretch makes several durable writes: a  *)
(* crash can separate them, and they are then actions of their own, with   *)
(* cpu naming the actor no other actor may interrupt.                      *)
(*                                                                         *)
(* Sources: src/src/routes/approvals.ts, src/src/routes/chores.ts,         *)
(* src/src/routes/wallet.ts, src/src/repo-approvals.ts,                    *)
(* src/src/repo-wallet.ts, src/src/wallet/kid-wallet.ts,                   *)
(* src/src/wallet/earn-settlement.ts, src/src/wallet/spend-lock.ts.        *)
(***************************************************************************)
EXTENDS Integers, Sequences, FiniteSets

CONSTANTS
  Subjects,     \* chores of one family: "payoutRefFor(kind, id)" of each
  Approvals,    \* approval row ids (a bound on how many are ever opened)
  Handlers,     \* requests that can be in progress at once
  Events,       \* wallet_events row ids
  Txs,          \* transactions that can ever be built (a bound)
  Full,         \* Full[s]: the price of subject s, in luna
  ShareBps,     \* the partial shares a grown-up may commit, in basis points
  Opaque,       \* TRUE: the wallet cannot hand back the bytes it signs
  TornWriteOff, \* TRUE: a crash may fall between the writes of a write-off
  None

Refs == Subjects \cup Events  \* "chore:<id>", and "repay:<event id>"

ASSUME ServerPayoutAssumption ==
  /\ Full \in [Subjects -> Nat]
  /\ ShareBps \subseteq Nat
  /\ Opaque \in BOOLEAN /\ TornWriteOff \in BOOLEAN
  /\ Subjects \cap Events = {}
  /\ None \notin Subjects \cup Approvals \cup Handlers \cup Events \cup Txs
  /\ "sweeper" \notin Handlers \cup {None}

VARIABLES
  chore,     \* chores.status
  approval,  \* approvals rows
  attempt,   \* payout_attempts rows, by payout_ref
  event,     \* wallet_events rows of kind 'earn', with their wallet_state keys
  tx,        \* every transaction built, and what the chain has done with it
  lock,      \* family spend lock: holder first, then the queue
  task,      \* the handlers' local state
  sweep,     \* the sweep's local state
  handin,    \* chores whose hand-in passed its check and has not written yet
  cpu        \* who is between two durable writes of one stretch, if anybody

vars == <<chore, approval, attempt, event, tx, lock, task, sweep, handin, cpu>>
db == <<chore, approval, attempt, event>>

-----------------------------------------------------------------------------
(* Rows that are not there, and the helpers the routes read.               *)

NoApproval == [status |-> "none", of |-> None, share |-> None]
NoAttempt  == [status |-> "none", bytes |-> None]
NoEvent    == [status |-> "none", ref |-> None, retired |-> None,
               repaid |-> FALSE, pays |-> None, value |-> 0, hash |-> None]
NoTx       == [state |-> "none", pays |-> None, ref |-> None, value |-> 0]
Idle       == [pc |-> "idle", act |-> None, appr |-> None, pays |-> None,
               ref |-> None, ev |-> None, value |-> 0, tx |-> None]
NoSweep    == [ev |-> None, step |-> "idle", key |-> None]

\* Partial credit: floor, never round.
ApplyShare(full, bps) ==
  IF bps = None \/ bps >= 10000 THEN full ELSE (full * bps) \div 10000

PendingApprovals(s) ==
  {a \in Approvals : approval[a].status = "pending" /\ approval[a].of = s}

RowsFor(r) == {e \in Events : event[e].ref = r}   \* walletEventForPayoutRef

LandedOnlyWithRow(r) == RowsFor(r) # {}   \* slip: forgets claims in flight

PayoutMayHaveLanded(r) ==
  RowsFor(r) # {} \/ attempt[r].status = "in_flight"

\* May this attempt be made again?  Not when its bytes are gone.
PayoutRetryIsSafe(row) == row.status = "in_flight" => row.bytes # None

FreeApprovals == {a \in Approvals : approval[a].status = "none"}
FreeTxs == {t \in Txs : tx[t].state = "none"}
FreeEvents == {e \in Events : event[e].status = "none"}

\* Room for one more approval row beside those direct approvals may yet open.
RoomToOpen ==
  Cardinality(FreeApprovals) > Cardinality({h \in Handlers : task[h].act = "direct"})

OpenApproval(a, s) ==  \* the row openApproval answers with
  IF PendingApprovals(s) # {} THEN a \in PendingApprovals(s) ELSE a \in FreeApprovals

Holder(h) == lock # <<>> /\ Head(lock) = h
Free == cpu = None
Runs(h, pc) == cpu \in {None, h} /\ task[h].pc = pc

Goto(h, pc) == task' = [task EXCEPT ![h].pc = pc]
\* The request is answered: the lock goes to the next in the queue.
Leave(h) == task' = [task EXCEPT ![h] = Idle] /\ lock' = Tail(lock)

-----------------------------------------------------------------------------
Init ==
  /\ chore = [s \in Subjects |-> "open"]
  /\ approval = [a \in Approvals |-> NoApproval]
  /\ attempt = [r \in Refs |-> NoAttempt]
  /\ event = [e \in Events |-> NoEvent]
  /\ tx = [t \in Txs |-> NoTx]
  /\ lock = <<>>
  /\ task = [h \in Handlers |-> Idle]
  /\ sweep = NoSweep
  /\ handin = {}
  /\ cpu = None

-----------------------------------------------------------------------------
(* The kid hands a chore in, and a grown-up says no to it.                 *)

\* The chore's status is read, and then the caller's token is looked up.
StartSubmit(s) ==
  /\ Free
  /\ chore[s] # "approved" /\ s \notin handin
  /\ handin' = handin \cup {s}
  /\ UNCHANGED <<db, tx, lock, task, sweep, cpu>>

Submit(s) ==
  /\ Free /\ RoomToOpen
  /\ s \in handin
  /\ handin' = handin \ {s}
  /\ chore' = [chore EXCEPT ![s] = "submitted"]
  /\ \E a \in Approvals :
       /\ OpenApproval(a, s)
       /\ approval' = [approval EXCEPT ![a] =
            IF PendingApprovals(s) # {} THEN @
            ELSE [status |-> "pending", of |-> s, share |-> None]]
  /\ UNCHANGED <<attempt, event, tx, lock, task, sweep, cpu>>

Reject(a) ==
  /\ Free
  /\ approval[a].status = "pending"
  /\ ~ PayoutMayHaveLanded(approval[a].of)
  /\ approval' = [approval EXCEPT ![a].status = "rejected"]
  /\ chore' = [chore EXCEPT ![approval[a].of] = "rejected"]
  /\ UNCHANGED <<attempt, event, tx, lock, task, sweep, cpu, handin>>

\* POST /chores/:id/reject looks at no status, only at the payout.
DirectReject(s) ==
  /\ Free
  /\ ~ PayoutMayHaveLanded(s)
  /\ approval' = [a \in Approvals |->
       IF a \in PendingApprovals(s) THEN [approval[a] EXCEPT !.status = "rejected"]
       ELSE approval[a]]
  /\ chore' = [chore EXCEPT ![s] = "rejected"]
  /\ UNCHANGED <<attempt, event, tx, lock, task, sweep, cpu, handin>>

-----------------------------------------------------------------------------
(* A paying request: POST /approvals/:id/approve, POST /chores/:id/approve *)
(* or POST /family/earns/:id/repay.  Each checks its subject, then queues  *)
(* for the family spend lock.                                              *)

Enqueue(h, t) ==
  /\ Free
  /\ task[h].pc = "idle"
  /\ task' = [task EXCEPT ![h] = t]
  /\ lock' = Append(lock, h)
  /\ UNCHANGED <<db, tx, sweep, cpu, handin>>

StartApprove(h, a) ==
  /\ approval[a].status = "pending"
  /\ Enqueue(h, [Idle EXCEPT !.pc = "queued", !.act = "approve", !.appr = a,
                             !.pays = approval[a].of, !.ref = approval[a].of])

StartDirect(h, s) ==
  /\ chore[s] # "approved" /\ RoomToOpen
  /\ Enqueue(h, [Idle EXCEPT !.pc = "queued", !.act = "direct", !.pays = s, !.ref = s])

StartRepay(h, e) ==
  /\ event[e].status = "failed"
  /\ Enqueue(h, [Idle EXCEPT !.pc = "queued", !.act = "repay", !.ev = e,
                             !.pays = event[e].pays])

\* The lock is granted: everything the route checked is checked again.
StillWanted(h) ==
  CASE task[h].act = "approve" -> approval[task[h].appr].status = "pending"
    [] task[h].act = "direct"  -> chore[task[h].pays] # "approved"
    [] task[h].act = "repay"   -> event[task[h].ev].status = "failed" /\ ~ event[task[h].ev].repaid

TurnAway(h) ==
  /\ Free /\ Holder(h) /\ task[h].pc = "queued"
  /\ ~ StillWanted(h)
  /\ Leave(h)
  /\ UNCHANGED <<db, tx, sweep, cpu, handin>>

\* Money that moved already is not charged to the budget again.
NextAfterPrice(h, value) ==
  IF value > 0 /\ (task[h].act = "repay" \/ ~ PayoutMayHaveLanded(task[h].ref))
  THEN "funds" ELSE "decide"

PriceBeforeShare(h, share) ==   \* slip: the row is not read again
  CASE task[h].act = "approve" -> ApplyShare(Full[task[h].pays], approval[task[h].appr].share)
    [] task[h].act = "direct"  -> Full[task[h].pays]
    [] task[h].act = "repay"   -> event[task[h].ev].value

\* What the request will pay, with its card's share as just committed.
Price(h, share) ==
  CASE task[h].act = "approve" -> ApplyShare(Full[task[h].pays], share)
    [] task[h].act = "direct"  -> Full[task[h].pays]
    [] task[h].act = "repay"   -> event[task[h].ev].value

Enter(h) ==
  /\ Free /\ Holder(h) /\ task[h].pc = "queued"
  /\ StillWanted(h)
  /\ \E bps \in ShareBps \cup {None} :
       /\ bps # None => task[h].act = "approve" /\ approval[task[h].appr].share = None
       /\ approval' = IF bps = None THEN approval
                      ELSE [approval EXCEPT ![task[h].appr].share = bps]
       /\ LET value == Price(h, IF task[h].act = "approve" THEN approval'[task[h].appr].share
                                ELSE None)
          IN task' = [task EXCEPT ![h].pc = NextAfterPrice(h, value), ![h].value = value]
  /\ UNCHANGED <<chore, attempt, event, tx, lock, sweep, cpu, handin>>

\* A second share on one card is refused before anything else is looked at.
ShareAlreadySet(h) ==
  /\ Free /\ Holder(h) /\ task[h].pc = "queued"
  /\ ShareBps # {} /\ task[h].act = "approve"
  /\ StillWanted(h) /\ approval[task[h].appr].share # None
  /\ Leave(h)
  /\ UNCHANGED <<db, tx, sweep, cpu, handin>>

\* checkPayable answered: the family can fund it, or it cannot.
Fundable(h) ==
  /\ Free /\ task[h].pc = "funds"
  /\ Goto(h, "decide")
  /\ UNCHANGED <<db, tx, lock, sweep, cpu, handin>>

NotFundable(h) ==
  /\ Free /\ task[h].pc = "funds"
  /\ Leave(h)
  /\ UNCHANGED <<db, tx, sweep, cpu, handin>>

-----------------------------------------------------------------------------
(* The decision, which only a still pending row takes, and then the look   *)
(* at the ledger payKidEarn starts with.                                   *)

NoLedgerCheck(h, r) == IF task[h].value = 0 THEN "subject" ELSE "wallet"   \* slip

AfterLedgerCheck(h, r) ==
  IF task[h].value = 0 THEN "subject"
  ELSE IF RowsFor(r) = {} THEN "wallet"
  ELSE IF task[h].act = "repay" THEN "mark" ELSE "subject"

DecideApprove(h, a) ==
  /\ Free /\ task[h].pc = "decide"
  /\ \/ task[h].act = "approve" /\ a = task[h].appr /\ approval[a].status = "pending"
     \/ task[h].act = "direct" /\ OpenApproval(a, task[h].pays)
  /\ approval' = [approval EXCEPT ![a] = [@ EXCEPT !.status = "approved", !.of = task[h].pays]]
  /\ task' = [task EXCEPT ![h].pc = AfterLedgerCheck(h, task[h].ref), ![h].appr = a]
  /\ UNCHANGED <<chore, attempt, event, tx, lock, sweep, cpu, handin>>

DecideRepay(h) ==
  /\ Free /\ task[h].pc = "decide" /\ task[h].act = "repay"
  /\ LET e == task[h].ev
         r == IF event[e].retired # None THEN event[e].retired ELSE e
     IN task' = [task EXCEPT ![h].pc = AfterLedgerCheck(h, r), ![h].ref = r]
  /\ UNCHANGED <<db, tx, lock, sweep, cpu, handin>>

\* A reject won while the funds were being read.
AlreadyDecided(h) ==
  /\ Free /\ task[h].pc = "decide" /\ task[h].act = "approve"
  /\ approval[task[h].appr].status # "pending"
  /\ Leave(h)
  /\ UNCHANGED <<db, tx, sweep, cpu, handin>>

-----------------------------------------------------------------------------
(* broadcastPayoutExactlyOnce.                                             *)

\* The payout threw.  An approval goes back in the queue when the recorded
\* attempt says a retry is safe; the partial unique index on pending rows
\* makes that write fail when the kid has handed the chore in again.
Reopened(h) ==
  IF /\ task[h].act # "repay"
     /\ PayoutRetryIsSafe(attempt'[task[h].ref])
     /\ approval[task[h].appr].status = "approved"
     /\ PendingApprovals(task[h].pays) = {}
  THEN [approval EXCEPT ![task[h].appr].status = "pending", ![task[h].appr].share = None]
  ELSE approval

ThrowHoldingLock(h) ==   \* slip: the chain waits on the result, not on the end
  /\ approval' = Reopened(h)
  /\ task' = [task EXCEPT ![h] = Idle]
  /\ UNCHANGED <<chore, event, tx, lock, sweep, cpu, handin>>

Throw(h) ==
  /\ approval' = Reopened(h)
  /\ Leave(h)
  /\ UNCHANGED <<chore, event, tx, sweep, cpu, handin>>

\* Bytes are on the wire already and cannot be reproduced: stop.
Unresolved(h) ==
  /\ Free /\ task[h].pc = "wallet"
  /\ ~ PayoutRetryIsSafe(attempt[task[h].ref])
  /\ UNCHANGED attempt
  /\ Throw(h)

Replay(h) ==
  /\ Free /\ task[h].pc = "wallet"
  /\ attempt[task[h].ref].status = "in_flight" /\ attempt[task[h].ref].bytes # None
  /\ task' = [task EXCEPT ![h].pc = "wire", ![h].tx = attempt[task[h].ref].bytes]
  /\ UNCHANGED <<db, tx, lock, sweep, cpu, handin>>

ClaimAnyway(h) ==   \* slip: a claim in flight is not looked at
  /\ Free /\ task[h].pc = "wallet"
  /\ attempt' = [attempt EXCEPT ![task[h].ref] =
       IF @.status = "none" THEN [NoAttempt EXCEPT !.status = "preparing"] ELSE @]
  /\ Goto(h, "prepare")
  /\ UNCHANGED <<chore, approval, event, tx, lock, sweep, cpu, handin>>

\* INSERT OR IGNORE: a claim left by a crash is taken over as it stands.
Claim(h) ==
  /\ Free /\ task[h].pc = "wallet"
  /\ attempt[task[h].ref].status # "in_flight"
  /\ attempt' = [attempt EXCEPT ![task[h].ref] =
       IF @.status = "none" THEN [NoAttempt EXCEPT !.status = "preparing"] ELSE @]
  /\ Goto(h, "prepare")
  /\ UNCHANGED <<chore, approval, event, tx, lock, sweep, cpu, handin>>

ArmLater(h, t) ==   \* slip: broadcast first, record the bytes afterwards
  /\ Free /\ task[h].pc = "prepare"
  /\ t \in FreeTxs
  /\ tx' = [tx EXCEPT ![t] = [state |-> "held", pays |-> task[h].pays,
                              ref |-> task[h].ref, value |-> task[h].value]]
  /\ task' = [task EXCEPT ![h].pc = "wire", ![h].tx = t]
  /\ UNCHANGED <<db, lock, sweep, cpu, handin>>

\* Signed, made durable, and only then handed to the node.
Arm(h, t) ==
  /\ Free /\ task[h].pc = "prepare"
  /\ t \in FreeTxs
  /\ tx' = [tx EXCEPT ![t] = [state |-> "held", pays |-> task[h].pays,
                              ref |-> task[h].ref, value |-> task[h].value]]
  /\ attempt' = [attempt EXCEPT ![task[h].ref] =
       IF @.status = "none" THEN @
       ELSE [status |-> "in_flight", bytes |-> IF Opaque THEN None ELSE t]]
  /\ task' = [task EXCEPT ![h].pc = "wire", ![h].tx = t]
  /\ UNCHANGED <<chore, approval, event, lock, sweep, cpu, handin>>

\* Nothing was built, so nothing was sent: the claim is released.
PrepareFails(h) ==
  /\ Free /\ task[h].pc = "prepare" /\ ~ Opaque
  /\ attempt' = [attempt EXCEPT ![task[h].ref] = IF @.status = "preparing" THEN NoAttempt ELSE @]
  /\ Throw(h)

\* The node's answer never came, or was a refusal.
BroadcastFails(h) ==
  /\ Free /\ task[h].pc = "wire"
  /\ UNCHANGED attempt
  /\ Throw(h)

\* The node answered with the hash: the ledger row, then the attempt.
WriteRow(h, e) ==
  /\ Free /\ task[h].pc = "wire"
  /\ tx[task[h].tx].state \notin {"none", "held"}
  /\ e \in FreeEvents
  /\ event' = [event EXCEPT ![e] =
       [status |-> "pending", ref |-> task[h].ref, retired |-> None, repaid |-> FALSE,
        pays |-> task[h].pays, value |-> task[h].value, hash |-> task[h].tx]]
  /\ cpu' = h
  /\ Goto(h, "settle")
  /\ UNCHANGED <<chore, approval, attempt, tx, lock, sweep, handin>>

SettleAsDone(h) ==   \* slip: a status the schema does not have
  /\ Runs(h, "settle")
  /\ attempt' = [attempt EXCEPT ![task[h].ref].status = "done"]
  /\ cpu' = None
  /\ Goto(h, "subject")
  /\ UNCHANGED <<chore, approval, event, tx, lock, sweep, handin>>

SettleAttempt(h) ==
  /\ Runs(h, "settle")
  /\ attempt' = [attempt EXCEPT ![task[h].ref].status = IF @ = "none" THEN @ ELSE "settled"]
  /\ cpu' = None
  /\ Goto(h, IF task[h].act = "repay" THEN "mark" ELSE "subject")
  /\ UNCHANGED <<chore, approval, event, tx, lock, sweep, handin>>

\* Paid, so the subject is settled: the last write of an approval.
SettleSubject(h) ==
  /\ Free /\ task[h].pc = "subject"
  /\ chore' = [chore EXCEPT ![task[h].pays] = "approved"]
  /\ Leave(h)
  /\ UNCHANGED <<approval, attempt, event, tx, sweep, cpu, handin>>

\* One repay per written-off row.
MarkRepaid(h) ==
  /\ Free /\ task[h].pc = "mark"
  /\ event' = [event EXCEPT ![task[h].ev].repaid = TRUE]
  /\ Leave(h)
  /\ UNCHANGED <<chore, approval, attempt, tx, sweep, cpu, handin>>

-----------------------------------------------------------------------------
(* The sweep reads one receipt per pending row and acts on the answer.     *)

ImpatientReceipt(t) ==   \* slip: no proof yet is read as proof of failure
  IF tx[t].state = "executed" THEN "executed" ELSE "rejected"

Receipt(t) == IF tx[t].state \in {"executed", "rejected"} THEN tx[t].state ELSE "unknown"

AskReceipt(e) ==
  /\ Free /\ sweep.ev = None
  /\ event[e].status = "pending"
  /\ \E answer \in {Receipt(event[e].hash), "unavailable"} :
       sweep' = [ev |-> e, step |-> answer, key |-> None]
  /\ UNCHANGED <<db, tx, lock, task, cpu, handin>>

Confirm ==
  /\ Free /\ sweep.step = "executed"
  /\ event' = [event EXCEPT ![sweep.ev].status = "done"]
  /\ sweep' = NoSweep
  /\ UNCHANGED <<chore, approval, attempt, tx, lock, task, cpu, handin>>

SweepNeverEnds ==   \* slip: the single-flight flag is not cleared
  /\ Free /\ sweep.step \in {"unknown", "unavailable"}
  /\ UNCHANGED vars

\* Not proven either way: an alert at most, never a write-off.
KeepWaiting ==
  /\ Free /\ sweep.step \in {"unknown", "unavailable"}
  /\ sweep' = NoSweep
  /\ UNCHANGED <<db, tx, lock, task, cpu, handin>>

\* markWalletEventFailed: the row fails and gives up its key ...
WriteOffRow ==
  /\ Free /\ sweep.step = "rejected"
  /\ event' = [event EXCEPT ![sweep.ev].status = "failed", ![sweep.ev].ref = None]
  /\ sweep' = [sweep EXCEPT !.step = "key", !.key = event[sweep.ev].ref]
  /\ cpu' = "sweeper"
  /\ UNCHANGED <<chore, approval, attempt, tx, lock, task, handin>>

\* ... the key is remembered, for the repay to take back ...
WriteOffKey ==
  /\ sweep.step = "key"
  /\ event' = [event EXCEPT ![sweep.ev].retired = sweep.key]
  /\ sweep' = [sweep EXCEPT !.step = "claim"]
  /\ UNCHANGED <<chore, approval, attempt, tx, lock, task, cpu, handin>>

\* ... and the claim behind it is deleted.
WriteOffClaim ==
  /\ sweep.step = "claim"
  /\ attempt' = [attempt EXCEPT ![sweep.key] = NoAttempt]
  /\ sweep' = NoSweep
  /\ cpu' = None
  /\ UNCHANGED <<chore, approval, event, tx, lock, task, handin>>

-----------------------------------------------------------------------------
(* The chain.  Durable bytes may have been handed over before a crash or a *)
(* lost answer, and a node may still take them then.                       *)

Reach(t) ==
  /\ tx[t].state = "held"
  /\ tx' = [tx EXCEPT ![t].state = "pool"]
  /\ UNCHANGED <<db, lock, task, sweep, cpu, handin>>

Include(t) ==
  /\ tx[t].state = "pool"
  /\ \E outcome \in {"executed", "rejected"} : tx' = [tx EXCEPT ![t].state = outcome]
  /\ UNCHANGED <<db, lock, task, sweep, cpu, handin>>

\* The process dies and restarts: the lock and every handler are gone.
Crash ==
  /\ TornWriteOff \/ cpu # "sweeper"
  /\ lock # <<>> \/ sweep # NoSweep \/ handin # {}
  /\ handin' = {}
  /\ lock' = <<>>
  /\ task' = [h \in Handlers |-> Idle]
  /\ sweep' = NoSweep
  /\ cpu' = None
  /\ UNCHANGED <<db, tx>>

-----------------------------------------------------------------------------
StartRequest(h) ==
  \/ \E a \in Approvals : StartApprove(h, a)
  \/ \E s \in Subjects : StartDirect(h, s)
  \/ \E e \in Events : StartRepay(h, e)

Advance(h) ==
  \/ TurnAway(h) \/ ShareAlreadySet(h) \/ Enter(h)
  \/ Fundable(h) \/ NotFundable(h)
  \/ \E a \in Approvals : DecideApprove(h, a)
  \/ DecideRepay(h) \/ AlreadyDecided(h)
  \/ Unresolved(h) \/ Replay(h) \/ Claim(h)
  \/ \E t \in Txs : Arm(h, t)
  \/ PrepareFails(h) \/ BroadcastFails(h)
  \/ \E e \in Events : WriteRow(h, e)
  \/ SettleAttempt(h) \/ SettleSubject(h) \/ MarkRepaid(h)

ActOnReceipt == Confirm \/ KeepWaiting \/ WriteOffRow \/ WriteOffKey \/ WriteOffClaim

Next ==
  \/ \E s \in Subjects : StartSubmit(s) \/ Submit(s) \/ DirectReject(s)
  \/ \E a \in Approvals : Reject(a)
  \/ \E h \in Handlers : StartRequest(h) \/ Advance(h)
  \/ \E e \in Events : AskReceipt(e)
  \/ ActOnReceipt
  \/ \E t \in Txs : Reach(t) \/ Include(t)
  \/ Crash

Spec == Init /\ [][Next]_vars

-----------------------------------------------------------------------------
(* Every value has its type.                                               *)

ApprovalRow == [status : {"none", "pending", "approved", "rejected"},
                of : Subjects \cup {None}, share : ShareBps \cup {None}]

AttemptRow == [status : {"none", "preparing", "in_flight", "settled"}, bytes : Txs \cup {None}]

EventRow == [status : {"none", "pending", "done", "failed"}, ref : Refs \cup {None},
             retired : Refs \cup {None}, repaid : BOOLEAN, pays : Subjects \cup {None},
             value : Nat, hash : Txs \cup {None}]

Transaction == [state : {"none", "held", "pool", "executed", "rejected"},
                pays : Subjects \cup {None}, ref : Refs \cup {None}, value : Nat]

Pcs == {"idle", "queued", "funds", "decide", "wallet", "prepare", "wire", "settle",
        "subject", "mark"}

Task == [pc : Pcs,
         act : {"approve", "direct", "repay", None}, appr : Approvals \cup {None},
         pays : Subjects \cup {None}, ref : Refs \cup {None}, ev : Events \cup {None},
         value : Nat, tx : Txs \cup {None}]

Sweep == [ev : Events \cup {None}, key : Refs \cup {None},
          step : {"idle", "executed", "rejected", "unknown", "unavailable", "key", "claim"}]

TypeOK ==
  /\ chore \in [Subjects -> {"open", "submitted", "approved", "rejected"}]
  /\ approval \in [Approvals -> ApprovalRow]
  /\ attempt \in [Refs -> AttemptRow]
  /\ event \in [Events -> EventRow]
  /\ tx \in [Txs -> Transaction]
  /\ lock \in Seq(Handlers)
  /\ task \in [Handlers -> Task]
  /\ sweep \in Sweep
  /\ handin \subseteq Subjects
  /\ cpu \in Handlers \cup {"sweeper", None}

-----------------------------------------------------------------------------
(* Safety.                                                                 *)

\* Every transaction ever built for the work and not proven to move nothing.
Alive(t) == tx[t].state \in {"held", "pool", "executed"}
AliveFor(s) == {t \in Txs : Alive(t) /\ tx[t].pays = s}

\* A piece of work is never paid twice, and never even has two transactions
\* that could both still pay it -- across lost answers, retries, crashes,
\* write-offs, repays and redone chores (kid-wallet.ts: "at most ONE
\* transaction is ever put on the wire for a given ref").
AtMostOncePaid ==
  \A s \in Subjects : \A t, u \in AliveFor(s) : t = u

\* Money that moved or may still move is never invisible to the guards that
\* ask payoutMayHaveLanded before charging a budget or rejecting a chore.
NothingUntracked ==
  \A t \in Txs : Alive(t) => PayoutMayHaveLanded(tx[t].ref)

\* The kid's ledger credits a piece of work once: a row still standing is the
\* only one, even when retries and repays of it overlap.
CreditedOnce ==
  \A e, f \in Events :
    /\ event[e].status \in {"pending", "done"} /\ event[f].status \in {"pending", "done"}
    /\ event[e].pays = event[f].pays
    => e = f

\* Only what the chain proved failed is written off, so only that can be repaid.
OnlyProvenFailuresWrittenOff ==
  \A e \in Events : event[e].status = "failed" => tx[event[e].hash].state = "rejected"

\* New money for a card is signed at the card's price as it stands at that
\* moment, whole or shared, however long the funds and the wallet took.  Bytes
\* sent again are not new: they keep the price they were armed at, even when the
\* card went back to the queue in between and lost its share.
SignedAtTheCardsPrice ==
  [][\A h \in Handlers, t \in Txs :
       /\ task[h].act = "approve" /\ task[h].pc = "prepare"
       /\ tx[t].state = "none" /\ tx'[t].state # "none"
       => tx'[t].value = ApplyShare(Full[task[h].pays], approval[task[h].appr].share)]_vars

\* No step turns a chore down while its payment may still arrive: the kid would
\* keep the money and lose the chore.
RejectNeverBesidePayment ==
  [][\A s \in Subjects : chore[s] # "rejected" /\ chore'[s] = "rejected" => AliveFor(s) = {}]_vars

-----------------------------------------------------------------------------
(* The abstract promise, and the state of it this state stands for.        *)

WrittenOff(t) == \E e \in Events : event[e].status = "failed" /\ event[e].hash = t
Current(s) == {t \in Txs : tx[t].state # "none" /\ tx[t].pays = s /\ ~ WrittenOff(t)}
Standing(s) == {e \in Events : event[e].pays = s /\ event[e].status \in {"pending", "done"}}

MoneyOf(s) ==
  IF Current(s) = {} THEN "owed"
  ELSE IF Cardinality(Current(s)) > 1 THEN "twice"
  ELSE LET t == CHOOSE t \in Current(s) : TRUE
       IN CASE tx[t].state = "executed" -> "paid"
            [] tx[t].state = "rejected" -> "bounced"
            [] OTHER -> "moving"

RowOf(s) ==
  IF Standing(s) = {} THEN "none"
  ELSE IF Cardinality(Standing(s)) > 1 THEN "twice"
  ELSE event[CHOOSE e \in Standing(s) : TRUE].status

Promise == INSTANCE PayOnce WITH
  Works <- Subjects,
  money <- [s \in Subjects |-> MoneyOf(s)],
  row   <- [s \in Subjects |-> RowOf(s)]

\* Every step of the payout machinery is a step of the promise, or none.
PaysOnce == Promise!Spec

-----------------------------------------------------------------------------
(* Liveness.  Every await of a request ends, because the RPC calls carry a *)
(* timeout; the sweep runs on an interval, the node answers it sometimes,  *)
(* and the process does not die inside every sweep that got an answer.     *)

Fairness ==
  /\ \A h \in Handlers : WF_vars(Advance(h))
  /\ WF_vars(ActOnReceipt) /\ SF_vars(Confirm)
  /\ \A e \in Events : SF_vars(AskReceipt(e) /\ sweep'.step # "unavailable")

FairSpec == Spec /\ Fairness

\* Whoever waits for the family spend lock is answered, one way or another.
EveryRequestAnswered ==
  \A h \in Handlers : task[h].pc = "queued" ~> task[h].pc = "idle"

\* A payment the chain executed stops being "on its way" in the kid's ledger.
ExecutedRowsConfirmed ==
  \A e \in Events :
    (event[e].status = "pending" /\ tx[event[e].hash].state = "executed") ~> event[e].status = "done"
=============================================================================
