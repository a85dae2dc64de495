------------------------- MODULE ParentPayoutProofs -------------------------
(***************************************************************************)
(* Proofs about ParentPayout, for every number of chores, requests,        *)
(* intents, purchases and ledger rows: first what is signed and approved,  *)
(* then what intents, cleared debts and purchases add up to -- the latter  *)
(* while no claim is released by a server-signed repay and no relay is let *)
(* through in the very tick its intent expires.                            *)
(***************************************************************************)
EXTENDS ParentPayoutInvariant, SumLemmas, TLAPS

-----------------------------------------------------------------------------
(* Types.                                                                  *)

\* A price, whole or shared, is at least one luna.
LEMMA SharePrice ==
  ASSUME NEW c \in Chores, NEW bps \in ShareBps \cup {None}
  PROVE  ApplyShare(Price[c], bps) \in Nat /\ ApplyShare(Price[c], bps) > 0
<1>1. Price[c] \in Nat /\ Price[c] > 0
  BY ParentPayoutAssumption DEF ParentPayoutAssumption
<1>2. CASE bps = None
  BY <1>1, <1>2 DEF ApplyShare
<1>3. CASE bps # None
  <2>1. bps \in Nat /\ bps \in ShareBps
    BY <1>3, ParentPayoutAssumption DEF ParentPayoutAssumption
  <2>2. Price[c] * bps >= 10000
    BY <2>1, ParentPayoutAssumption DEF ParentPayoutAssumption
  <2>3. Price[c] * bps \in Nat
    BY <1>1, <2>1, SMT
  <2>4. \A n \in Nat : n >= 10000 => n \div 10000 \in Nat /\ n \div 10000 > 0
    BY SMT
  <2> QED BY <1>3, <2>2, <2>3, <2>4 DEF ApplyShare
<1> QED BY <1>2, <1>3

\* What a claim pins is a number.
LEMMA PinnedType ==
  ASSUME TypeOK
  PROVE  \A c \in Chores : Pinned[c] \in Nat
  BY DEF TypeOK, Pinned, AttemptRow, Intent

\* What a mint may net is a number, whatever the debts add up to.
LEMMA NettableType ==
  ASSUME TypeOK, NEW at
  PROVE  /\ CommittedDebt \in Int /\ ReservedNetting(at) \in Nat
         /\ NettableDebt(at) \in Nat
<1>1. \A p \in Purchases : Cost[p] \in Int
  BY ParentPayoutAssumption DEF ParentPayoutAssumption
<1>2. IsFiniteSet({p \in Purchases : debit[p] \in {"purchase"}})
  BY FS_Subset, ParentPayoutAssumption DEF ParentPayoutAssumption
<1>3. Debts({"purchase"}) \in Int
  BY <1>1, <1>2, SumType DEF Debts
<1>4. IsFiniteSet(Chores) /\ IsFiniteSet({c \in Chores : Reserves(c, at)})
  BY FS_Subset, ParentPayoutAssumption DEF ParentPayoutAssumption
<1>5. Settled \in Int
  BY <1>4, SumType DEF Settled, TypeOK
<1>6. ReservedNetting(at) \in Nat
  BY <1>4, PinnedType, SumNat DEF ReservedNetting
<1>7. CommittedDebt \in Int
  BY <1>3, <1>5 DEF CommittedDebt
<1> QED BY <1>6, <1>7 DEF NettableDebt

\* A netting is never more than the payout or the debt.
LEMMA NettedType ==
  ASSUME NEW gross \in Nat, NEW debt \in Nat
  PROVE  NettedOf(gross, debt) \in Nat /\ NettedOf(gross, debt) <= gross /\ NettedOf(gross, debt) <= debt
  BY DEF NettedOf

\* Writing one field of a row leaves a well-typed table.
LEMMA TaskFields ==
  ASSUME NEW f \in [Handlers -> Task], NEW h \in Handlers
  PROVE  /\ \A p \in Pcs : [f EXCEPT ![h].pc = p] \in [Handlers -> Task]
         /\ \A m \in Intents \cup {None} : [f EXCEPT ![h].tx = m] \in [Handlers -> Task]
         /\ \A t \in Task : [f EXCEPT ![h] = t] \in [Handlers -> Task]
  BY SMT DEF Task

\* The same for an approval row ...
LEMMA ApprovalFields ==
  ASSUME NEW f \in [Approvals -> ApprovalRow], NEW a \in Approvals
  PROVE  /\ \A v \in {"none", "pending", "approved", "rejected"} :
              [f EXCEPT ![a].status = v] \in [Approvals -> ApprovalRow]
         /\ \A b \in ShareBps \cup {None} : [f EXCEPT ![a].share = b] \in [Approvals -> ApprovalRow]
         /\ \A r \in ApprovalRow : [f EXCEPT ![a] = r] \in [Approvals -> ApprovalRow]
  BY SMT DEF ApprovalRow

\* ... an intent ...
LEMMA IntentFields ==
  ASSUME NEW f \in [Intents -> Intent], NEW m \in Intents
  PROVE  /\ \A v \in {"none", "offered", "held", "pool", "executed", "rejected"} :
              [f EXCEPT ![m].state = v] \in [Intents -> Intent]
         /\ \A i \in Intent : [f EXCEPT ![m] = i] \in [Intents -> Intent]
  BY SMT DEF Intent

\* ... a claim ...
LEMMA AttemptFields ==
  ASSUME NEW f \in [Chores -> AttemptRow], NEW c \in Chores
  PROVE  /\ \A v \in {"none", "preparing", "in_flight", "settled"} :
              [f EXCEPT ![c].status = v] \in [Chores -> AttemptRow]
         /\ \A r \in AttemptRow : [f EXCEPT ![c] = r] \in [Chores -> AttemptRow]
         /\ f[c] \in AttemptRow /\ NoAttempt \in AttemptRow
  BY SMT DEF AttemptRow, NoAttempt

\* ... and a ledger row.
LEMMA EventFields ==
  ASSUME NEW f \in [Events -> EventRow], NEW e \in Events
  PROVE  /\ \A v \in {"none", "pending", "done", "failed"} :
              [f EXCEPT ![e].status = v] \in [Events -> EventRow]
         /\ \A b \in BOOLEAN : [f EXCEPT ![e].held = b] \in [Events -> EventRow]
         /\ \A b \in BOOLEAN : [f EXCEPT ![e].repaid = b] \in [Events -> EventRow]
         /\ \A r \in EventRow : [f EXCEPT ![e] = r] \in [Events -> EventRow]
  BY SMT DEF EventRow

\* Opening an approval leaves a well-typed table.
LEMMA OpenedType ==
  ASSUME TypeOK, NEW a \in Approvals, NEW c \in Chores, Opened(a, c)
  PROVE  approval' \in [Approvals -> ApprovalRow]
<1>1. [status |-> "pending", of |-> c, share |-> None] \in ApprovalRow
  BY DEF ApprovalRow
<1>2. CASE PendingApprovals(c) # {}
  BY <1>2 DEF Opened, TypeOK
<1>3. CASE PendingApprovals(c) = {}
  <2>1. approval' = [approval EXCEPT ![a] = [status |-> "pending", of |-> c, share |-> None]]
    BY <1>3 DEF Opened
  <2>2. approval \in [Approvals -> ApprovalRow]
    BY DEF TypeOK
  <2> QED BY <1>1, <2>1, <2>2, ApprovalFields
<1> QED BY <1>2, <1>3

\* A bulk decision on the cards of a chore.
LEMMA DecidedType ==
  ASSUME TypeOK, NEW v \in {"none", "pending", "approved", "rejected"}, NEW S
  PROVE  [a \in Approvals |-> IF a \in S THEN [approval[a] EXCEPT !.status = v] ELSE approval[a]]
           \in [Approvals -> ApprovalRow]
  BY DEF TypeOK, ApprovalRow

\* The request of an idle handler.
LEMMA IdleType == Idle \in Task /\ Idle.pc = "idle" /\ Idle.act = None /\ Idle.of = None
  BY DEF Idle, Task, Pcs

\* The places a request can be at, by name.
LEMMA PcsType ==
  /\ "height" \in Pcs /\ "parse" \in Pcs /\ "wire" \in Pcs /\ "row" \in Pcs /\ "settle" \in Pcs
  /\ "decide" \in Pcs /\ "finish" \in Pcs /\ "look" \in Pcs /\ "attempt" \in Pcs
  /\ "prepare" \in Pcs /\ "mark" \in Pcs
  BY DEF Pcs

\* A request that goes on or ends leaves well-typed tasks and lock.
LEMMA MoveType ==
  ASSUME TypeOK, NEW h \in Handlers
  PROVE  /\ Done(h) => task' \in [Handlers -> Task]
         /\ \A p \in Pcs : Goto(h, p) => task' \in [Handlers -> Task]
         /\ Release(h) => lock' \in Handlers \cup {None}
  BY TaskFields, IdleType DEF TypeOK, Done, Goto, Release

\* The tables start well-typed.
LEMMA TypeInit == Init => TypeOK
<1> SUFFICES ASSUME Init PROVE TypeOK
  OBVIOUS
<1> USE DEF Init
<1>1. chore \in [Chores -> {"open", "submitted", "approved", "rejected"}]
  OBVIOUS
<1>2. approval \in [Approvals -> ApprovalRow]
  BY DEF NoApproval, ApprovalRow
<1>3. attempt \in [Chores -> AttemptRow]
  BY DEF NoAttempt, AttemptRow
<1>4. intent \in [Intents -> Intent]
  BY DEF NoIntent, Intent
<1>5. event \in [Events -> EventRow]
  BY DEF NoEvent, EventRow
<1>6. task \in [Handlers -> Task]
  BY IdleType
<1>7. clock \in 0..MaxClock
  BY ParentPayoutAssumption DEF ParentPayoutAssumption
<1>8. cleared \in [Chores -> Nat] /\ debit \in [Purchases -> {"none", "hold", "purchase", "refunded"}]
  OBVIOUS
<1> QED BY <1>1, <1>2, <1>3, <1>4, <1>5, <1>6, <1>7, <1>8 DEF TypeOK

\* Every action keeps the types, given what the invariant says of its operands.
LEMMA TypeStep ==
  ASSUME TypeOK, Requests, Cards, IntentsOK, Ledger, Next
  PROVE  TypeOK'
<1> USE DEF TypeOK, board, money, world
<1>1. ASSUME NEW c \in Chores, StartSubmit(c) PROVE TypeOK'
  BY <1>1 DEF StartSubmit
<1>2. ASSUME NEW c \in Chores, Submit(c) PROVE TypeOK'
  BY <1>2, OpenedType DEF Submit
<1>3. ASSUME NEW c \in Chores, DirectReject(c) PROVE TypeOK'
  <2>1. approval' \in [Approvals -> ApprovalRow]
    BY <1>3, DecidedType DEF DirectReject
  <2> QED BY <1>3, <2>1 DEF DirectReject
<1>4. ASSUME NEW a \in Approvals, Reject(a) PROVE TypeOK'
  <2>1. approval' \in [Approvals -> ApprovalRow]
    BY <1>4, ApprovalFields DEF Reject
  <2> QED BY <1>4, <2>1 DEF Reject
<1>5. ASSUME NEW h \in Handlers, NEW a \in Approvals, StartApprove(h, a) PROVE TypeOK'
  <2>1. PICK bps \in ShareBps \cup {None} :
          /\ bps # None => approval[a].share = None
          /\ approval' = IF bps = None THEN approval ELSE [approval EXCEPT ![a].share = bps]
    BY <1>5 DEF StartApprove
  <2>2. approval' \in [Approvals -> ApprovalRow]
    BY <2>1, ApprovalFields
  <2> DEFINE gross == ApplyShare(Price[approval[a].of], approval'[a].share)
             t == [Idle EXCEPT !.pc = "height", !.act = "mint", !.of = approval[a].of,
                               !.gross = gross]
  <2>3. approval[a].of \in Chores
    BY <1>5 DEF StartApprove, Cards, ApprovalRow
  <2>4. approval'[a].share \in ShareBps \cup {None}
    BY <2>2 DEF ApprovalRow
  <2>5. gross \in Nat
    BY <2>3, <2>4, SharePrice
  <2> HIDE DEF gross
  <2>6. t \in Task
    BY <2>3, <2>5, PcsType DEF Idle, Task
  <2>7. task' = [task EXCEPT ![h] = t]
    BY <1>5 DEF StartApprove, gross
  <2> HIDE DEF t
  <2>8. task' \in [Handlers -> Task]
    BY <2>6, <2>7
  <2> QED BY <1>5, <2>2, <2>8 DEF StartApprove
<1>6. ASSUME NEW h \in Handlers, NEW c \in Chores, StartDirect(h, c) PROVE TypeOK'
  <2> DEFINE t == [Idle EXCEPT !.pc = "height", !.act = "mint", !.of = c, !.gross = Price[c]]
  <2>0. Price[c] \in Nat
    BY ParentPayoutAssumption DEF ParentPayoutAssumption
  <2>1. t \in Task
    BY <2>0, PcsType DEF Idle, Task
  <2>2. task' = [task EXCEPT ![h] = t]
    BY <1>6 DEF StartDirect
  <2> HIDE DEF t
  <2>3. task' \in [Handlers -> Task]
    BY <2>1, <2>2
  <2>4. approval' \in [Approvals -> ApprovalRow]
    BY <1>6, OpenedType DEF StartDirect
  <2> QED BY <1>6, <2>3, <2>4 DEF StartDirect
<1>7. ASSUME NEW h \in Handlers,
             NoHeight(h) \/ AlreadyClaimed(h) \/ AlreadySettled(h) \/ BroadcastFails(h)
      PROVE  TypeOK'
  BY <1>7, MoveType DEF NoHeight, AlreadyClaimed, AlreadySettled, BroadcastFails
<1>8. ASSUME NEW h \in Handlers, NEW m \in Intents, MintIntent(h, m) PROVE TypeOK'
  <2> DEFINE c == task[h].of
             netted == NettedOf(task[h].gross, NettableDebt(clock))
             row == [status |-> "preparing", intent |-> m, bytes |-> None]
             i == [state |-> "offered", of |-> c, value |-> task[h].gross - netted,
                   netted |-> netted, expires |-> clock + TTL]
  <2>1. c \in Chores
    BY <1>8 DEF MintIntent, Mintable, Requests, RequestOK, Task
  <2>2. task[h].gross \in Nat /\ NettableDebt(clock) \in Nat
    BY NettableType DEF Task
  <2>3. netted \in Nat /\ netted <= task[h].gross
    BY <2>2, NettedType
  <2>4. clock + TTL \in Nat
    BY ParentPayoutAssumption DEF ParentPayoutAssumption
  <2>5. attempt' = [attempt EXCEPT ![c] = row] /\ intent' = [intent EXCEPT ![m] = i]
    BY <1>8 DEF MintIntent
  <2> HIDE DEF netted
  <2>6. row \in AttemptRow /\ i \in Intent
    BY <2>1, <2>2, <2>3, <2>4 DEF AttemptRow, Intent
  <2> HIDE DEF row, i
  <2>7. attempt' \in [Chores -> AttemptRow] /\ intent' \in [Intents -> Intent]
    BY <2>5, <2>6
  <2> QED BY <1>8, <2>7, MoveType DEF MintIntent
<1>9. ASSUME NEW h \in Handlers, SettleWhole(h) PROVE TypeOK'
  <2>1. task[h].of \in Chores /\ task[h].gross \in Nat
    BY <1>9 DEF SettleWhole, Mintable, Requests, RequestOK, Task
  <2>2. attempt' \in [Chores -> AttemptRow]
    BY <1>9 DEF SettleWhole, NoAttempt, AttemptRow
  <2>3. cleared' \in [Chores -> Nat]
    BY <1>9, <2>1 DEF SettleWhole
  <2> QED BY <1>9, <2>2, <2>3, MoveType, PcsType DEF SettleWhole
<1>10. ASSUME NEW h \in Handlers, NEW m \in Intents, StartRelay(h, m) PROVE TypeOK'
  <2> DEFINE t == [Idle EXCEPT
               !.pc = IF RowsFor(intent[m].of) # {} THEN "decide" ELSE "parse",
               !.act = "relay", !.of = intent[m].of, !.want = attempt[intent[m].of].intent, !.tx = m]
  <2>1. intent[m].of \in Chores
    BY <1>10 DEF StartRelay, IntentsOK, IntentOK, Intent
  <2>2. attempt[intent[m].of].intent \in Intents \cup {None}
    BY <2>1 DEF AttemptRow
  <2>3. t \in Task
    BY <2>1, <2>2, PcsType DEF Idle, Task
  <2>4. task' = [task EXCEPT ![h] = t]
    BY <1>10 DEF StartRelay
  <2> HIDE DEF t
  <2>5. task' \in [Handlers -> Task]
    BY <2>3, <2>4
  <2> QED BY <1>10, <2>5 DEF StartRelay
<1>11. ASSUME NEW h \in Handlers, RefuseRelay(h) PROVE TypeOK'
  BY <1>11, MoveType DEF RefuseRelay
<1>12. ASSUME NEW h \in Handlers, ArmRelay(h) PROVE TypeOK'
  <2>1. task[h].of \in Chores /\ task[h].tx \in Intents
    BY <1>12 DEF ArmRelay, Requests, RequestOK, Task, Pcs
  <2>2. attempt' \in [Chores -> AttemptRow]
    BY <1>12, <2>1 DEF ArmRelay, AttemptRow
  <2>3. intent' \in [Intents -> Intent]
    <3> DEFINE v == IF intent[task[h].tx].state = "offered" THEN "held" ELSE intent[task[h].tx].state
    <3>1. v \in {"none", "offered", "held", "pool", "executed", "rejected"}
      BY <2>1 DEF Intent
    <3>2. intent' = [intent EXCEPT ![task[h].tx].state = v]
      BY <1>12 DEF ArmRelay
    <3> HIDE DEF v
    <3> QED BY <2>1, <3>1, <3>2, IntentFields
  <2> QED BY <1>12, <2>2, <2>3, MoveType, PcsType DEF ArmRelay
<1>13. ASSUME NEW h \in Handlers, task[h].pc # "idle"
       PROVE  task[h].of \in Chores
  BY <1>13 DEF Requests, RequestOK, Task
<1>14. ASSUME NEW h \in Handlers, ClearDebt(h) PROVE TypeOK'
  <2>1. task[h].of \in Chores /\ task[h].want \in Intents
    BY <1>14 DEF ClearDebt, Requests, RequestOK, Task
  <2>2. intent[task[h].want].netted \in Nat
    BY <2>1 DEF Intent
  <2>3. cleared' \in [Chores -> Nat]
    BY <1>14, <2>2 DEF ClearDebt
  <2> QED BY <1>14, <2>3, MoveType, PcsType DEF ClearDebt
<1>15. ASSUME NEW h \in Handlers, NEW e \in Events, WriteRow(h, e) PROVE TypeOK'
  <2> DEFINE value == IF task[h].act = "repay" THEN task[h].gross ELSE intent[task[h].want].value
             row == [status |-> "pending", of |-> task[h].of, held |-> TRUE, repaid |-> FALSE,
                     value |-> value, hash |-> task[h].tx]
  <2>1. task[h].pc = "row"
    BY <1>15 DEF WriteRow, Runs
  <2>2. task[h].act = "relay" => task[h].want \in Intents
    BY DEF Requests, RequestOK
  <2>3. task[h].act \in {"relay", "repay"}
    BY <2>1 DEF Requests, RequestOK, Task
  <2>4. value \in Nat
    BY <2>2, <2>3 DEF Intent, Task
  <2>5. event' = [event EXCEPT ![e] = row]
    BY <1>15 DEF WriteRow
  <2> HIDE DEF value
  <2>6. row \in EventRow
    BY <2>4 DEF EventRow, Task
  <2> HIDE DEF row
  <2>7. event' \in [Events -> EventRow]
    BY <2>5, <2>6
  <2> QED BY <1>15, <2>7, MoveType, PcsType DEF WriteRow
<1>16. ASSUME NEW h \in Handlers, RowTaken(h) PROVE TypeOK'
  BY <1>16, MoveType DEF RowTaken
<1>17. ASSUME NEW h \in Handlers, SettleAttempt(h) PROVE TypeOK'
  <2>1. task[h].of \in Chores
    BY <1>13, <1>17 DEF SettleAttempt, Runs
  <2>2. attempt' \in [Chores -> AttemptRow]
    BY <1>17, <2>1 DEF SettleAttempt, AttemptRow
  <2> QED BY <1>17, <2>2, MoveType, PcsType DEF SettleAttempt
<1>18. ASSUME NEW h \in Handlers, Decide(h) PROVE TypeOK'
  <2>1. approval' \in [Approvals -> ApprovalRow]
    BY <1>18, DecidedType DEF Decide
  <2> QED BY <1>18, <2>1, MoveType, PcsType DEF Decide
<1>19. ASSUME NEW h \in Handlers, Finish(h) PROVE TypeOK'
  BY <1>19, MoveType DEF Finish
<1>20. ASSUME NEW h \in Handlers, NEW e \in Events, StartRepay(h, e) PROVE TypeOK'
  <2> DEFINE t == [Idle EXCEPT !.pc = "look", !.act = "repay", !.of = event[e].of,
                               !.gross = event[e].value, !.ev = e]
  <2>1. t \in Task
    BY PcsType DEF Idle, Task, EventRow
  <2>2. task' = [task EXCEPT ![h] = t]
    BY <1>20 DEF StartRepay
  <2> HIDE DEF t
  <2>3. task' \in [Handlers -> Task]
    BY <2>1, <2>2
  <2> QED BY <1>20, <2>3 DEF StartRepay
<1>21. ASSUME NEW h \in Handlers, RepayFindsRow(h) \/ RepayFindsNone(h) \/ RepayAnswered(h)
       PROVE  TypeOK'
  BY <1>21, MoveType, PcsType DEF RepayFindsRow, RepayFindsNone, RepayAnswered
<1>22. ASSUME NEW h \in Handlers, RepayReplays(h) PROVE TypeOK'
  <2>1. task[h].of \in Chores
    BY <1>13, <1>22 DEF RepayReplays
  <2> DEFINE b == attempt[task[h].of].bytes
  <2>2. b \in Intents \cup {None}
    BY <2>1 DEF AttemptRow
  <2>3. task' = [task EXCEPT ![h].pc = "wire", ![h].tx = b]
    BY <1>22 DEF RepayReplays
  <2> HIDE DEF b
  <2>4. [task EXCEPT ![h].pc = "wire"] \in [Handlers -> Task]
    BY PcsType, TaskFields
  <2>5. task' = [[task EXCEPT ![h].pc = "wire"] EXCEPT ![h].tx = b]
    BY <2>3
  <2>6. task' \in [Handlers -> Task]
    BY <2>2, <2>4, <2>5, TaskFields
  <2> QED BY <1>22, <2>6 DEF RepayReplays
<1>23. ASSUME NEW h \in Handlers, RepayClaims(h) \/ RepayThrows(h) PROVE TypeOK'
  <2>1. attempt' \in [Chores -> AttemptRow]
    <3>1. task[h].of \in Chores
      BY <1>13, <1>23 DEF RepayClaims, RepayThrows
    <3>2. [NoAttempt EXCEPT !.status = "preparing"] \in AttemptRow
      BY DEF NoAttempt, AttemptRow
    <3>3. attempt[task[h].of] \in AttemptRow /\ NoAttempt \in AttemptRow
      BY <3>1, AttemptFields
    <3>4. PICK r \in AttemptRow : attempt' = [attempt EXCEPT ![task[h].of] = r]
      BY <1>23, <3>1, <3>2, <3>3 DEF RepayClaims, RepayThrows
    <3> QED BY <3>1, <3>4, AttemptFields
  <2> QED BY <1>23, <2>1, MoveType, PcsType DEF RepayClaims, RepayThrows
<1>24. ASSUME NEW h \in Handlers, MarkRepaid(h) PROVE TypeOK'
  <2>1. event' \in [Events -> EventRow]
    BY <1>24, EventFields DEF MarkRepaid, Requests, RequestOK
  <2> QED BY <1>24, <2>1, MoveType DEF MarkRepaid
<1>25. ASSUME NEW p \in Purchases, Buy(p) \/ Honour(p) \/ GiveBack(p) PROVE TypeOK'
  BY <1>25 DEF Buy, Honour, GiveBack
<1>26. ASSUME NEW e \in Events, Confirm(e) PROVE TypeOK'
  <2>1. event' \in [Events -> EventRow]
    BY <1>26, EventFields DEF Confirm
  <2> QED BY <1>26, <2>1 DEF Confirm
<1>27. ASSUME NEW e \in Events, WriteOff(e) PROVE TypeOK'
  <2>1. event' \in [Events -> EventRow]
    <3>1. [event EXCEPT ![e].status = "failed"] \in [Events -> EventRow]
      BY EventFields
    <3>2. event' = [[event EXCEPT ![e].status = "failed"] EXCEPT ![e].held = FALSE]
      BY <1>27 DEF WriteOff
    <3> QED BY <3>1, <3>2, EventFields
  <2>2. attempt' \in [Chores -> AttemptRow]
    BY <1>27 DEF WriteOff, NoAttempt, AttemptRow
  <2> QED BY <1>27, <2>1, <2>2 DEF WriteOff
<1>28. ASSUME NEW m \in Intents, Reach(m) \/ Include(m) PROVE TypeOK'
  <2>1. intent' \in [Intents -> Intent]
    <3>1. PICK v \in {"pool", "executed", "rejected"} : intent' = [intent EXCEPT ![m].state = v]
      BY <1>28 DEF Reach, Include
    <3> QED BY <3>1, IntentFields
  <2> QED BY <1>28, <2>1 DEF Reach, Include
<1>29. CASE Tick
  BY <1>29, ParentPayoutAssumption DEF Tick, ParentPayoutAssumption
<1>30. CASE Crash
  BY <1>30, IdleType DEF Crash
<1> QED
  BY <1>1, <1>2, <1>3, <1>4, <1>5, <1>6, <1>7, <1>8, <1>9, <1>10, <1>11, <1>12, <1>14, <1>15,
     <1>16, <1>17, <1>18, <1>19, <1>20, <1>21, <1>22, <1>23, <1>24, <1>25, <1>26, <1>27, <1>28,
     <1>29, <1>30
  DEF Next, Approve, Relay, Repay
-----------------------------------------------------------------------------
(* Who moves, and how.                                                     *)

\* None is no identifier and no kind of request.
LEMMA Nobody ==
  /\ None \notin Chores /\ None \notin Approvals /\ None \notin Handlers
  /\ None \notin Intents /\ None \notin Events
  /\ None # "mint" /\ None # "relay" /\ None # "repay"
  BY ParentPayoutAssumption DEF ParentPayoutAssumption

\* Only h's request moves.
OthersStay(h) == \A g \in Handlers : g # h => task'[g] = task[g]

\* What ending and going on do to the tasks.
LEMMA MoveOne ==
  ASSUME TypeOK, NEW h \in Handlers
  PROVE  /\ Done(h) => task'[h] = Idle /\ OthersStay(h)
         /\ \A p : Goto(h, p) =>
              /\ OthersStay(h)
              /\ task'[h].pc = p /\ task'[h].act = task[h].act /\ task'[h].of = task[h].of
              /\ task'[h].gross = task[h].gross /\ task'[h].want = task[h].want
              /\ task'[h].tx = task[h].tx /\ task'[h].ev = task[h].ev
         /\ \A t : task' = [task EXCEPT ![h] = t] => task'[h] = t /\ OthersStay(h)
<1>1. task[h] \in Task
  BY DEF TypeOK
<1>2. ASSUME NEW p, Goto(h, p)
      PROVE  /\ OthersStay(h)
             /\ task'[h] = [task[h] EXCEPT !.pc = p]
  BY <1>2 DEF Goto, OthersStay, TypeOK
<1>3. ASSUME NEW p, Goto(h, p)
      PROVE  /\ OthersStay(h)
             /\ task'[h].pc = p /\ task'[h].act = task[h].act /\ task'[h].of = task[h].of
             /\ task'[h].gross = task[h].gross /\ task'[h].want = task[h].want
             /\ task'[h].tx = task[h].tx /\ task'[h].ev = task[h].ev
  BY <1>1, <1>2, <1>3 DEF Task
<1>4. Done(h) => task'[h] = Idle /\ OthersStay(h)
  BY DEF Done, OthersStay, TypeOK
<1>5. \A t : task' = [task EXCEPT ![h] = t] => task'[h] = t /\ OthersStay(h)
  BY DEF OthersStay, TypeOK
<1> QED BY <1>3, <1>4, <1>5

\* The ways of one request: it starts, ...
StartsMint(h) ==
  /\ task[h].pc = "idle" /\ lock = None /\ lock' = h
  /\ task'[h].pc = "height" /\ task'[h].act = "mint" /\ task'[h].of \in Chores
  /\ task'[h].gross > 0
StartsRelay(h) ==
  /\ task[h].pc = "idle" /\ UNCHANGED lock
  /\ task'[h].pc \in {"parse", "decide"} /\ task'[h].act = "relay" /\ task'[h].of \in Chores
  /\ task'[h].tx \in Intents /\ task'[h].want \in Intents
  /\ Overlaps \/ ~ Repaying(task'[h].of)
StartsRepay(h) ==
  /\ task[h].pc = "idle" /\ lock = None /\ lock' = h
  /\ task'[h].pc = "look" /\ task'[h].act = "repay" /\ task'[h].of \in Chores
  /\ task'[h].ev \in Events
  /\ Overlaps \/ ~ Relaying(task'[h].of)
\* ... it goes on ...
GoesOn(h) ==
  /\ UNCHANGED lock
  /\ task'[h].act = task[h].act /\ task'[h].of = task[h].of /\ task'[h].gross = task[h].gross
  /\ task'[h].want = task[h].want /\ task'[h].ev = task[h].ev
  /\ task[h].act # "repay" => task'[h].tx = task[h].tx
  /\ \/ task[h].pc = "height" /\ task'[h].pc = "decide"
     \/ task[h].pc = "parse" /\ task'[h].pc = "wire"
     \/ task[h].pc = "wire" /\ task'[h].pc = "row"
     \/ task[h].pc = "row" /\ task'[h].pc = "settle"
     \/ task[h].pc = "settle" /\ task[h].act = "repay" /\ task'[h].pc = "mark"
     \/ task[h].pc = "settle" /\ task[h].act # "repay" /\ task'[h].pc = "decide"
     \/ task[h].pc = "decide" /\ task'[h].pc = "finish"
     \/ task[h].pc = "look" /\ task'[h].pc \in {"attempt", "mark"}
     \/ task[h].pc = "attempt" /\ task'[h].pc \in {"wire", "prepare"}
\* ... and it ends.
Ends(h) ==
  /\ task[h].pc # "idle" /\ task'[h] = Idle
  /\ \/ Release(h)
     \/ task[h].act = "relay" /\ UNCHANGED lock

RequestMoves(h) ==
  /\ OthersStay(h)
  /\ cpu \in {None, h} /\ cpu' \in {None, h}
  /\ task'[h].pc = "settle" => cpu' = h
  /\ StartsMint(h) \/ StartsRelay(h) \/ StartsRepay(h) \/ GoesOn(h) \/ Ends(h)

\* Every action of a request is one of: a start, a step to its next place, an end.
LEMMA HowARequestMoves ==
  ASSUME TypeOK, Requests, Cards, IntentsOK, Ledger,
         NEW h \in Handlers, Approve(h) \/ Relay(h) \/ Repay(h)
  PROVE  RequestMoves(h)
<1> USE Nobody
<1>1. ASSUME NEW a \in Approvals, StartApprove(h, a) PROVE RequestMoves(h)
  <2> DEFINE gross == ApplyShare(Price[approval[a].of], approval'[a].share)
             t == [Idle EXCEPT !.pc = "height", !.act = "mint", !.of = approval[a].of,
                               !.gross = gross]
  <2>1. task' = [task EXCEPT ![h] = t]
    BY <1>1 DEF StartApprove
  <2>2. approval[a].of \in Chores
    BY <1>1 DEF StartApprove, Cards, TypeOK, ApprovalRow
  <2>3. approval'[a].share \in ShareBps \cup {None}
    <3>1. approval[a].share \in ShareBps \cup {None}
      BY DEF TypeOK, ApprovalRow
    <3>2. PICK bps \in ShareBps \cup {None} :
            approval' = IF bps = None THEN approval ELSE [approval EXCEPT ![a].share = bps]
      BY <1>1 DEF StartApprove
    <3>3. CASE bps = None
      BY <3>1, <3>2, <3>3
    <3>4. CASE bps # None
      BY <3>2, <3>4 DEF TypeOK, ApprovalRow
    <3> QED BY <3>3, <3>4
  <2>4. gross > 0
    BY <2>2, <2>3, SharePrice
  <2>5. t.pc = "height" /\ t.act = "mint" /\ t.of = approval[a].of /\ t.gross = gross
    BY DEF Idle
  <2> HIDE DEF t, gross
  <2>6. task'[h] = t /\ OthersStay(h)
    BY <2>1, MoveOne
  <2>7. StartsMint(h)
    BY <1>1, <2>2, <2>4, <2>5, <2>6 DEF StartApprove, StartsMint
  <2> QED BY <1>1, <2>5, <2>6, <2>7 DEF StartApprove, RequestMoves, Free
<1>2. ASSUME NEW c \in Chores, StartDirect(h, c) PROVE RequestMoves(h)
  <2> DEFINE t == [Idle EXCEPT !.pc = "height", !.act = "mint", !.of = c, !.gross = Price[c]]
  <2>1. task' = [task EXCEPT ![h] = t]
    BY <1>2 DEF StartDirect
  <2>2. Price[c] > 0
    BY ParentPayoutAssumption DEF ParentPayoutAssumption
  <2>3. t.pc = "height" /\ t.act = "mint" /\ t.of = c /\ t.gross = Price[c]
    BY DEF Idle
  <2> HIDE DEF t
  <2>4. task'[h] = t /\ OthersStay(h)
    BY <2>1, MoveOne
  <2>5. StartsMint(h)
    BY <1>2, <2>2, <2>3, <2>4 DEF StartDirect, StartsMint
  <2> QED BY <1>2, <2>3, <2>4, <2>5 DEF StartDirect, RequestMoves, Free
<1>3. ASSUME NEW m \in Intents, StartRelay(h, m) PROVE RequestMoves(h)
  <2> DEFINE pc == IF RowsFor(intent[m].of) # {} THEN "decide" ELSE "parse"
             t == [Idle EXCEPT !.pc = pc, !.act = "relay", !.of = intent[m].of,
                               !.want = attempt[intent[m].of].intent, !.tx = m]
  <2>1. task' = [task EXCEPT ![h] = t]
    BY <1>3 DEF StartRelay
  <2>2. intent[m].of \in Chores
    BY <1>3 DEF StartRelay, IntentsOK, IntentOK, TypeOK, Intent
  <2>3. attempt[intent[m].of].intent \in Intents
    BY <1>3, <2>2 DEF StartRelay, TypeOK, AttemptRow
  <2>4. pc \in {"parse", "decide"}
    OBVIOUS
  <2>5. t.pc = pc /\ t.act = "relay" /\ t.of = intent[m].of /\ t.tx = m
        /\ t.want = attempt[intent[m].of].intent
    BY DEF Idle
  <2> HIDE DEF t, pc
  <2>6. task'[h] = t /\ OthersStay(h)
    BY <2>1, MoveOne
  <2>7. StartsRelay(h)
    BY <1>3, <2>2, <2>3, <2>4, <2>5, <2>6 DEF StartRelay, StartsRelay
  <2> QED BY <1>3, <2>4, <2>5, <2>6, <2>7 DEF StartRelay, RequestMoves, Free
<1>4. ASSUME NEW e \in Events, StartRepay(h, e) PROVE RequestMoves(h)
  <2> DEFINE t == [Idle EXCEPT !.pc = "look", !.act = "repay", !.of = event[e].of,
                               !.gross = event[e].value, !.ev = e]
  <2>1. task' = [task EXCEPT ![h] = t]
    BY <1>4 DEF StartRepay
  <2>2. event[e].of \in Chores
    BY <1>4 DEF StartRepay, Ledger, RowOK, TypeOK, EventRow
  <2>3. t.pc = "look" /\ t.act = "repay" /\ t.of = event[e].of /\ t.ev = e
    BY DEF Idle
  <2> HIDE DEF t
  <2>4. task'[h] = t /\ OthersStay(h)
    BY <2>1, MoveOne
  <2>5. StartsRepay(h)
    BY <1>4, <2>2, <2>3, <2>4 DEF StartRepay, StartsRepay
  <2> QED BY <1>4, <2>3, <2>4, <2>5 DEF StartRepay, RequestMoves, Free
<1>5. ASSUME NoHeight(h) \/ AlreadyClaimed(h) \/ AlreadySettled(h) \/ (\E m \in Intents : MintIntent(h, m))
             \/ BroadcastFails(h) \/ RowTaken(h) \/ Finish(h) \/ RepayThrows(h) \/ MarkRepaid(h)
      PROVE  RequestMoves(h)
  <2>1. /\ Done(h) /\ Release(h) /\ task[h].pc # "idle"
        /\ cpu \in {None, h} /\ cpu' \in {None, h}
    <3>1. CASE NoHeight(h) \/ AlreadyClaimed(h) \/ AlreadySettled(h) \/ BroadcastFails(h)
      BY <3>1 DEF NoHeight, AlreadyClaimed, AlreadySettled, BroadcastFails, Free
    <3>2. CASE \E m \in Intents : MintIntent(h, m)
      BY <3>2 DEF MintIntent, Mintable, Free
    <3>3. CASE RowTaken(h) \/ Finish(h)
      BY <3>3 DEF RowTaken, Finish, Runs
    <3>4. CASE RepayThrows(h) \/ MarkRepaid(h)
      BY <3>4 DEF RepayThrows, MarkRepaid, Free
    <3> QED BY <1>5, <3>1, <3>2, <3>3, <3>4
  <2>2. task'[h] = Idle /\ OthersStay(h) /\ task'[h].pc = "idle"
    BY <2>1, MoveOne, IdleType
  <2>3. Ends(h)
    BY <2>1, <2>2 DEF Ends
  <2> QED BY <2>1, <2>2, <2>3 DEF RequestMoves
<1>6. CASE RefuseRelay(h)
  <2>1. task[h].act = "relay"
    BY <1>6 DEF RefuseRelay, Requests, RequestOK, TypeOK, Task
  <2>2. Done(h) /\ UNCHANGED lock /\ task[h].pc # "idle" /\ cpu = None /\ cpu' = None
    BY <1>6 DEF RefuseRelay, Free
  <2> QED BY <2>1, <2>2, MoveOne, IdleType DEF RequestMoves, Ends
<1>7. CASE RepayReplays(h)
  <2> DEFINE b == attempt[task[h].of].bytes
  <2>1. task' = [task EXCEPT ![h].pc = "wire", ![h].tx = b]
    BY <1>7 DEF RepayReplays
  <2>2. task[h].pc = "attempt" /\ task[h].act = "repay"
    BY <1>7 DEF RepayReplays, Requests, RequestOK, TypeOK, Task
  <2> HIDE DEF b
  <2>3. OthersStay(h)
    BY <2>1 DEF OthersStay, TypeOK
  <2>4. task'[h] = [task[h] EXCEPT !.pc = "wire", !.tx = b]
    BY <2>1 DEF TypeOK
  <2>5. task[h] \in Task
    BY DEF TypeOK
  <2>6. /\ task'[h].pc = "wire" /\ task'[h].act = task[h].act /\ task'[h].of = task[h].of
        /\ task'[h].gross = task[h].gross /\ task'[h].want = task[h].want
        /\ task'[h].ev = task[h].ev
    BY <2>4, <2>5 DEF Task
  <2>7. GoesOn(h)
    BY <1>7, <2>2, <2>6 DEF RepayReplays, GoesOn
  <2> QED BY <1>7, <2>3, <2>6, <2>7 DEF RepayReplays, RequestMoves, Free
<1>8. ASSUME NEW p, Goto(h, p), UNCHANGED lock, cpu \in {None, h}, cpu' \in {None, h},
             p = "settle" => cpu' = h,
             \/ task[h].pc = "height" /\ p = "decide"
             \/ task[h].pc = "parse" /\ p = "wire"
             \/ task[h].pc = "wire" /\ p = "row"
             \/ task[h].pc = "row" /\ p = "settle"
             \/ task[h].pc = "settle" /\ task[h].act = "repay" /\ p = "mark"
             \/ task[h].pc = "settle" /\ task[h].act # "repay" /\ p = "decide"
             \/ task[h].pc = "decide" /\ p = "finish"
             \/ task[h].pc = "look" /\ p \in {"attempt", "mark"}
             \/ task[h].pc = "attempt" /\ p \in {"wire", "prepare"}
      PROVE  RequestMoves(h)
  <2>1. /\ OthersStay(h)
        /\ task'[h].pc = p /\ task'[h].act = task[h].act /\ task'[h].of = task[h].of
        /\ task'[h].gross = task[h].gross /\ task'[h].want = task[h].want
        /\ task'[h].tx = task[h].tx /\ task'[h].ev = task[h].ev
    BY <1>8, MoveOne
  <2>2. GoesOn(h)
    BY <1>8, <2>1 DEF GoesOn
  <2> QED BY <1>8, <2>1, <2>2 DEF RequestMoves
<1>9. CASE SettleWhole(h)
  BY <1>8, <1>9 DEF SettleWhole, Mintable, Free
<1>10. CASE ArmRelay(h)
  BY <1>8, <1>10 DEF ArmRelay, Free
<1>11. CASE ClearDebt(h)
  BY <1>8, <1>11 DEF ClearDebt, Free
<1>12. ASSUME NEW e \in Events, WriteRow(h, e) PROVE RequestMoves(h)
  BY <1>8, <1>12 DEF WriteRow, Runs
<1>13. CASE SettleAttempt(h)
  BY <1>8, <1>13 DEF SettleAttempt, Runs
<1>14. CASE Decide(h)
  BY <1>8, <1>14 DEF Decide, Free
<1>15. CASE RepayFindsRow(h)
  BY <1>8, <1>15 DEF RepayFindsRow, Free
<1>16. CASE RepayFindsNone(h)
  BY <1>8, <1>16 DEF RepayFindsNone, Free
<1>17. CASE RepayAnswered(h)
  BY <1>8, <1>17 DEF RepayAnswered, Free
<1>18. CASE RepayClaims(h)
  BY <1>8, <1>18 DEF RepayClaims, Free
<1> QED
  BY <1>1, <1>2, <1>3, <1>4, <1>5, <1>6, <1>7, <1>9, <1>10, <1>11, <1>12, <1>13, <1>14, <1>15,
     <1>16, <1>17, <1>18 DEF Approve, Relay, Repay

\* Steps no request takes.
Background ==
  \/ \E c \in Chores : StartSubmit(c) \/ Submit(c) \/ DirectReject(c)
  \/ \E a \in Approvals : Reject(a)
  \/ \E p \in Purchases : Buy(p) \/ Honour(p) \/ GiveBack(p)
  \/ \E e \in Events : Confirm(e) \/ WriteOff(e)
  \/ \E m \in Intents : Reach(m) \/ Include(m)
  \/ Tick

\* A step is a handler's, a background one, or a crash.
LEMMA WhoMoves ==
  Next <=> \/ \E h \in Handlers : Approve(h) \/ Relay(h) \/ Repay(h)
           \/ Background
           \/ Crash
  BY DEF Next, Background

\* Background steps leave the requests alone.
LEMMA BackgroundLeavesRequests == Background => UNCHANGED <<task, lock, cpu>>
  BY DEF Background, StartSubmit, Submit, DirectReject, Reject, Buy, Honour, GiveBack, Confirm,
     WriteOff, Reach, Include, Tick

\* A request stays at a place that belongs to its kind.
LEMMA RequestsStep ==
  ASSUME TypeOK, Requests, Cards, IntentsOK, Ledger, Next
  PROVE  Requests'
<1>1. ASSUME NEW h \in Handlers, Approve(h) \/ Relay(h) \/ Repay(h) PROVE Requests'
  <2>1. RequestMoves(h)
    BY <1>1, HowARequestMoves
  <2>2. ASSUME NEW g \in Handlers, g # h PROVE RequestOK(g)'
    BY <2>1, <2>2 DEF RequestMoves, OthersStay, Requests, RequestOK
  <2>3. RequestOK(h)'
    <3> USE Nobody
    <3>0. RequestOK(h)
      BY DEF Requests
    <3>1. CASE StartsMint(h)
      BY <3>1 DEF StartsMint, RequestOK
    <3>2. CASE StartsRelay(h)
      BY <3>2 DEF StartsRelay, RequestOK
    <3>3. CASE StartsRepay(h)
      BY <3>3 DEF StartsRepay, RequestOK
    <3>4. CASE GoesOn(h)
      BY <3>0, <3>4 DEF GoesOn, RequestOK
    <3>5. CASE Ends(h)
      BY <3>5, IdleType DEF Ends, RequestOK
    <3> QED BY <2>1, <3>1, <3>2, <3>3, <3>4, <3>5 DEF RequestMoves
  <2> QED BY <2>2, <2>3 DEF Requests
<1>2. CASE Background
  BY <1>2, BackgroundLeavesRequests DEF Requests, RequestOK
<1>3. CASE Crash
  BY <1>3, IdleType, Nobody DEF Crash, Requests, RequestOK
<1> QED BY <1>1, <1>2, <1>3, WhoMoves

\* The lock and the event loop keep the requests apart that must not interleave.
LEMMA AloneStep ==
  ASSUME TypeOK, Requests, Alone, Cards, IntentsOK, Ledger, Next, ~ Overlaps
  PROVE  Alone'
<1> USE Nobody
<1>1. ASSUME NEW h \in Handlers, Approve(h) \/ Relay(h) \/ Repay(h) PROVE Alone'
  <2>1. RequestMoves(h)
    BY <1>1, HowARequestMoves
  <2>2. RequestOK(h)
    BY DEF Requests
  <2>3. \A g \in Handlers : g # h => task'[g] = task[g]
    BY <2>1 DEF RequestMoves, OthersStay
  <2>4. ASSUME NEW g \in Handlers, g # h, task[g].act \in {"mint", "repay"} PROVE lock' = g
    BY <2>1, <2>4 DEF Alone, RequestMoves, StartsMint, StartsRelay, StartsRepay, GoesOn, Ends, Release
  <2>5. task'[h].act \in {"mint", "repay"} => lock' = h
    BY <2>1, IdleType DEF Alone, RequestMoves, StartsMint, StartsRelay, StartsRepay, GoesOn, Ends
  <2>6. ASSUME NEW g \in Handlers, task'[g].pc = "settle" PROVE cpu' = g
    BY <2>1, <2>3, <2>6 DEF Alone, RequestMoves
  <2>7. ASSUME NEW c \in Chores, Relaying(c)', ~ Relaying(c)
        PROVE  StartsRelay(h) /\ task'[h].of = c
    <3>1. PICK g \in Handlers :
            /\ task'[g].act = "relay" /\ task'[g].of = c
            /\ task'[g].pc \in {"parse", "wire", "row", "settle"}
      BY <2>7 DEF Relaying
    <3>2. g = h
      BY <2>3, <2>7, <3>1 DEF Relaying
    <3>3. ~ (task[h].act = "relay" /\ task[h].of = c /\ task[h].pc \in {"parse", "wire", "row", "settle"})
      BY <2>7 DEF Relaying
    <3> QED BY <2>1, <2>2, <3>1, <3>2, <3>3, IdleType
            DEF RequestMoves, StartsMint, StartsRelay, StartsRepay, GoesOn, Ends, RequestOK
  <2>8. ASSUME NEW g \in Handlers, task'[g].act = "repay", NEW c \in Chores, task'[g].of = c
        PROVE  ~ Relaying(c)'
    <3>1. CASE task[g].act = "repay" /\ task[g].of = c
      <4>1. ~ Relaying(c)
        BY <3>1 DEF Alone
      <4>2. Repaying(c)
        BY <3>1 DEF Repaying
      <4>3. StartsRelay(h) /\ task'[h].of = c => ~ Repaying(c)
        BY DEF StartsRelay
      <4> QED BY <2>7, <4>1, <4>2, <4>3
    <3>2. CASE ~ (task[g].act = "repay" /\ task[g].of = c)
      <4>1. g = h
        BY <2>3, <2>8, <3>2
      <4>2. StartsRepay(h)
        BY <2>1, <2>8, <3>2, <4>1, IdleType DEF RequestMoves, StartsMint, StartsRelay, GoesOn, Ends
      <4>3. ~ Relaying(c) /\ task'[h].act = "repay"
        BY <2>8, <4>1, <4>2 DEF StartsRepay
      <4>4. ~ StartsRelay(h)
        BY <4>3 DEF StartsRelay
      <4> QED BY <2>7, <4>3, <4>4
    <3> QED BY <3>1, <3>2
  <2>9. ASSUME NEW g \in Handlers, task'[g].act \in {"mint", "repay"} PROVE lock' = g
    BY <2>3, <2>4, <2>5, <2>9
  <2>10. ASSUME NEW g \in Handlers, task'[g].act = "repay" PROVE task'[g].of \in Chores
    BY <2>10, RequestsStep, TypeStep DEF Requests, RequestOK, TypeOK, Task
  <2>11. ASSUME NEW g \in Handlers, task'[g].act = "repay"
         PROVE  ~ \E k \in Handlers : /\ task'[k].act = "relay" /\ task'[k].of = task'[g].of
                                      /\ task'[k].pc \in {"parse", "wire", "row", "settle"}
    BY <2>8, <2>10, <2>11 DEF Relaying
  <2> QED BY <2>6, <2>9, <2>11 DEF Alone, Relaying
<1>2. CASE Background
  BY <1>2, BackgroundLeavesRequests DEF Alone, Relaying
<1>3. CASE Crash
  BY <1>3, IdleType DEF Crash, Alone
<1> QED BY <1>1, <1>2, <1>3, WhoMoves

-----------------------------------------------------------------------------
(* Who writes the money tables.                                            *)

\* The actions that write the intents ...
LEMMA WhoWritesIntents ==
  Next => \/ UNCHANGED intent
          \/ \E h \in Handlers : ArmRelay(h) \/ \E m \in Intents : MintIntent(h, m)
          \/ \E m \in Intents : Reach(m) \/ Include(m)
  BY DEF Next, Approve, Relay, Repay, money, StartSubmit, Submit, DirectReject, Reject, Buy, Honour,
     GiveBack, StartApprove, StartDirect, NoHeight, AlreadyClaimed, AlreadySettled, SettleWhole,
     StartRelay, RefuseRelay, BroadcastFails, ClearDebt, WriteRow, RowTaken, SettleAttempt, Decide,
     Finish, StartRepay, RepayFindsRow, RepayFindsNone, RepayReplays, RepayAnswered, RepayClaims,
     RepayThrows, MarkRepaid, Confirm, WriteOff, Tick, Crash

\* ... the claims ...
LEMMA WhoWritesAttempts ==
  Next => \/ UNCHANGED attempt
          \/ \E h \in Handlers :
               \/ SettleWhole(h) \/ ArmRelay(h) \/ SettleAttempt(h) \/ RepayClaims(h) \/ RepayThrows(h)
               \/ \E m \in Intents : MintIntent(h, m)
          \/ \E e \in Events : WriteOff(e)
  BY DEF Next, Approve, Relay, Repay, money, StartSubmit, Submit, DirectReject, Reject, Buy, Honour,
     GiveBack, StartApprove, StartDirect, NoHeight, AlreadyClaimed, AlreadySettled,
     StartRelay, RefuseRelay, BroadcastFails, ClearDebt, WriteRow, RowTaken, Decide,
     Finish, StartRepay, RepayFindsRow, RepayFindsNone, RepayReplays, RepayAnswered,
     MarkRepaid, Confirm, Reach, Include, Tick, Crash

\* ... the ledger ...
LEMMA WhoWritesEvents ==
  Next => \/ UNCHANGED event
          \/ \E h \in Handlers : MarkRepaid(h) \/ \E e \in Events : WriteRow(h, e)
          \/ \E e \in Events : Confirm(e) \/ WriteOff(e)
  BY DEF Next, Approve, Relay, Repay, money, StartSubmit, Submit, DirectReject, Reject, Buy, Honour,
     GiveBack, StartApprove, StartDirect, NoHeight, AlreadyClaimed, AlreadySettled, MintIntent,
     SettleWhole, StartRelay, RefuseRelay, ArmRelay, BroadcastFails, ClearDebt, RowTaken,
     SettleAttempt, Decide, Finish, StartRepay, RepayFindsRow, RepayFindsNone, RepayReplays,
     RepayAnswered, RepayClaims, RepayThrows, Reach, Include, Tick, Crash

\* ... and the settlements.
LEMMA WhoWritesCleared ==
  Next => UNCHANGED cleared \/ \E h \in Handlers : SettleWhole(h) \/ ClearDebt(h)
<1> USE DEF money
<1>1. Background \/ Crash => UNCHANGED cleared
  BY DEF Background, Crash, StartSubmit, Submit, DirectReject, Reject, Buy, Honour, GiveBack,
     Confirm, WriteOff, Reach, Include, Tick
<1>2. ASSUME NEW h \in Handlers, Approve(h) PROVE UNCHANGED cleared \/ SettleWhole(h)
  BY <1>2 DEF Approve, StartApprove, StartDirect, NoHeight, AlreadyClaimed, AlreadySettled, MintIntent
<1>3. ASSUME NEW h \in Handlers, Relay(h) PROVE UNCHANGED cleared \/ ClearDebt(h)
  BY <1>3 DEF Relay, StartRelay, RefuseRelay, ArmRelay, BroadcastFails, WriteRow, RowTaken,
     SettleAttempt, Decide, Finish
<1>4. ASSUME NEW h \in Handlers, Repay(h) PROVE UNCHANGED cleared
  BY <1>4 DEF Repay, StartRepay, RepayFindsRow, RepayFindsNone, RepayReplays, RepayAnswered,
     RepayClaims, RepayThrows, MarkRepaid
<1> QED BY <1>1, <1>2, <1>3, <1>4, WhoMoves

\* The request that holds an intent past its checks.
LEMMA ArmsItsClaim ==
  ASSUME TypeOK, Requests, Claims, Payers, NEW h \in Handlers, ArmRelay(h)
  PROVE  /\ task[h].of \in Chores /\ task[h].tx \in Intents /\ task[h].act = "relay"
         /\ task[h].want = task[h].tx /\ clock <= intent[task[h].tx].expires
         /\ attempt[task[h].of].intent = task[h].tx /\ attempt[task[h].of].status # "none"
         /\ intent[task[h].tx].of = task[h].of /\ intent[task[h].tx].state # "none"
<1> USE Nobody
<1>1. task[h].pc = "parse" /\ Verified(h)
  BY DEF ArmRelay
<1>2. task[h].of \in Chores /\ task[h].tx \in Intents /\ task[h].act = "relay"
  BY <1>1 DEF Requests, RequestOK, TypeOK, Task
<1>3. task[h].want = task[h].tx /\ clock <= intent[task[h].tx].expires
  BY <1>1 DEF Verified
<1>4. attempt[task[h].of].intent = task[h].tx /\ intent[task[h].tx].of = task[h].of
      /\ intent[task[h].tx].state # "none"
  BY <1>1, <1>3 DEF Payers, PayerOK
<1>5. attempt[task[h].of].status # "none"
  BY <1>2, <1>4 DEF Claims, ClaimOK
<1> QED BY <1>2, <1>3, <1>4, <1>5

\* What arming a claim does.
LEMMA ArmEffect ==
  ASSUME TypeOK, Requests, Claims, Payers, NEW h \in Handlers, ArmRelay(h)
  PROVE  /\ attempt'[task[h].of].status = "in_flight"
         /\ attempt'[task[h].of].intent = task[h].tx /\ attempt'[task[h].of].bytes = task[h].tx
         /\ \A c \in Chores : c # task[h].of => attempt'[c] = attempt[c]
         /\ \A m \in Intents : m # task[h].tx => intent'[m] = intent[m]
         /\ \A m \in Intents : /\ intent'[m].of = intent[m].of /\ intent'[m].value = intent[m].value
                                /\ intent'[m].netted = intent[m].netted
                                /\ intent'[m].expires = intent[m].expires
         /\ intent'[task[h].tx].state \in {"held", "pool", "executed", "rejected"}
         /\ intent[task[h].tx].state # "offered" => intent'[task[h].tx].state = intent[task[h].tx].state
         /\ UNCHANGED <<event, cleared, clock>>
<1> DEFINE c == task[h].of
           m == task[h].tx
           v == IF intent[m].state = "offered" THEN "held" ELSE intent[m].state
<1>1. /\ c \in Chores /\ m \in Intents /\ attempt[c].intent = m /\ attempt[c].status # "none"
      /\ intent[m].state # "none"
  BY ArmsItsClaim
<1>2. attempt' = [attempt EXCEPT ![c] = [attempt[c] EXCEPT !.status = "in_flight", !.bytes = m]]
  BY <1>1 DEF ArmRelay
<1>3. intent' = [intent EXCEPT ![m].state = v]
  BY DEF ArmRelay
<1>4. v \in {"held", "pool", "executed", "rejected"} /\ (intent[m].state # "offered" => v = intent[m].state)
  BY <1>1 DEF TypeOK, Intent
<1>5. UNCHANGED <<event, cleared, clock>>
  BY DEF ArmRelay, world
<1> HIDE DEF v, c, m
<1>6. attempt[c] \in AttemptRow
  BY <1>1 DEF TypeOK
<1>7. /\ attempt'[c] = [attempt[c] EXCEPT !.status = "in_flight", !.bytes = m]
      /\ \A d \in Chores : d # c => attempt'[d] = attempt[d]
  BY <1>1, <1>2 DEF TypeOK
<1>8. attempt'[c].status = "in_flight" /\ attempt'[c].intent = m /\ attempt'[c].bytes = m
  BY <1>1, <1>6, <1>7 DEF AttemptRow
<1>9. /\ intent'[m] = [intent[m] EXCEPT !.state = v]
      /\ \A n \in Intents : n # m => intent'[n] = intent[n]
  BY <1>1, <1>3 DEF TypeOK
<1>10. /\ intent'[m].state = v /\ intent'[m].of = intent[m].of /\ intent'[m].value = intent[m].value
       /\ intent'[m].netted = intent[m].netted /\ intent'[m].expires = intent[m].expires
  BY <1>1, <1>9 DEF TypeOK, Intent
<1> QED BY <1>4, <1>5, <1>7, <1>8, <1>9, <1>10 DEF c, m

\* What minting an intent does.
LEMMA MintEffect ==
  ASSUME TypeOK, Requests, NEW h \in Handlers, NEW m \in Intents, MintIntent(h, m)
  PROVE  /\ task[h].of \in Chores /\ task[h].act = "mint"
         /\ attempt'[task[h].of].status = "preparing" /\ attempt'[task[h].of].intent = m
         /\ \A c \in Chores : c # task[h].of => attempt'[c] = attempt[c]
         /\ intent[m].state = "none"
         /\ intent'[m].state = "offered" /\ intent'[m].of = task[h].of
         /\ intent'[m].netted = NettedOf(task[h].gross, NettableDebt(clock))
         /\ intent'[m].expires = clock + TTL
         /\ \A n \in Intents : n # m => intent'[n] = intent[n]
         /\ UNCHANGED <<event, cleared, clock>>
<1> DEFINE c == task[h].of
           netted == NettedOf(task[h].gross, NettableDebt(clock))
           row == [status |-> "preparing", intent |-> m, bytes |-> None]
           i == [state |-> "offered", of |-> c, value |-> task[h].gross - netted,
                 netted |-> netted, expires |-> clock + TTL]
<1>1. c \in Chores /\ task[h].act = "mint"
  BY DEF MintIntent, Mintable, Requests, RequestOK, TypeOK, Task
<1>2. attempt' = [attempt EXCEPT ![c] = row] /\ intent' = [intent EXCEPT ![m] = i]
      /\ intent[m].state = "none" /\ UNCHANGED <<event, cleared, clock>>
  BY DEF MintIntent, FreeIntents, world
<1>3. row.status = "preparing" /\ row.intent = m
      /\ i.state = "offered" /\ i.of = c /\ i.netted = netted /\ i.expires = clock + TTL
  OBVIOUS
<1> HIDE DEF row, i
<1>4. /\ attempt'[c] = row /\ intent'[m] = i
      /\ \A d \in Chores : d # c => attempt'[d] = attempt[d]
      /\ \A n \in Intents : n # m => intent'[n] = intent[n]
  BY <1>1, <1>2 DEF TypeOK
<1> QED BY <1>1, <1>2, <1>3, <1>4

-----------------------------------------------------------------------------
(* The money tables.                                                       *)

\* A claim that nothing was signed for: nobody acts for its chore.
LEMMA NothingOut ==
  ASSUME TypeOK, Claims, IntentsOK, Ledger, Payers, NEW c \in Chores, ~ OnWire(c)
  PROVE  /\ \A m \in Intents : intent[m].of = c => ~ Alive(m)
         /\ RowsFor(c) = {}
         /\ \A h \in Handlers : task[h].of = c => task[h].pc \notin {"wire", "row", "settle"}
<1>1. \A m \in Intents : intent[m].of = c => ~ Alive(m)
  BY DEF IntentsOK, IntentOK
<1>2. RowsFor(c) = {}
  BY DEF RowsFor, Ledger, RowOK
<1>3. \A h \in Handlers : task[h].of = c => task[h].pc \notin {"wire", "row", "settle"}
  BY DEF Payers, PayerOK
<1> QED BY <1>1, <1>2, <1>3

\* A step that writes no table of the money keeps what is said of them.
LEMMA MoneyUnchanged ==
  ASSUME Claims, IntentsOK, Ledger, UNCHANGED <<attempt, intent, event>>
  PROVE  Claims' /\ IntentsOK' /\ Ledger'
  BY DEF Claims, ClaimOK, IntentsOK, IntentOK, Ledger, RowOK, OnWire, Alive, RowsFor

\* A mint replaces a claim nothing was signed for.
LEMMA MoneyMinted ==
  ASSUME TypeOK, Requests, Claims, IntentsOK, Ledger, Payers,
         NEW h \in Handlers, NEW m \in Intents, MintIntent(h, m)
  PROVE  Claims' /\ IntentsOK' /\ Ledger'
<1> DEFINE c == task[h].of
<1>1. /\ c \in Chores
      /\ attempt'[c].status = "preparing" /\ attempt'[c].intent = m
      /\ \A d \in Chores : d # c => attempt'[d] = attempt[d]
      /\ intent[m].state = "none" /\ intent'[m].state = "offered" /\ intent'[m].of = c
      /\ \A n \in Intents : n # m => intent'[n] = intent[n]
      /\ UNCHANGED event
  BY MintEffect
<1>2. attempt[c].status \in {"none", "preparing"}
  BY DEF MintIntent, Mintable, Reusable
<1> HIDE DEF c
<1>3. ~ OnWire(c)
  BY <1>2 DEF OnWire
<1>4. /\ \A n \in Intents : intent[n].of = c => ~ Alive(n)
      /\ RowsFor(c) = {}
  BY <1>1, <1>3, NothingOut
<1>5. \A d \in Chores : attempt[d].intent # m
  BY <1>1, Nobody DEF Claims, ClaimOK
<1>6. ASSUME NEW d \in Chores PROVE ClaimOK(d)'
  <2>1. CASE d = c
    BY <1>1, <2>1, Nobody DEF ClaimOK, OnWire
  <2>2. CASE d # c
    BY <1>1, <1>5, <2>2 DEF Claims, ClaimOK, OnWire, RowsFor, TypeOK, AttemptRow
  <2> QED BY <2>1, <2>2
<1>7. ASSUME NEW n \in Intents PROVE IntentOK(n)'
  <2>1. CASE n = m
    BY <1>1, <2>1, Nobody DEF IntentOK, Alive
  <2>2. CASE n # m
    BY <1>1, <1>4, <2>2 DEF IntentsOK, IntentOK, Alive, OnWire, TypeOK, Intent
  <2> QED BY <2>1, <2>2
<1>8. Ledger'
  <2>1. \A e \in Events : event[e].held => event[e].of # c
    BY <1>4 DEF RowsFor
  <2> QED BY <1>1, <2>1 DEF Ledger, RowOK, OnWire, TypeOK, EventRow
<1> QED BY <1>6, <1>7, <1>8 DEF Claims, IntentsOK

\* A claim is staked without an intent, or released: no signature is behind it.
LEMMA MoneyReleased ==
  ASSUME TypeOK, Claims, IntentsOK, Ledger, Payers, NEW c \in Chores, ~ OnWire(c),
         NEW r, r.intent = None, r.status \in {"none", "preparing"},
         attempt' = [attempt EXCEPT ![c] = r], UNCHANGED <<intent, event>>
  PROVE  Claims' /\ IntentsOK' /\ Ledger'
<1>1. /\ attempt'[c] = r
      /\ \A d \in Chores : d # c => attempt'[d] = attempt[d]
  BY DEF TypeOK
<1>2. /\ \A n \in Intents : intent[n].of = c => ~ Alive(n)
      /\ RowsFor(c) = {}
  BY NothingOut
<1>3. ASSUME NEW d \in Chores PROVE ClaimOK(d)'
  <2>1. CASE d = c
    BY <1>1, <2>1 DEF ClaimOK, OnWire
  <2>2. CASE d # c
    BY <1>1, <2>2 DEF Claims, ClaimOK, OnWire, RowsFor
  <2> QED BY <2>1, <2>2
<1>4. IntentsOK'
  BY <1>1, <1>2 DEF IntentsOK, IntentOK, Alive, OnWire, TypeOK, Intent
<1>5. Ledger'
  <2>1. \A e \in Events : event[e].held => event[e].of # c
    BY <1>2 DEF RowsFor
  <2> QED BY <1>1, <2>1 DEF Ledger, RowOK, OnWire, TypeOK, EventRow
<1> QED BY <1>3, <1>4, <1>5 DEF Claims

\* Arming puts on the wire the one intent its claim names.
LEMMA MoneyArmed ==
  ASSUME TypeOK, Requests, Claims, IntentsOK, Ledger, Payers, NEW h \in Handlers, ArmRelay(h)
  PROVE  Claims' /\ IntentsOK' /\ Ledger'
<1> DEFINE c == task[h].of
           m == task[h].tx
<1>1. /\ c \in Chores /\ m \in Intents
      /\ attempt[c].intent = m /\ intent[m].of = c /\ intent[m].state # "none"
  BY ArmsItsClaim
<1>2. /\ attempt'[c].status = "in_flight" /\ attempt'[c].intent = m /\ attempt'[c].bytes = m
      /\ \A d \in Chores : d # c => attempt'[d] = attempt[d]
      /\ \A n \in Intents : n # m => intent'[n] = intent[n]
      /\ \A n \in Intents : intent'[n].of = intent[n].of
      /\ intent'[m].state \in {"held", "pool", "executed", "rejected"}
      /\ UNCHANGED event
  BY ArmEffect
<1> HIDE DEF c, m
<1>3. ASSUME NEW d \in Chores PROVE ClaimOK(d)'
  <2>1. CASE d = c
    BY <1>1, <1>2, <2>1 DEF ClaimOK, OnWire
  <2>2. CASE d # c
    <3>1. attempt[d].intent # m
      BY <1>1, <2>2, Nobody DEF Claims, ClaimOK
    <3> QED BY <1>1, <1>2, <2>2, <3>1 DEF Claims, ClaimOK, OnWire, RowsFor, TypeOK, AttemptRow
  <2> QED BY <2>1, <2>2
<1>4. ASSUME NEW n \in Intents PROVE IntentOK(n)'
  <2>1. CASE n = m
    BY <1>1, <1>2, <2>1, Nobody DEF IntentOK, Alive, OnWire
  <2>2. CASE n # m
    BY <1>1, <1>2, <2>2 DEF IntentsOK, IntentOK, Alive, OnWire, TypeOK, Intent
  <2> QED BY <2>1, <2>2
<1>5. Ledger'
  BY <1>1, <1>2 DEF Ledger, RowOK, OnWire, TypeOK, EventRow
<1> QED BY <1>3, <1>4, <1>5 DEF Claims, IntentsOK

\* What writing the ledger row does.
LEMMA RowWritten ==
  ASSUME TypeOK, Requests, NEW h \in Handlers, NEW e \in Events, WriteRow(h, e)
  PROVE  /\ task[h].of \in Chores /\ task[h].pc = "row" /\ RowsFor(task[h].of) = {}
         /\ event[e].status = "none"
         /\ event'[e].status = "pending" /\ event'[e].of = task[h].of /\ event'[e].held
         /\ event'[e].hash = task[h].tx
         /\ \A f \in Events : f # e => event'[f] = event[f]
         /\ UNCHANGED <<attempt, intent, cleared, clock>>
<1> DEFINE row == [status |-> "pending", of |-> task[h].of, held |-> TRUE, repaid |-> FALSE,
                   value |-> IF task[h].act = "repay" THEN task[h].gross
                             ELSE intent[task[h].want].value,
                   hash |-> task[h].tx]
<1>1. event' = [event EXCEPT ![e] = row]
  BY DEF WriteRow
<1>2. row.status = "pending" /\ row.of = task[h].of /\ row.held /\ row.hash = task[h].tx
  OBVIOUS
<1> HIDE DEF row
<1>3. event'[e] = row /\ \A f \in Events : f # e => event'[f] = event[f]
  BY <1>1 DEF TypeOK
<1>4. task[h].of \in Chores /\ task[h].pc = "row"
  BY DEF WriteRow, Runs, Requests, RequestOK, TypeOK, Task
<1>5. RowsFor(task[h].of) = {} /\ event[e].status = "none" /\ UNCHANGED <<attempt, intent, cleared, clock>>
  BY DEF WriteRow, FreeEvents, world
<1> QED BY <1>2, <1>3, <1>4, <1>5

\* A new ledger row records the bytes its claim names.
LEMMA MoneyRecorded ==
  ASSUME TypeOK, Requests, Claims, IntentsOK, Ledger, Payers,
         NEW h \in Handlers, NEW e \in Events, WriteRow(h, e)
  PROVE  Claims' /\ IntentsOK' /\ Ledger'
<1> DEFINE c == task[h].of
<1>1. /\ c \in Chores /\ RowsFor(c) = {} /\ event[e].status = "none"
      /\ event'[e].status = "pending" /\ event'[e].of = c /\ event'[e].held
      /\ event'[e].hash = task[h].tx
      /\ \A f \in Events : f # e => event'[f] = event[f]
      /\ UNCHANGED <<attempt, intent>>
  BY RowWritten
<1>2. OnWire(c) /\ attempt[c].intent = task[h].tx
  BY RowWritten DEF Payers, PayerOK
<1> HIDE DEF c
<1>3. \A d \in Chores : RowsFor(d) # {} => RowsFor(d)' # {}
  BY <1>1, Nobody DEF RowsFor, Ledger, RowOK
<1>4. Claims'
  BY <1>1, <1>3 DEF Claims, ClaimOK, OnWire
<1>5. IntentsOK'
  BY <1>1 DEF IntentsOK, IntentOK, Alive, OnWire
<1>6. \A f \in Events : event[f].held => event[f].of # c
  BY <1>1 DEF RowsFor
<1>7. ASSUME NEW f \in Events PROVE RowOK(f)'
  <2>1. CASE f = e
    BY <1>1, <1>2, <2>1, Nobody DEF RowOK, OnWire
  <2>2. CASE f # e
    BY <1>1, <2>2 DEF Ledger, RowOK, OnWire
  <2> QED BY <2>1, <2>2
<1>8. \A f, g \in Events : event'[f].held /\ event'[g].held /\ event'[f].of = event'[g].of => f = g
  BY <1>1, <1>6 DEF Ledger
<1> QED BY <1>4, <1>5, <1>7, <1>8 DEF Ledger

\* A settled claim names the same bytes.
LEMMA SettleEffect ==
  ASSUME TypeOK, Requests, Payers, NEW h \in Handlers, SettleAttempt(h)
  PROVE  /\ task[h].of \in Chores /\ OnWire(task[h].of) /\ RowsFor(task[h].of) # {}
         /\ attempt'[task[h].of].status = "settled"
         /\ attempt'[task[h].of].intent = attempt[task[h].of].intent
         /\ attempt'[task[h].of].bytes = attempt[task[h].of].bytes
         /\ \A c \in Chores : c # task[h].of => attempt'[c] = attempt[c]
         /\ UNCHANGED <<intent, event, cleared, clock>>
<1> DEFINE c == task[h].of
<1>1. task[h].pc = "settle" /\ UNCHANGED <<intent, event, cleared, clock>>
  BY DEF SettleAttempt, Runs, world
<1>2. c \in Chores /\ OnWire(c) /\ RowsFor(c) # {}
  BY <1>1 DEF Requests, RequestOK, TypeOK, Task, Payers, PayerOK
<1>3. attempt[c].status # "none"
  BY <1>2 DEF OnWire
<1>4. attempt' = [attempt EXCEPT ![c].status = "settled"]
  BY <1>3 DEF SettleAttempt
<1> HIDE DEF c
<1>5. attempt[c] \in AttemptRow
  BY <1>2 DEF TypeOK
<1>6. /\ attempt'[c] = [attempt[c] EXCEPT !.status = "settled"]
      /\ \A d \in Chores : d # c => attempt'[d] = attempt[d]
  BY <1>2, <1>4 DEF TypeOK
<1>7. /\ attempt'[c].status = "settled" /\ attempt'[c].intent = attempt[c].intent
      /\ attempt'[c].bytes = attempt[c].bytes
  BY <1>5, <1>6 DEF AttemptRow
<1> QED BY <1>1, <1>2, <1>6, <1>7 DEF c

\* A claim that settles has its ledger row.
LEMMA MoneySettled ==
  ASSUME TypeOK, Requests, Claims, IntentsOK, Ledger, Payers, NEW h \in Handlers, SettleAttempt(h)
  PROVE  Claims' /\ IntentsOK' /\ Ledger'
<1> DEFINE c == task[h].of
<1>1. /\ c \in Chores /\ OnWire(c) /\ RowsFor(c) # {}
      /\ attempt'[c].status = "settled" /\ attempt'[c].intent = attempt[c].intent
      /\ attempt'[c].bytes = attempt[c].bytes
      /\ \A d \in Chores : d # c => attempt'[d] = attempt[d]
      /\ UNCHANGED <<intent, event>>
  BY SettleEffect
<1> HIDE DEF c
<1>2. ASSUME NEW d \in Chores PROVE ClaimOK(d)'
  <2>1. CASE d = c
    BY <1>1, <2>1 DEF Claims, ClaimOK, OnWire, RowsFor
  <2>2. CASE d # c
    BY <1>1, <2>2 DEF Claims, ClaimOK, OnWire, RowsFor
  <2> QED BY <2>1, <2>2
<1>3. IntentsOK'
  BY <1>1, Nobody DEF IntentsOK, IntentOK, Alive, OnWire, TypeOK, Intent
<1>4. Ledger'
  BY <1>1 DEF Ledger, RowOK, OnWire, TypeOK, EventRow
<1> QED BY <1>2, <1>3, <1>4 DEF Claims

\* What writing a bounced row off does.
LEMMA WriteOffEffect ==
  ASSUME TypeOK, Claims, IntentsOK, Ledger, NEW e \in Events, WriteOff(e)
  PROVE  /\ event[e].of \in Chores /\ event[e].held /\ attempt'[event[e].of] = NoAttempt
         /\ OnWire(event[e].of)
         /\ \A c \in Chores : c # event[e].of => attempt'[c] = attempt[c]
         /\ event'[e].status = "failed" /\ ~ event'[e].held /\ event'[e].of = event[e].of
         /\ event'[e].hash = event[e].hash
         /\ \A f \in Events : f # e => event'[f] = event[f]
         /\ \A m \in Intents : intent[m].of = event[e].of => ~ Alive(m)
         /\ \A f \in Events : event[f].held /\ event[f].of = event[e].of => f = e
         /\ UNCHANGED <<intent, cleared, clock, task, lock, cpu>>
<1> DEFINE c == event[e].of
<1>1. event[e].status = "pending" /\ intent[event[e].hash].state = "rejected"
      /\ UNCHANGED <<intent, cleared, clock, task, lock, cpu>>
  BY DEF WriteOff, world
<1>2. event[e].held /\ c \in Chores /\ OnWire(c) /\ attempt[c].intent = event[e].hash
  BY <1>1 DEF Ledger, RowOK, TypeOK, EventRow
<1>3. attempt' = [attempt EXCEPT ![c] = NoAttempt]
      /\ event' = [event EXCEPT ![e].status = "failed", ![e].held = FALSE]
  BY DEF WriteOff
<1> HIDE DEF c
<1>4. attempt'[c] = NoAttempt /\ \A d \in Chores : d # c => attempt'[d] = attempt[d]
  BY <1>2, <1>3 DEF TypeOK
<1>5. event[e] \in EventRow
  BY DEF TypeOK
<1>6. /\ event'[e] = [event[e] EXCEPT !.status = "failed", !.held = FALSE]
      /\ \A f \in Events : f # e => event'[f] = event[f]
  BY <1>3 DEF TypeOK
<1>7. event'[e].status = "failed" /\ ~ event'[e].held /\ event'[e].of = event[e].of
      /\ event'[e].hash = event[e].hash
  BY <1>5, <1>6 DEF EventRow
<1>8. \A m \in Intents : intent[m].of = c => ~ Alive(m)
  BY <1>1, <1>2 DEF IntentsOK, IntentOK, Alive
<1>9. \A f \in Events : event[f].held /\ event[f].of = c => f = e
  BY <1>2 DEF Ledger, c
<1> QED BY <1>1, <1>2, <1>4, <1>6, <1>7, <1>8, <1>9 DEF c

\* A row that is written off was the only one to hold its claim, and its bytes are dead.
LEMMA MoneyWrittenOff ==
  ASSUME TypeOK, Claims, IntentsOK, Ledger, NEW e \in Events, WriteOff(e)
  PROVE  Claims' /\ IntentsOK' /\ Ledger'
<1> DEFINE c == event[e].of
<1>1. /\ c \in Chores /\ attempt'[c] = NoAttempt
      /\ \A d \in Chores : d # c => attempt'[d] = attempt[d]
      /\ event'[e].status = "failed" /\ ~ event'[e].held /\ event'[e].of = c
      /\ \A f \in Events : f # e => event'[f] = event[f]
      /\ \A m \in Intents : intent[m].of = c => ~ Alive(m)
      /\ \A f \in Events : event[f].held /\ event[f].of = c => f = e
      /\ UNCHANGED intent
  BY WriteOffEffect
<1> HIDE DEF c
<1>2. ASSUME NEW d \in Chores PROVE ClaimOK(d)'
  <2>1. CASE d = c
    BY <1>1, <2>1 DEF ClaimOK, OnWire, NoAttempt
  <2>2. CASE d # c
    <3>1. RowsFor(d) # {} => RowsFor(d)' # {}
      BY <1>1, <2>2 DEF RowsFor, c
    <3> QED BY <1>1, <2>2, <3>1 DEF Claims, ClaimOK, OnWire
  <2> QED BY <2>1, <2>2
<1>3. IntentsOK'
  BY <1>1 DEF IntentsOK, IntentOK, Alive, OnWire, TypeOK, Intent
<1>4. ASSUME NEW f \in Events PROVE RowOK(f)'
  <2>1. CASE f = e
    BY <1>1, <2>1, Nobody DEF RowOK
  <2>2. CASE f # e
    BY <1>1, <2>2 DEF Ledger, RowOK, OnWire, TypeOK, EventRow
  <2> QED BY <2>1, <2>2
<1>5. \A f, g \in Events : event'[f].held /\ event'[g].held /\ event'[f].of = event'[g].of => f = g
  BY <1>1 DEF Ledger
<1> QED BY <1>2, <1>3, <1>4, <1>5 DEF Claims, Ledger

\* A row is confirmed, or marked repaid.
Marked ==
  /\ \A f \in Events : /\ event'[f].of = event[f].of /\ event'[f].held = event[f].held
                       /\ event'[f].hash = event[f].hash
                       /\ event'[f].status = "none" <=> event[f].status = "none"
                       /\ event'[f].status = "pending" => event[f].status = "pending"
  /\ UNCHANGED <<attempt, intent, cleared, clock>>

\* What marking a row done or repaid does.
LEMMA RowMarked ==
  ASSUME TypeOK, Requests, (\E e \in Events : Confirm(e)) \/ \E h \in Handlers : MarkRepaid(h)
  PROVE  Marked
<1>1. ASSUME NEW e \in Events, Confirm(e) PROVE Marked
  <2>1. event' = [event EXCEPT ![e].status = "done"] /\ event[e].status = "pending"
        /\ UNCHANGED <<attempt, intent, cleared, clock>>
    BY <1>1 DEF Confirm, world
  <2>2. \A f \in Events : event[f] \in EventRow
    BY DEF TypeOK
  <2>3. /\ event'[e] = [event[e] EXCEPT !.status = "done"]
        /\ \A f \in Events : f # e => event'[f] = event[f]
    BY <2>1 DEF TypeOK
  <2>4. event'[e].of = event[e].of /\ event'[e].held = event[e].held
        /\ event'[e].hash = event[e].hash /\ event'[e].status = "done"
    BY <2>2, <2>3 DEF EventRow
  <2> QED BY <2>1, <2>3, <2>4 DEF Marked
<1>2. ASSUME NEW h \in Handlers, MarkRepaid(h) PROVE Marked
  <2> DEFINE f == task[h].ev
  <2>1. event' = [event EXCEPT ![f].repaid = TRUE] /\ UNCHANGED <<attempt, intent, cleared, clock>>
    BY <1>2 DEF MarkRepaid, world
  <2>2. \A g \in Events : event[g] \in EventRow
    BY DEF TypeOK
  <2> HIDE DEF f
  <2>3. \A g \in Events : event'[g] = event[g] \/ event'[g] = [event[g] EXCEPT !.repaid = TRUE]
    BY <2>1 DEF TypeOK
  <2>4. \A g \in Events : /\ event'[g].of = event[g].of /\ event'[g].held = event[g].held
                         /\ event'[g].hash = event[g].hash /\ event'[g].status = event[g].status
    BY <2>2, <2>3 DEF EventRow
  <2> QED BY <2>1, <2>4 DEF Marked
<1> QED BY <1>1, <1>2

\* A marked row still records the same bytes.
LEMMA MoneyMarked ==
  ASSUME Claims, IntentsOK, Ledger, Marked
  PROVE  Claims' /\ IntentsOK' /\ Ledger'
<1>1. /\ \A f \in Events : /\ event'[f].of = event[f].of /\ event'[f].held = event[f].held
                           /\ event'[f].hash = event[f].hash
                           /\ event'[f].status = "none" <=> event[f].status = "none"
                           /\ event'[f].status = "pending" => event[f].status = "pending"
      /\ UNCHANGED <<attempt, intent>>
  BY DEF Marked
<1>2. \A c \in Chores : RowsFor(c)' = RowsFor(c)
  BY <1>1 DEF RowsFor
<1>3. Claims' /\ IntentsOK'
  BY <1>1, <1>2 DEF Claims, ClaimOK, IntentsOK, IntentOK, OnWire, Alive
<1>4. Ledger'
  BY <1>1 DEF Ledger, RowOK, OnWire
<1> QED BY <1>3, <1>4

\* The chain takes or refuses what it holds.
LEMMA ChainMoves ==
  ASSUME TypeOK, NEW m \in Intents, Reach(m) \/ Include(m)
  PROVE  /\ intent[m].state \in {"held", "pool"} /\ intent'[m].state \in {"pool", "executed", "rejected"}
         /\ \A n \in Intents : n # m => intent'[n] = intent[n]
         /\ \A n \in Intents : /\ intent'[n].of = intent[n].of /\ intent'[n].value = intent[n].value
                                /\ intent'[n].netted = intent[n].netted
                                /\ intent'[n].expires = intent[n].expires
         /\ UNCHANGED <<attempt, event, cleared, clock, task, lock, cpu>>
<1>1. PICK v \in {"pool", "executed", "rejected"} : intent' = [intent EXCEPT ![m].state = v]
  BY DEF Reach, Include
<1>2. intent[m].state \in {"held", "pool"} /\ UNCHANGED <<attempt, event, cleared, clock, task, lock, cpu>>
  BY DEF Reach, Include, world
<1>3. /\ intent'[m] = [intent[m] EXCEPT !.state = v]
      /\ \A n \in Intents : n # m => intent'[n] = intent[n]
  BY <1>1 DEF TypeOK
<1>4. intent[m] \in Intent
  BY DEF TypeOK
<1>5. /\ intent'[m].state = v /\ intent'[m].of = intent[m].of /\ intent'[m].value = intent[m].value
      /\ intent'[m].netted = intent[m].netted /\ intent'[m].expires = intent[m].expires
  BY <1>3, <1>4 DEF Intent
<1> QED BY <1>2, <1>3, <1>5

\* What the chain does leaves the claims and the ledger as they are.
LEMMA MoneyOnChain ==
  ASSUME TypeOK, Claims, IntentsOK, Ledger, NEW m \in Intents, Reach(m) \/ Include(m)
  PROVE  Claims' /\ IntentsOK' /\ Ledger'
<1>1. /\ intent[m].state \in {"held", "pool"} /\ intent'[m].state \in {"pool", "executed", "rejected"}
      /\ \A n \in Intents : n # m => intent'[n] = intent[n]
      /\ \A n \in Intents : intent'[n].of = intent[n].of
      /\ UNCHANGED <<attempt, event>>
  BY ChainMoves
<1>2. Alive(m) /\ OnWire(intent[m].of) /\ attempt[intent[m].of].intent = m
  BY <1>1 DEF IntentsOK, IntentOK, Alive
<1>3. ASSUME NEW c \in Chores PROVE ClaimOK(c)'
  BY <1>1, <1>2 DEF Claims, ClaimOK, OnWire, RowsFor, TypeOK, AttemptRow
<1>4. IntentsOK'
  BY <1>1, <1>2 DEF IntentsOK, IntentOK, OnWire, Alive
<1>5. Ledger'
  BY <1>1 DEF Ledger, RowOK, OnWire
<1> QED BY <1>3, <1>4, <1>5 DEF Claims

\* Every step keeps what is said of claims, intents and ledger.
LEMMA MoneyStep ==
  ASSUME TypeOK, Requests, Claims, IntentsOK, Ledger, Payers, Next
  PROVE  Claims' /\ IntentsOK' /\ Ledger'
<1>1. ASSUME NEW h \in Handlers, RepayClaims(h) \/ RepayThrows(h) PROVE Claims' /\ IntentsOK' /\ Ledger'
  <2>1. task[h].of \in Chores /\ UNCHANGED <<intent, event>>
    BY <1>1 DEF RepayClaims, RepayThrows, Requests, RequestOK, TypeOK, Task
  <2>2. CASE UNCHANGED attempt
    BY <2>1, <2>2, MoneyUnchanged
  <2>3. CASE attempt' # attempt
    <3>1. [NoAttempt EXCEPT !.status = "preparing"] = [status |-> "preparing", intent |-> None, bytes |-> None]
      BY DEF NoAttempt
    <3>2. attempt[task[h].of].status \in {"none", "preparing"}
      BY <1>1, <2>1, <2>3 DEF RepayClaims, RepayThrows, TypeOK
    <3>3. PICK r \in {NoAttempt, [status |-> "preparing", intent |-> None, bytes |-> None]} :
            attempt' = [attempt EXCEPT ![task[h].of] = r]
      BY <1>1, <2>1, <2>3, <3>1, <3>2 DEF RepayClaims, RepayThrows, TypeOK
    <3>4. r.intent = None /\ r.status \in {"none", "preparing"}
      BY <3>3 DEF NoAttempt
    <3> QED BY <2>1, <3>2, <3>3, <3>4, MoneyReleased DEF OnWire
  <2> QED BY <2>2, <2>3
<1>2. ASSUME NEW h \in Handlers, SettleWhole(h) PROVE Claims' /\ IntentsOK' /\ Ledger'
  <2>1. task[h].of \in Chores /\ UNCHANGED <<intent, event>>
        /\ attempt' = [attempt EXCEPT ![task[h].of] = NoAttempt]
    BY <1>2 DEF SettleWhole, Mintable, Requests, RequestOK, TypeOK, Task
  <2>2. attempt[task[h].of].status \in {"none", "preparing"}
    BY <1>2 DEF SettleWhole, Mintable, Reusable
  <2>3. NoAttempt.intent = None /\ NoAttempt.status = "none"
    BY DEF NoAttempt
  <2>4. ~ OnWire(task[h].of)
    BY <2>2 DEF OnWire
  <2> QED BY <2>1, <2>3, <2>4, MoneyReleased
<1> QED
  BY <1>1, <1>2, RowMarked, MoneyMarked, MoneyUnchanged, MoneyMinted, MoneyArmed, MoneyRecorded, MoneySettled,
     MoneyWrittenOff, MoneyOnChain, WhoWritesIntents, WhoWritesAttempts, WhoWritesEvents

-----------------------------------------------------------------------------
(* What outlives a step.                                                   *)

\* An intent that was minted keeps its literals.
LEMMA IntentsStand ==
  ASSUME TypeOK, Requests, Claims, Payers, Next, NEW m \in Intents, intent[m].state # "none"
  PROVE  /\ intent'[m].state # "none" /\ intent'[m].of = intent[m].of
         /\ intent'[m].value = intent[m].value /\ intent'[m].netted = intent[m].netted
         /\ intent'[m].expires = intent[m].expires
<1>1. ASSUME NEW h \in Handlers, ArmRelay(h)
      PROVE  /\ intent'[m].state # "none" /\ intent'[m].of = intent[m].of
             /\ intent'[m].value = intent[m].value /\ intent'[m].netted = intent[m].netted
             /\ intent'[m].expires = intent[m].expires
  <2>1. intent'[task[h].tx].state # "none" /\ (m # task[h].tx => intent'[m] = intent[m])
    BY <1>1, ArmEffect
  <2> QED BY <1>1, <2>1, ArmEffect
<1>2. ASSUME NEW h \in Handlers, NEW n \in Intents, MintIntent(h, n)
      PROVE  intent'[m] = intent[m]
  BY <1>2, MintEffect
<1>3. ASSUME NEW n \in Intents, Reach(n) \/ Include(n)
      PROVE  /\ intent'[m].state # "none" /\ intent'[m].of = intent[m].of
             /\ intent'[m].value = intent[m].value /\ intent'[m].netted = intent[m].netted
             /\ intent'[m].expires = intent[m].expires
  <2>1. intent'[n].state # "none" /\ (m # n => intent'[m] = intent[m])
    BY <1>3, ChainMoves
  <2> QED BY <1>3, <2>1, ChainMoves
<1> QED BY <1>1, <1>2, <1>3, WhoWritesIntents

\* Time does not go back.
LEMMA ClockGrows ==
  ASSUME TypeOK, Next
  PROVE  clock' >= clock /\ clock \in Nat /\ clock' \in Nat
<1>1. clock \in Nat
  BY ParentPayoutAssumption DEF TypeOK, ParentPayoutAssumption
<1>2. UNCHANGED clock \/ clock' = clock + 1
  <2>1. Background => UNCHANGED clock \/ clock' = clock + 1
    BY DEF Background, world, StartSubmit, Submit, DirectReject, Reject, Buy, Honour, GiveBack,
       Confirm, WriteOff, Reach, Include, Tick
  <2>2. ASSUME NEW h \in Handlers, Approve(h) PROVE UNCHANGED clock
    BY <2>2 DEF Approve, world, StartApprove, StartDirect, NoHeight, AlreadyClaimed, AlreadySettled,
       MintIntent, SettleWhole
  <2>3. ASSUME NEW h \in Handlers, Relay(h) PROVE UNCHANGED clock
    BY <2>3 DEF Relay, world, StartRelay, RefuseRelay, ArmRelay, BroadcastFails, ClearDebt, WriteRow,
       RowTaken, SettleAttempt, Decide, Finish
  <2>4. ASSUME NEW h \in Handlers, Repay(h) PROVE UNCHANGED clock
    BY <2>4 DEF Repay, world, StartRepay, RepayFindsRow, RepayFindsNone, RepayReplays, RepayAnswered,
       RepayClaims, RepayThrows, MarkRepaid
  <2>5. Crash => UNCHANGED clock
    BY DEF Crash
  <2> QED BY <2>1, <2>2, <2>3, <2>4, <2>5, WhoMoves
<1> QED BY <1>1, <1>2

\* A debt cleared for a payout stays cleared.
LEMMA ClearedStands ==
  ASSUME TypeOK, Requests, Next, NEW c \in Chores, cleared[c] # 0
  PROVE  cleared'[c] = cleared[c]
<1>1. ASSUME NEW h \in Handlers, SettleWhole(h) PROVE cleared'[c] = cleared[c]
  BY <1>1 DEF SettleWhole, TypeOK
<1>2. ASSUME NEW h \in Handlers, ClearDebt(h) PROVE cleared'[c] = cleared[c]
  BY <1>2 DEF ClearDebt, TypeOK
<1> QED BY <1>1, <1>2, WhoWritesCleared

\* A ledger row stays, whatever becomes of its payment.
LEMMA RowsAreKept ==
  ASSUME TypeOK, Requests, Claims, IntentsOK, Ledger, Next, NEW e \in Events, event[e].of # None
  PROVE  event'[e].of = event[e].of /\ event'[e].hash = event[e].hash
<1>1. event[e].status # "none"
  BY DEF Ledger, RowOK
<1>2. ASSUME NEW h \in Handlers, NEW f \in Events, WriteRow(h, f) PROVE event'[e] = event[e]
  BY <1>1, <1>2, RowWritten
<1>3. ASSUME NEW f \in Events, WriteOff(f)
      PROVE event'[e].of = event[e].of /\ event'[e].hash = event[e].hash
  <2>1. CASE e = f
    BY <1>3, <2>1, WriteOffEffect
  <2>2. CASE e # f
    BY <1>3, <2>2, WriteOffEffect
  <2> QED BY <2>1, <2>2
<1> QED BY <1>2, <1>3, RowMarked, WhoWritesEvents DEF Marked

\* What was paid for stays paid for.
LEMMA PaidStands ==
  ASSUME TypeOK, Requests, Claims, IntentsOK, Ledger, Next, NEW c \in Chores, Paid(c)
  PROVE  Paid(c)'
<1>1. CASE cleared[c] # 0
  BY <1>1, ClearedStands DEF Paid
<1>2. CASE \E e \in Events : event[e].of = c
  BY <1>2, RowsAreKept, Nobody DEF Paid
<1> QED BY <1>1, <1>2 DEF Paid

\* No payment is written off under a request that acts for it.
LEMMA WriteOffAlone ==
  ASSUME TypeOK, Requests, Alone, Ledger, Payers, ~ Overlaps,
         NEW e \in Events, WriteOff(e), NEW h \in Handlers, task[h].of = event[e].of
  PROVE  task[h].pc \notin {"parse", "wire", "row", "settle"}
<1>1. ~ Relaying(event[e].of) /\ cpu = None /\ event[e].status = "pending"
  BY DEF WriteOff, Free
<1>2. task[h].pc # "settle"
  BY <1>1, Nobody DEF Alone
<1>3. e \in RowsFor(event[e].of)
  BY <1>1 DEF Ledger, RowOK, RowsFor
<1>4. ~ (task[h].act = "relay" /\ task[h].pc \in {"parse", "wire", "row", "settle"})
  BY <1>1 DEF Relaying
<1>5. ~ (task[h].act = "repay" /\ task[h].pc \in {"wire", "row"})
  BY <1>3 DEF Payers, PayerOK
<1>6. task[h].pc \in {"parse", "wire", "row", "settle"} =>
        task[h].act = "relay" \/ (task[h].act = "repay" /\ task[h].pc # "parse")
  BY Nobody DEF Requests, RequestOK, TypeOK, Task
<1> QED BY <1>2, <1>4, <1>5, <1>6

\* What a claim in flight or settled can become.
LEMMA ClaimStands ==
  ASSUME TypeOK, Requests, Claims, IntentsOK, Ledger, Payers, Next,
         NEW c \in Chores, OnWire(c), ~ \E e \in Events : WriteOff(e) /\ event[e].of = c
  PROVE  OnWire(c)' /\ attempt'[c].intent = attempt[c].intent
<1>1. ASSUME NEW h \in Handlers, SettleWhole(h) PROVE attempt'[c] = attempt[c]
  <2>1. attempt[task[h].of].status \in {"none", "preparing"}
    BY <1>1 DEF SettleWhole, Mintable, Reusable
  <2> QED BY <1>1, <2>1 DEF SettleWhole, OnWire, TypeOK
<1>2. ASSUME NEW h \in Handlers, NEW m \in Intents, MintIntent(h, m) PROVE attempt'[c] = attempt[c]
  <2>1. attempt[task[h].of].status \in {"none", "preparing"}
    BY <1>2 DEF MintIntent, Mintable, Reusable
  <2> QED BY <1>2, <2>1, MintEffect DEF OnWire
<1>3. ASSUME NEW h \in Handlers, ArmRelay(h)
      PROVE  OnWire(c)' /\ attempt'[c].intent = attempt[c].intent
  <2>1. CASE c = task[h].of
    BY <1>3, <2>1, ArmEffect, ArmsItsClaim DEF OnWire
  <2>2. CASE c # task[h].of
    BY <1>3, <2>2, ArmEffect DEF OnWire
  <2> QED BY <2>1, <2>2
<1>4. ASSUME NEW h \in Handlers, SettleAttempt(h)
      PROVE  OnWire(c)' /\ attempt'[c].intent = attempt[c].intent
  <2>1. CASE c = task[h].of
    BY <1>4, <2>1, SettleEffect DEF OnWire
  <2>2. CASE c # task[h].of
    BY <1>4, <2>2, SettleEffect DEF OnWire
  <2> QED BY <2>1, <2>2
<1>5. ASSUME NEW h \in Handlers, RepayClaims(h) \/ RepayThrows(h) PROVE attempt'[c] = attempt[c]
  BY <1>5 DEF RepayClaims, RepayThrows, OnWire, TypeOK
<1>6. ASSUME NEW e \in Events, WriteOff(e) PROVE attempt'[c] = attempt[c]
  BY <1>6, WriteOffEffect
<1> QED BY <1>1, <1>2, <1>3, <1>4, <1>5, <1>6, WhoWritesAttempts DEF OnWire

\* The claim a payer acts for keeps its intent.
LEMMA PayerKeepsClaim ==
  ASSUME TypeOK, Requests, Alone, Claims, IntentsOK, Ledger, Payers, ~ Overlaps, Next,
         NEW h \in Handlers, task[h].pc \in {"wire", "row", "settle"}
  PROVE  \E c \in Chores : /\ c = task[h].of /\ OnWire(c)'
                           /\ attempt'[c].intent = attempt[c].intent
<1>1. PICK c \in Chores : c = task[h].of /\ OnWire(c)
  BY DEF Requests, RequestOK, TypeOK, Task, Payers, PayerOK
<1>2. ~ \E e \in Events : WriteOff(e) /\ event[e].of = c
  BY <1>1, WriteOffAlone
<1>3. OnWire(c)' /\ attempt'[c].intent = attempt[c].intent
  BY <1>1, <1>2, ClaimStands
<1> QED BY <1>1, <1>3

\* A ledger row is held until its payment is written off.
LEMMA RowsStand ==
  ASSUME TypeOK, Requests, Claims, IntentsOK, Ledger, Next, NEW c \in Chores, RowsFor(c) # {},
         ~ \E e \in Events : WriteOff(e) /\ event[e].of = c
  PROVE  RowsFor(c)' # {}
<1>1. PICK r \in Events : event[r].of = c /\ event[r].held
  BY DEF RowsFor
<1>2. event[r].status # "none"
  BY <1>1, Nobody DEF Ledger, RowOK
<1>3. ASSUME NEW h \in Handlers, NEW f \in Events, WriteRow(h, f) PROVE event'[r] = event[r]
  BY <1>2, <1>3, RowWritten
<1>4. ASSUME NEW f \in Events, WriteOff(f) PROVE event'[r] = event[r]
  BY <1>1, <1>4, WriteOffEffect
<1>5. event'[r].of = c /\ event'[r].held
  BY <1>1, <1>3, <1>4, RowMarked, WhoWritesEvents DEF Marked
<1> QED BY <1>5 DEF RowsFor

\* While a repay looks for what to do, nobody else records its payment.
LEMMA RowsStayEmpty ==
  ASSUME TypeOK, Requests, Alone, Claims, IntentsOK, Ledger, Payers, Next,
         NEW h \in Handlers, task[h].act = "repay", RowsFor(task[h].of) = {},
         ~ \E e \in Events : WriteRow(h, e), NEW c \in Chores, c = task[h].of
  PROVE  RowsFor(c)' = {}
<1>1. ASSUME NEW g \in Handlers, NEW f \in Events, WriteRow(g, f) PROVE RowsFor(c)' = {}
  <2>1. g # h /\ task[g].pc = "row"
    BY <1>1, RowWritten
  <2>2. task[g].act \in {"relay", "repay"}
    BY <2>1, Nobody DEF Requests, RequestOK, TypeOK, Task
  <2>3. task[g].act = "relay" => task[g].of # c
    BY <2>1 DEF Alone, Relaying
  <2>4. task[g].act # "repay"
    BY <2>1, Nobody DEF Alone
  <2> QED BY <1>1, <2>2, <2>3, <2>4, RowWritten DEF RowsFor
<1>2. ASSUME NEW f \in Events, WriteOff(f) PROVE RowsFor(c)' = {}
  <2>1. event'[f].held = FALSE \/ ~ event'[f].held
    BY <1>2, WriteOffEffect
  <2>2. \A e \in Events : e # f => event'[e] = event[e]
    BY <1>2, WriteOffEffect
  <2> QED BY <2>1, <2>2 DEF RowsFor
<1>3. Marked => RowsFor(c)' = {}
  BY DEF Marked, RowsFor
<1> QED BY <1>1, <1>2, <1>3, RowMarked, WhoWritesEvents DEF RowsFor

\* A relay that may still be let through finds the claim of its intent.
LEMMA ClaimWaits ==
  ASSUME TypeOK, Requests, Alone, Claims, IntentsOK, Ledger, Payers, ~ Overlaps, Next,
         NEW g \in Handlers, task[g].pc = "parse", clock <= intent[task[g].want].expires
  PROVE  attempt'[task[g].of].intent = task[g].want
<1> DEFINE c == task[g].of
           m == task[g].want
<1>1. task[g].act = "relay" /\ c \in Chores /\ m \in Intents
  BY Nobody DEF Requests, RequestOK, TypeOK, Task
<1>2. attempt[c].intent = m /\ attempt[c].status # "none" /\ Relaying(c)
  BY <1>1, Nobody DEF Payers, PayerOK, Claims, ClaimOK, Relaying
<1>3. clock <= intent[m].expires /\ clock \in Nat /\ intent[m].expires \in Nat
  BY <1>1, ClockGrows DEF TypeOK, Intent
<1>4. ~ Reusable(c)
  BY <1>2, <1>3 DEF Reusable
<1>5. ASSUME NEW e \in Events, WriteOff(e) PROVE event[e].of # c
  BY <1>5, WriteOffAlone
<1>6. ASSUME NEW h \in Handlers, RepayThrows(h) PROVE task[h].of # c
  <2>1. task[h].act = "repay"
    BY <1>6, Nobody DEF RepayThrows, Requests, RequestOK, TypeOK, Task
  <2> QED BY <1>2, <2>1 DEF Alone
<1>7. ASSUME NEW h \in Handlers, Mintable(h) PROVE task[h].of # c
  BY <1>2, <1>4, <1>7 DEF Mintable
<1> HIDE DEF c, m
<1>8. ASSUME NEW h \in Handlers, SettleWhole(h) PROVE attempt'[c] = attempt[c]
  BY <1>7, <1>8 DEF SettleWhole, TypeOK
<1>9. ASSUME NEW h \in Handlers, NEW n \in Intents, MintIntent(h, n) PROVE attempt'[c] = attempt[c]
  <2>1. task[h].of # c
    BY <1>7, <1>9 DEF MintIntent
  <2> QED BY <1>1, <1>9, <2>1, MintEffect
<1>10. ASSUME NEW h \in Handlers, ArmRelay(h) PROVE attempt'[c].intent = m
  <2>1. CASE c = task[h].of
    BY <1>2, <1>10, <2>1, ArmEffect, ArmsItsClaim
  <2>2. CASE c # task[h].of
    BY <1>1, <1>2, <1>10, <2>2, ArmEffect
  <2> QED BY <2>1, <2>2
<1>11. ASSUME NEW h \in Handlers, SettleAttempt(h) PROVE attempt'[c].intent = m
  <2>1. CASE c = task[h].of
    BY <1>2, <1>11, <2>1, SettleEffect
  <2>2. CASE c # task[h].of
    BY <1>1, <1>2, <1>11, <2>2, SettleEffect
  <2> QED BY <2>1, <2>2
<1>12. ASSUME NEW h \in Handlers, RepayClaims(h) PROVE attempt'[c] = attempt[c]
  BY <1>2, <1>12 DEF RepayClaims, TypeOK
<1>13. ASSUME NEW h \in Handlers, RepayThrows(h) PROVE attempt'[c] = attempt[c]
  BY <1>1, <1>6, <1>13 DEF RepayThrows, TypeOK
<1>14. ASSUME NEW e \in Events, WriteOff(e) PROVE attempt'[c] = attempt[c]
  BY <1>1, <1>5, <1>14, WriteOffEffect
<1>15. attempt'[c].intent = m
  BY <1>2, <1>8, <1>9, <1>10, <1>11, <1>12, <1>13, <1>14, WhoWritesAttempts
<1> QED BY <1>15 DEF c, m

-----------------------------------------------------------------------------
(* Whoever acts for a transaction.                                         *)

\* A request that does not move still finds its claim after any step.
LEMMA PayerKept ==
  ASSUME TypeOK, Requests, Alone, Claims, IntentsOK, Ledger, Payers, ~ Overlaps, Next,
         NEW g \in Handlers, task'[g] = task[g],
         task[g].act = "repay" => ~ \E e \in Events : WriteRow(g, e)
  PROVE  PayerOK(g)'
<1>1. task'[g].pc = "parse" =>
        /\ intent'[task'[g].want].state # "none" /\ intent'[task'[g].want].of = task'[g].of
        /\ clock' <= intent'[task'[g].want].expires => attempt'[task'[g].of].intent = task'[g].want
  <2> SUFFICES ASSUME task[g].pc = "parse"
               PROVE  /\ intent'[task[g].want].state # "none" /\ intent'[task[g].want].of = task[g].of
                      /\ clock' <= intent'[task[g].want].expires =>
                           attempt'[task[g].of].intent = task[g].want
    OBVIOUS
  <2>1. task[g].want \in Intents
    BY Nobody DEF Requests, RequestOK, TypeOK, Task
  <2>2. intent[task[g].want].state # "none" /\ intent[task[g].want].of = task[g].of
    BY DEF Payers, PayerOK
  <2>3. /\ intent'[task[g].want].state # "none" /\ intent'[task[g].want].of = task[g].of
        /\ intent'[task[g].want].expires = intent[task[g].want].expires
    BY <2>1, <2>2, IntentsStand
  <2>4. intent[task[g].want].expires \in Nat
    BY <2>1 DEF TypeOK, Intent
  <2>5. clock' <= intent[task[g].want].expires => clock <= intent[task[g].want].expires
    BY <2>4, ClockGrows
  <2> QED BY <2>3, <2>5, ClaimWaits
<1>2. task'[g].pc \in {"wire", "row", "settle"} =>
        /\ attempt'[task'[g].of].status \in {"in_flight", "settled"}
        /\ attempt'[task'[g].of].intent = task'[g].tx
        /\ task'[g].act = "relay" => task'[g].want = task'[g].tx
  BY PayerKeepsClaim DEF Payers, PayerOK, OnWire
<1>3. task'[g].pc = "settle" => \E e \in Events : event'[e].of = task'[g].of /\ event'[e].held
  <2> SUFFICES ASSUME task[g].pc = "settle"
               PROVE  \E e \in Events : event'[e].of = task[g].of /\ event'[e].held
    OBVIOUS
  <2>1. PICK c \in Chores : c = task[g].of /\ RowsFor(c) # {}
    BY DEF Requests, RequestOK, TypeOK, Task, Payers, PayerOK
  <2>2. ~ \E e \in Events : WriteOff(e) /\ event[e].of = c
    BY <2>1, WriteOffAlone
  <2> QED BY <2>1, <2>2, RowsStand DEF RowsFor
<1>4. task'[g].act = "repay" /\ task'[g].pc \in {"attempt", "wire", "row", "prepare"} =>
        ~ \E e \in Events : event'[e].of = task'[g].of /\ event'[e].held
  <2> SUFFICES ASSUME task[g].act = "repay", task[g].pc \in {"attempt", "wire", "row", "prepare"}
               PROVE  ~ \E e \in Events : event'[e].of = task[g].of /\ event'[e].held
    OBVIOUS
  <2>1. PICK c \in Chores : c = task[g].of /\ RowsFor(c) = {}
    BY DEF Requests, RequestOK, TypeOK, Task, Payers, PayerOK
  <2> QED BY <2>1, RowsStayEmpty DEF RowsFor
<1>5. task'[g].pc \in {"decide", "finish"} =>
        cleared'[task'[g].of] # 0 \/ \E e \in Events : event'[e].of = task'[g].of
  <2> SUFFICES ASSUME task[g].pc \in {"decide", "finish"}
               PROVE  cleared'[task[g].of] # 0 \/ \E e \in Events : event'[e].of = task[g].of
    OBVIOUS
  <2>1. PICK c \in Chores : c = task[g].of /\ Paid(c)
    BY DEF Requests, RequestOK, TypeOK, Task, Payers, PayerOK
  <2> QED BY <2>1, PaidStands DEF Paid
<1> QED BY <1>1, <1>2, <1>3, <1>4, <1>5 DEF PayerOK, OnWire, RowsFor, Paid

\* A request that moves finds its claim at its next place.
LEMMA PayerMoves ==
  ASSUME TypeOK, Requests, Alone, Cards, Claims, IntentsOK, Ledger, Payers, ~ Overlaps, Next,
         NEW h \in Handlers, Approve(h) \/ Relay(h) \/ Repay(h)
  PROVE  PayerOK(h)'
<1> USE Nobody
<1>1. RequestMoves(h)
  BY HowARequestMoves
<1>2. ASSUME task'[h].pc \in {"idle", "height", "look", "mark"} PROVE PayerOK(h)'
  BY <1>2 DEF PayerOK
<1>3. CASE StartsMint(h) \/ StartsRepay(h) \/ Ends(h)
  BY <1>2, <1>3, IdleType DEF StartsMint, StartsRepay, Ends
<1>4. ASSUME NEW m \in Intents, StartRelay(h, m) PROVE PayerOK(h)'
  <2> DEFINE c == intent[m].of
             pc == IF RowsFor(c) # {} THEN "decide" ELSE "parse"
             t == [Idle EXCEPT !.pc = pc, !.act = "relay", !.of = c,
                               !.want = attempt[c].intent, !.tx = m]
  <2>1. task' = [task EXCEPT ![h] = t] /\ UNCHANGED <<attempt, intent, event, cleared, clock>>
    BY <1>4 DEF StartRelay, money, world
  <2>2. c \in Chores
    BY <1>4 DEF StartRelay, IntentsOK, IntentOK, TypeOK, Intent
  <2>3. attempt[c].intent # None
    BY <1>4 DEF StartRelay
  <2>4. t.pc = pc /\ t.act = "relay" /\ t.of = c /\ t.want = attempt[c].intent
    BY DEF Idle
  <2>5. intent[attempt[c].intent].of = c /\ intent[attempt[c].intent].state # "none"
    BY <2>2, <2>3 DEF Claims, ClaimOK
  <2> HIDE DEF t
  <2>6. task'[h] = t
    BY <2>1 DEF TypeOK
  <2>7. CASE RowsFor(c) # {}
    <3>1. task'[h].pc = "decide" /\ task'[h].of = c /\ task'[h].act = "relay"
      BY <2>4, <2>6, <2>7
    <3>2. \E e \in Events : event'[e].of = c
      BY <2>1, <2>7 DEF RowsFor
    <3> HIDE DEF c
    <3> QED BY <3>1, <3>2 DEF PayerOK, Paid
  <2>8. CASE RowsFor(c) = {}
    <3>1. task'[h].pc = "parse" /\ task'[h].of = c /\ task'[h].want = attempt[c].intent
          /\ task'[h].act = "relay"
      BY <2>4, <2>6, <2>8
    <3> HIDE DEF c
    <3> QED BY <2>1, <2>5, <3>1 DEF PayerOK
  <2> QED BY <2>7, <2>8
<1>5. ASSUME GoesOn(h) PROVE task'[h].act = task[h].act /\ task'[h].of = task[h].of
                              /\ task[h].of \in Chores /\ task[h].pc # "idle"
  BY <1>5 DEF GoesOn, Requests, RequestOK, TypeOK, Task
<1>6. ASSUME GoesOn(h), task'[h].pc \in {"decide", "finish"}, Paid(task[h].of) PROVE PayerOK(h)'
  <2>1. PICK c \in Chores : c = task[h].of /\ Paid(c)
    BY <1>5, <1>6
  <2>2. Paid(c)'
    BY <2>1, PaidStands
  <2> QED BY <1>5, <1>6, <2>1, <2>2 DEF PayerOK, Paid
<1>7. CASE SettleWhole(h)
  <2>1. task[h].of \in Chores /\ task[h].gross > 0 /\ task[h].gross \in Nat
    BY <1>7 DEF SettleWhole, Mintable, Requests, RequestOK, TypeOK, Task
  <2>2. cleared'[task[h].of] # 0
    BY <1>7, <2>1 DEF SettleWhole, TypeOK
  <2>3. task'[h].pc = "decide" /\ task'[h].of = task[h].of
    BY <1>7, MoveOne DEF SettleWhole
  <2>4. task'[h].act = "mint"
    BY <1>7, MoveOne DEF SettleWhole, Mintable, Requests, RequestOK, TypeOK, Task
  <2> QED BY <2>2, <2>3, <2>4 DEF PayerOK, Paid
<1>8. CASE ArmRelay(h)
  <2>1. /\ attempt'[task[h].of].status = "in_flight" /\ attempt'[task[h].of].intent = task[h].tx
        /\ task[h].want = task[h].tx /\ task[h].act = "relay"
    BY <1>8, ArmEffect, ArmsItsClaim
  <2>2. /\ task'[h].pc = "wire" /\ task'[h].of = task[h].of /\ task'[h].tx = task[h].tx
        /\ task'[h].want = task[h].want /\ task'[h].act = task[h].act
    BY <1>8, MoveOne DEF ArmRelay
  <2> QED BY <2>1, <2>2 DEF PayerOK, OnWire
<1>9. ASSUME task[h].pc \in {"wire", "row"}, task'[h].pc \in {"row", "settle"}, GoesOn(h),
             task'[h].tx = task[h].tx
      PROVE  /\ attempt'[task'[h].of].status \in {"in_flight", "settled"}
             /\ attempt'[task'[h].of].intent = task'[h].tx
             /\ task'[h].act = "relay" => task'[h].want = task'[h].tx
  BY <1>9, PayerKeepsClaim DEF Payers, PayerOK, OnWire, GoesOn
<1>10. CASE ClearDebt(h)
  <2>1. /\ task[h].pc = "wire" /\ task[h].act = "relay" /\ task'[h].pc = "row"
        /\ task'[h].tx = task[h].tx /\ task'[h].act = task[h].act
    BY <1>10, MoveOne DEF ClearDebt
  <2>2. GoesOn(h)
    BY <1>1, <2>1, IdleType DEF RequestMoves, StartsMint, StartsRelay, StartsRepay, Ends
  <2> QED BY <1>9, <2>1, <2>2 DEF PayerOK, OnWire
<1>11. CASE RepayAnswered(h)
  <2>1. /\ task[h].pc = "wire" /\ task[h].act = "repay" /\ task'[h].pc = "row"
        /\ task'[h].tx = task[h].tx /\ task'[h].act = task[h].act /\ UNCHANGED event
        /\ task'[h].of = task[h].of
    BY <1>11, MoveOne DEF RepayAnswered, money
  <2>2. GoesOn(h)
    BY <1>1, <2>1, IdleType DEF RequestMoves, StartsMint, StartsRelay, StartsRepay, Ends
  <2>3. RowsFor(task[h].of) = {}
    BY <2>1 DEF Payers, PayerOK
  <2>4. ~ \E e \in Events : event'[e].of = task'[h].of /\ event'[e].held
    BY <2>1, <2>3 DEF RowsFor
  <2> QED BY <1>9, <2>1, <2>2, <2>4 DEF PayerOK, OnWire, RowsFor
<1>12. ASSUME NEW e \in Events, WriteRow(h, e) PROVE PayerOK(h)'
  <2>1. /\ task[h].pc = "row" /\ task'[h].pc = "settle"
        /\ task'[h].tx = task[h].tx /\ task'[h].of = task[h].of
    BY <1>12, MoveOne DEF WriteRow, Runs
  <2>2. GoesOn(h)
    BY <1>1, <2>1, IdleType DEF RequestMoves, StartsMint, StartsRelay, StartsRepay, Ends
  <2>3. event'[e].of = task'[h].of /\ event'[e].held
    BY <1>12, <2>1, RowWritten
  <2> QED BY <1>9, <2>1, <2>2, <2>3 DEF PayerOK, OnWire, RowsFor
<1>13. CASE SettleAttempt(h)
  <2>1. task[h].pc = "settle" /\ task'[h].pc \in {"mark", "decide"}
    BY <1>13, MoveOne DEF SettleAttempt, Runs
  <2>2. GoesOn(h)
    BY <1>1, <2>1, IdleType DEF RequestMoves, StartsMint, StartsRelay, StartsRepay, Ends
  <2>3. Paid(task[h].of)
    BY <2>1 DEF Payers, PayerOK, Paid, RowsFor
  <2> QED BY <1>2, <1>6, <2>1, <2>2, <2>3
<1>14. CASE Decide(h)
  <2>1. task[h].pc = "decide" /\ task'[h].pc = "finish"
    BY <1>14, MoveOne DEF Decide
  <2>2. GoesOn(h)
    BY <1>1, <2>1, IdleType DEF RequestMoves, StartsMint, StartsRelay, StartsRepay, Ends
  <2>3. Paid(task[h].of)
    BY <2>1 DEF Payers, PayerOK
  <2> QED BY <1>6, <2>1, <2>2, <2>3
<1>15. CASE RepayFindsRow(h)
  BY <1>2, <1>15, MoveOne DEF RepayFindsRow
<1>16. CASE RepayFindsNone(h)
  <2>1. /\ RowsFor(task[h].of) = {} /\ UNCHANGED event
        /\ task'[h].pc = "attempt" /\ task'[h].of = task[h].of
    BY <1>16, MoveOne DEF RepayFindsNone, money
  <2> QED BY <2>1 DEF PayerOK, RowsFor
<1>17. CASE RepayClaims(h)
  <2>1. /\ task[h].pc = "attempt" /\ UNCHANGED event
        /\ task'[h].pc = "prepare" /\ task'[h].of = task[h].of
    BY <1>17, MoveOne DEF RepayClaims
  <2>2. RowsFor(task[h].of) = {}
    BY <2>1 DEF Payers, PayerOK, Requests, RequestOK, TypeOK, Task
  <2> QED BY <2>1, <2>2 DEF PayerOK, RowsFor
<1>18. CASE RepayReplays(h)
  <2> DEFINE b == attempt[task[h].of].bytes
  <2>1. /\ task[h].pc = "attempt" /\ attempt[task[h].of].status = "in_flight"
        /\ UNCHANGED <<event, attempt>>
        /\ task' = [task EXCEPT ![h].pc = "wire", ![h].tx = b]
    BY <1>18 DEF RepayReplays, money
  <2>2. task[h].act = "repay" /\ task[h].of \in Chores /\ RowsFor(task[h].of) = {}
    BY <2>1 DEF Payers, PayerOK, Requests, RequestOK, TypeOK, Task
  <2>3. b = attempt[task[h].of].intent
    BY <2>1, <2>2 DEF Claims, ClaimOK, OnWire
  <2> HIDE DEF b
  <2>4. task'[h] = [task[h] EXCEPT !.pc = "wire", !.tx = b] /\ task[h] \in Task
    BY <2>1 DEF TypeOK
  <2>5. task'[h].pc = "wire" /\ task'[h].tx = b /\ task'[h].of = task[h].of /\ task'[h].act = task[h].act
    BY <2>4 DEF Task
  <2>6. ~ \E e \in Events : event'[e].of = task'[h].of /\ event'[e].held
    BY <2>1, <2>2, <2>5 DEF RowsFor
  <2> QED BY <2>1, <2>2, <2>3, <2>5, <2>6 DEF PayerOK, OnWire, RowsFor
<1>19. ASSUME (\E a \in Approvals : StartApprove(h, a)) \/ (\E c \in Chores : StartDirect(h, c))
              \/ \E e \in Events : StartRepay(h, e)
       PROVE  PayerOK(h)'
  <2>1. task[h].pc = "idle" /\ lock = None /\ lock' = h
    BY <1>19 DEF StartApprove, StartDirect, StartRepay
  <2>2. StartsMint(h) \/ StartsRepay(h)
    BY <1>1, <2>1 DEF RequestMoves, StartsRelay, GoesOn, Ends
  <2> QED BY <1>3, <2>2
<1>20. ASSUME Done(h) PROVE PayerOK(h)'
  BY <1>2, <1>20, MoveOne, IdleType
<1>21. Approve(h) => \/ \E a \in Approvals : StartApprove(h, a)
                     \/ \E c \in Chores : StartDirect(h, c)
                     \/ Done(h) \/ SettleWhole(h)
  BY DEF Approve, NoHeight, AlreadyClaimed, AlreadySettled, MintIntent
<1>22. Relay(h) => \/ \E m \in Intents : StartRelay(h, m)
                   \/ ArmRelay(h) \/ ClearDebt(h) \/ \E e \in Events : WriteRow(h, e)
                   \/ SettleAttempt(h) \/ Decide(h) \/ Done(h)
  BY DEF Relay, RefuseRelay, BroadcastFails, RowTaken, Finish
<1>23. Repay(h) => \/ \E e \in Events : StartRepay(h, e)
                   \/ RepayFindsRow(h) \/ RepayFindsNone(h) \/ RepayReplays(h) \/ RepayAnswered(h)
                   \/ RepayClaims(h) \/ Done(h)
  BY DEF Repay, RepayThrows, MarkRepaid
<1> QED
  BY <1>4, <1>7, <1>8, <1>10, <1>11, <1>12, <1>13, <1>14, <1>15, <1>16, <1>17, <1>18, <1>19, <1>20,
     <1>21, <1>22, <1>23

\* Every step keeps what is said of those who act for a transaction.
LEMMA PayerStep ==
  ASSUME TypeOK, Requests, Alone, Cards, Claims, IntentsOK, Ledger, Payers, ~ Overlaps, Next
  PROVE  Payers'
<1>1. ASSUME NEW h \in Handlers, Approve(h) \/ Relay(h) \/ Repay(h), NEW g \in Handlers
      PROVE  PayerOK(g)'
  <2>1. CASE g = h
    BY <1>1, <2>1, PayerMoves
  <2>2. CASE g # h
    <3>1. task'[g] = task[g] /\ RequestMoves(h)
      BY <1>1, <2>2, HowARequestMoves DEF RequestMoves, OthersStay
    <3>2. ASSUME task[g].act = "repay", NEW e \in Events PROVE ~ WriteRow(g, e)
      <4>1. SUFFICES ASSUME WriteRow(g, e) PROVE FALSE
        OBVIOUS
      <4>2. task[g].pc = "row" /\ task'[g].pc = "settle"
        BY <4>1, MoveOne DEF WriteRow, Runs
      <4> QED BY <3>1, <4>2
    <3> QED BY <3>1, <3>2, PayerKept
  <2> QED BY <2>1, <2>2
<1>2. CASE Background
  <2>1. UNCHANGED task
    BY <1>2, BackgroundLeavesRequests
  <2>2. ASSUME NEW g \in Handlers, NEW e \in Events PROVE ~ WriteRow(g, e)
    BY <2>1, MoveOne DEF WriteRow, Runs
  <2> QED BY <2>1, <2>2, PayerKept DEF Payers
<1>3. CASE Crash
  BY <1>3, IdleType, Nobody DEF Crash, Payers, PayerOK
<1> QED BY <1>1, <1>2, <1>3, WhoMoves DEF Payers

-----------------------------------------------------------------------------
(* The chores and their cards.                                             *)

BoardMoves ==
  \/ UNCHANGED board
  \/ \E c \in Chores : Submit(c) \/ DirectReject(c)
  \/ \E a \in Approvals : Reject(a)
  \/ \E h \in Handlers :
       \/ \E a \in Approvals : StartApprove(h, a)
       \/ \E c \in Chores : StartDirect(h, c)
       \/ Decide(h) \/ Finish(h)

\* The actions that write chores and approvals.
LEMMA WhoWritesBoard == Next => BoardMoves
<1>1. ASSUME NEW h \in Handlers, Approve(h)
      PROVE  \/ UNCHANGED board \/ \E a \in Approvals : StartApprove(h, a)
             \/ \E c \in Chores : StartDirect(h, c)
  BY <1>1 DEF Approve, NoHeight, AlreadyClaimed, AlreadySettled, MintIntent, SettleWhole
<1>2. ASSUME NEW h \in Handlers, Relay(h) PROVE UNCHANGED board \/ Decide(h) \/ Finish(h)
  BY <1>2 DEF Relay, StartRelay, RefuseRelay, ArmRelay, BroadcastFails, ClearDebt, WriteRow,
     RowTaken, SettleAttempt
<1>3. ASSUME NEW h \in Handlers, Repay(h) PROVE UNCHANGED board
  BY <1>3 DEF Repay, StartRepay, RepayFindsRow, RepayFindsNone, RepayReplays, RepayAnswered,
     RepayClaims, RepayThrows, MarkRepaid
<1>4. ASSUME \/ \E c \in Chores : StartSubmit(c)
             \/ \E p \in Purchases : Buy(p) \/ Honour(p) \/ GiveBack(p)
             \/ \E e \in Events : Confirm(e) \/ WriteOff(e)
             \/ \E m \in Intents : Reach(m) \/ Include(m)
             \/ Tick \/ Crash
      PROVE  UNCHANGED board
  BY <1>4 DEF StartSubmit, Buy, Honour, GiveBack, Confirm, WriteOff, Reach, Include, Tick, Crash
<1>5. ASSUME NEW h \in Handlers, Approve(h) \/ Relay(h) \/ Repay(h) PROVE BoardMoves
  <2>1. CASE Approve(h)
    BY <1>1, <2>1 DEF BoardMoves
  <2>2. CASE Relay(h)
    BY <1>2, <2>2 DEF BoardMoves
  <2>3. CASE Repay(h)
    BY <1>3, <2>3 DEF BoardMoves
  <2> QED BY <1>5, <2>1, <2>2, <2>3
<1>6. UNCHANGED board => BoardMoves
  BY DEF BoardMoves
<1>7. (\E c \in Chores : Submit(c) \/ DirectReject(c)) \/ (\E a \in Approvals : Reject(a)) => BoardMoves
  BY DEF BoardMoves
<1> QED BY <1>4, <1>5, <1>6, <1>7 DEF Next

\* Opening an approval names its chore.
LEMMA CardOpened ==
  ASSUME TypeOK, Cards, NEW a \in Approvals, NEW c \in Chores, Opened(a, c)
  PROVE  Cards'
<1> DEFINE row == [status |-> "pending", of |-> c, share |-> None]
<1>1. row.status = "pending" /\ row.of = c
  OBVIOUS
<1>2. approval' = approval \/ approval' = [approval EXCEPT ![a] = row]
  BY DEF Opened
<1> HIDE DEF row
<1>3. approval' = [approval EXCEPT ![a] = row] => Cards'
  BY <1>1, Nobody DEF Cards, TypeOK
<1>4. approval' = approval => Cards'
  BY DEF Cards
<1> QED BY <1>2, <1>3, <1>4

\* A card that is decided keeps its chore.
LEMMA CardDecided ==
  ASSUME TypeOK, Cards, NEW v \in {"approved", "rejected"}, NEW S \in SUBSET Approvals,
         \A a \in S : approval[a].status = "pending",
         approval' = [a \in Approvals |->
           IF a \in S THEN [approval[a] EXCEPT !.status = v] ELSE approval[a]]
  PROVE  Cards'
<1>1. ASSUME NEW a \in Approvals PROVE approval'[a].status = "none" <=> approval'[a].of = None
  <2>1. approval[a] \in ApprovalRow
    BY DEF TypeOK
  <2>2. CASE a \in S
    <3>1. approval'[a] = [approval[a] EXCEPT !.status = v]
      BY <2>2
    <3>2. approval'[a].status = v /\ approval'[a].of = approval[a].of
      BY <2>1, <3>1 DEF ApprovalRow
    <3> QED BY <2>2, <3>2 DEF Cards
  <2>3. CASE a \notin S
    BY <2>3 DEF Cards
  <2> QED BY <2>2, <2>3
<1> QED BY <1>1 DEF Cards

\* A row that is in use keeps the name of its chore.
LEMMA CardsStep ==
  ASSUME TypeOK, Requests, Cards, Claims, IntentsOK, Ledger, Next
  PROVE  Cards'
<1>1. ASSUME NEW c \in Chores, Submit(c) PROVE Cards'
  BY <1>1, CardOpened DEF Submit
<1>2. ASSUME NEW h \in Handlers, NEW c \in Chores, StartDirect(h, c) PROVE Cards'
  BY <1>2, CardOpened DEF StartDirect
<1>3. ASSUME NEW c \in Chores, DirectReject(c) PROVE Cards'
  <2>1. PendingApprovals(c) \in SUBSET Approvals
        /\ \A a \in PendingApprovals(c) : approval[a].status = "pending"
    BY DEF PendingApprovals
  <2>2. approval' = [a \in Approvals |-> IF a \in PendingApprovals(c)
                       THEN [approval[a] EXCEPT !.status = "rejected"] ELSE approval[a]]
    BY <1>3 DEF DirectReject
  <2> QED BY <2>1, <2>2, CardDecided
<1>4. ASSUME NEW h \in Handlers, Decide(h) PROVE Cards'
  <2>1. PendingApprovals(task[h].of) \in SUBSET Approvals
        /\ \A a \in PendingApprovals(task[h].of) : approval[a].status = "pending"
    BY DEF PendingApprovals
  <2>2. approval' = [a \in Approvals |-> IF a \in PendingApprovals(task[h].of)
                       THEN [approval[a] EXCEPT !.status = "approved"] ELSE approval[a]]
    BY <1>4 DEF Decide
  <2> QED BY <2>1, <2>2, CardDecided
<1>5. ASSUME NEW a \in Approvals, Reject(a) PROVE Cards'
  <2>1. approval[a] \in ApprovalRow /\ approval[a].status = "pending"
    BY <1>5 DEF Reject, TypeOK
  <2>2. /\ approval'[a] = [approval[a] EXCEPT !.status = "rejected"]
        /\ \A b \in Approvals : b # a => approval'[b] = approval[b]
    BY <1>5 DEF Reject, TypeOK
  <2>3. approval'[a].status = "rejected" /\ approval'[a].of = approval[a].of
    BY <2>1, <2>2 DEF ApprovalRow
  <2>4. approval[a].of # None
    BY <2>1 DEF Cards
  <2>5. ASSUME NEW b \in Approvals PROVE approval'[b].status = "none" <=> approval'[b].of = None
    <3>1. CASE b = a
      BY <2>3, <2>4, <3>1
    <3>2. CASE b # a
      BY <2>2, <3>2 DEF Cards
    <3> QED BY <3>1, <3>2
  <2> QED BY <2>5 DEF Cards
<1>6. ASSUME NEW h \in Handlers, NEW a \in Approvals, StartApprove(h, a) PROVE Cards'
  <2>1. PICK bps \in ShareBps \cup {None} :
          approval' = IF bps = None THEN approval ELSE [approval EXCEPT ![a].share = bps]
    BY <1>6 DEF StartApprove
  <2>2. CASE bps = None
    BY <2>1, <2>2 DEF Cards
  <2>3. CASE bps # None
    <3>1. /\ approval'[a] = [approval[a] EXCEPT !.share = bps] /\ approval[a] \in ApprovalRow
          /\ \A b \in Approvals : b # a => approval'[b] = approval[b]
      BY <2>1, <2>3 DEF TypeOK
    <3>2. approval'[a].status = approval[a].status /\ approval'[a].of = approval[a].of
      BY <3>1 DEF ApprovalRow
    <3> QED BY <3>1, <3>2 DEF Cards
  <2> QED BY <2>2, <2>3
<1>7. ASSUME UNCHANGED board \/ \E h \in Handlers : Finish(h) PROVE Cards'
  BY <1>7 DEF board, Finish, Cards
<1> QED BY <1>1, <1>2, <1>3, <1>4, <1>5, <1>6, <1>7, WhoWritesBoard DEF BoardMoves

\* A chore turns approved with its payment on record, and that record stays.
LEMMA ApprovedStep ==
  ASSUME TypeOK, Requests, Cards, Claims, IntentsOK, Ledger, Payers, ApprovedIsPaidFor, Next
  PROVE  ApprovedIsPaidFor'
<1>1. ASSUME NEW c \in Chores, chore'[c] = "approved" PROVE Paid(c)
  <2>1. CASE chore[c] = "approved"
    BY <2>1 DEF ApprovedIsPaidFor, Paid
  <2>2. CASE chore[c] # "approved"
    <3>1. ASSUME NEW h \in Handlers, Finish(h) PROVE Paid(c)
      <4>1. c = task[h].of
        BY <1>1, <2>2, <3>1 DEF Finish, TypeOK
      <4> QED BY <3>1, <4>1 DEF Finish, Runs, Payers, PayerOK
    <3>2. ASSUME NEW d \in Chores, Submit(d) \/ DirectReject(d) PROVE FALSE
      BY <1>1, <2>2, <3>2 DEF Submit, DirectReject, TypeOK
    <3>3. ASSUME NEW a \in Approvals, Reject(a) PROVE FALSE
      BY <1>1, <2>2, <3>3 DEF Reject, TypeOK
    <3>4. ~ UNCHANGED chore
      BY <1>1, <2>2
    <3>5. ASSUME NEW h \in Handlers,
                 Decide(h) \/ (\E a \in Approvals : StartApprove(h, a))
                 \/ \E d \in Chores : StartDirect(h, d)
          PROVE  UNCHANGED chore
      BY <3>5 DEF Decide, StartApprove, StartDirect
    <3> QED BY <3>1, <3>2, <3>3, <3>4, <3>5, WhoWritesBoard DEF BoardMoves, board
  <2> QED BY <2>1, <2>2
<1>2. ASSUME NEW c \in Chores, chore'[c] = "approved" PROVE Paid(c)'
  BY <1>1, <1>2, PaidStands
<1> QED BY <1>2 DEF ApprovedIsPaidFor, Paid

-----------------------------------------------------------------------------
(* The invariant, and what it is for.                                      *)

\* The invariant holds at the start.
LEMMA InvInit == Init => IInv
<1> SUFFICES ASSUME Init PROVE IInv
  OBVIOUS
<1> USE Nobody DEF Init
<1>1. TypeOK
  BY TypeInit
<1>2. Requests /\ Alone
  BY DEF Requests, RequestOK, Alone, Idle
<1>3. Cards /\ Claims
  BY DEF Cards, NoApproval, Claims, ClaimOK, OnWire, NoAttempt
<1>4. IntentsOK
  BY DEF IntentsOK, IntentOK, Alive, NoIntent
<1>5. Ledger
  BY DEF Ledger, RowOK, NoEvent
<1>6. Payers
  BY DEF Payers, PayerOK, Idle
<1>7. ApprovedIsPaidFor
  BY DEF ApprovedIsPaidFor
<1> QED BY <1>1, <1>2, <1>3, <1>4, <1>5, <1>6, <1>7 DEF IInv

\* A step that changes nothing keeps the invariant.
LEMMA InvStutters == IInv /\ UNCHANGED vars => IInv'
<1> SUFFICES ASSUME IInv, UNCHANGED vars PROVE IInv'
  OBVIOUS
<1> USE DEF vars, IInv
<1>1. TypeOK'
  BY DEF TypeOK
<1>2. Requests' /\ Alone'
  BY DEF Requests, RequestOK, Alone, Relaying
<1>3. Cards'
  BY DEF Cards
<1>4. Claims' /\ IntentsOK' /\ Ledger'
  BY MoneyUnchanged
<1>5. Payers'
  BY DEF Payers, PayerOK, OnWire, RowsFor, Paid
<1>6. ApprovedIsPaidFor'
  BY DEF ApprovedIsPaidFor
<1> QED BY <1>1, <1>2, <1>3, <1>4, <1>5, <1>6

\* Every step keeps the invariant.
LEMMA InvStep ==
  ASSUME ~ Overlaps
  PROVE  IInv /\ [Next]_vars => IInv'
<1>1. ASSUME IInv, Next PROVE IInv'
  BY <1>1, TypeStep, RequestsStep, AloneStep, CardsStep, MoneyStep, PayerStep, ApprovedStep DEF IInv
<1> QED BY <1>1, InvStutters

\* The tables, the claims, the chain and every request in progress stay as the
\* invariant says, while no relay outlives the write-off or the repay of its
\* chore's payment.
THEOREM Invariant ==
  ASSUME ~ Overlaps
  PROVE  Spec => []IInv
  BY InvInit, InvStep, PTL DEF Spec

\* Every row and every request keeps its type.
THEOREM TypeCorrect ==
  ASSUME ~ Overlaps
  PROVE  Spec => []TypeOK
<1>1. IInv => TypeOK
  BY DEF IInv
<1> QED BY <1>1, Invariant, PTL

\* However many intents a chore was offered, and however late the parent's wallet
\* signs them, at most one signed transaction for it can still move money.
THEOREM OneSignatureCounts ==
  ASSUME ~ Overlaps
  PROVE  Spec => []AtMostOneAlive
<1>1. IInv => AtMostOneAlive
  BY DEF IInv, IntentsOK, IntentOK, AtMostOneAlive, AliveFor
<1> QED BY <1>1, Invariant, PTL

\* Bytes that may move money are behind a claim in flight or a ledger row, where
\* payoutMayHaveLanded sees them.
THEOREM MoneyIsTracked ==
  ASSUME ~ Overlaps
  PROVE  Spec => []NothingUntracked
<1>1. IInv => NothingUntracked
  <2> SUFFICES ASSUME IInv, NEW m \in Intents, Alive(m)
               PROVE  PayoutMayHaveLanded(intent[m].of)
    BY DEF NothingUntracked
  <2>1. intent[m].of \in Chores
    BY DEF IInv, IntentsOK, IntentOK, Alive, TypeOK, Intent
  <2>2. OnWire(intent[m].of)
    BY DEF IInv, IntentsOK, IntentOK
  <2> QED BY <2>1, <2>2 DEF IInv, Claims, ClaimOK, OnWire, PayoutMayHaveLanded
<1> QED BY <1>1, Invariant, PTL

\* A chore that reads approved was paid for, by a ledger row or a cleared debt.
THEOREM ApprovalsArePaidFor ==
  ASSUME ~ Overlaps
  PROVE  Spec => []ApprovedIsPaidFor
<1>1. IInv => ApprovedIsPaidFor
  BY DEF IInv
<1> QED BY <1>1, Invariant, PTL

\* Neither reject route turns a chore down whose payment is on the wire or has
\* arrived.
THEOREM RejectedMeansUnpaid ==
  ASSUME ~ Overlaps
  PROVE  Spec => RejectNeverBesidePayment
<1> DEFINE Turned == \A c \in Chores : chore[c] # "rejected" /\ chore'[c] = "rejected" => AliveFor(c) = {}
<1>1. ASSUME IInv, NEW c \in Chores, ~ PayoutMayHaveLanded(c) PROVE AliveFor(c) = {}
  BY <1>1 DEF IInv, IntentsOK, IntentOK, Claims, ClaimOK, OnWire, AliveFor, PayoutMayHaveLanded
<1>2. ASSUME IInv, Next PROVE Turned
  <2> USE <1>2
  <2>1. ASSUME NEW c \in Chores, DirectReject(c) PROVE Turned
    BY <1>1, <2>1 DEF DirectReject, IInv, TypeOK
  <2>2. ASSUME NEW a \in Approvals, Reject(a) PROVE Turned
    BY <1>1, <2>2 DEF Reject, IInv, TypeOK
  <2>3. ASSUME NEW c \in Chores, Submit(c) PROVE Turned
    BY <2>3 DEF Submit, IInv, TypeOK
  <2>4. ASSUME NEW h \in Handlers, Finish(h) PROVE Turned
    BY <2>4 DEF Finish, IInv, TypeOK
  <2>5. CASE UNCHANGED chore
    BY <2>5
  <2>6. ASSUME NEW h \in Handlers,
               Decide(h) \/ (\E a \in Approvals : StartApprove(h, a))
               \/ \E c \in Chores : StartDirect(h, c)
        PROVE  UNCHANGED chore
    BY <2>6 DEF Decide, StartApprove, StartDirect
  <2>7. UNCHANGED board => UNCHANGED chore
    BY DEF board
  <2> QED BY <2>1, <2>2, <2>3, <2>4, <2>5, <2>6, <2>7, WhoWritesBoard DEF BoardMoves
<1>3. IInv /\ [Next]_vars => [Turned]_vars
  BY <1>2
<1> QED BY <1>3, Invariant, PTL DEF Spec, RejectNeverBesidePayment

-----------------------------------------------------------------------------
(* What a step leaves of a pinned netting.                                 *)

\* The tables that are summed over are finite.
LEMMA FiniteTables ==
  IsFiniteSet(Chores) /\ IsFiniteSet(Purchases) /\ IsFiniteSet(Intents)
  BY ParentPayoutAssumption DEF ParentPayoutAssumption

\* What is pinned, cleared or committed for a chore is a number.
LEMMA CommittedType ==
  ASSUME TypeOK, NEW c \in Chores
  PROVE  Pinned[c] \in Nat /\ cleared[c] \in Nat /\ Committed(c) \in Nat
  BY PinnedType DEF TypeOK, Committed

\* The claim of a chore keeps its intent: it pins what it pinned.
LEMMA PinnedStands ==
  ASSUME IInv, Next, NEW c \in Chores, attempt'[c].intent = attempt[c].intent
  PROVE  /\ Pinned'[c] = Pinned[c]
         /\ attempt[c].intent # None =>
              intent'[attempt'[c].intent].expires = intent[attempt[c].intent].expires
<1>1. CASE attempt[c].intent = None
  BY <1>1 DEF Pinned
<1>2. CASE attempt[c].intent # None
  <2>1. PICK m \in Intents : m = attempt[c].intent /\ intent[m].state # "none"
    BY <1>2 DEF IInv, TypeOK, AttemptRow, Claims, ClaimOK
  <2>2. intent'[m].netted = intent[m].netted /\ intent'[m].expires = intent[m].expires
    BY <2>1, IntentsStand DEF IInv
  <2> QED BY <1>2, <2>1, <2>2 DEF Pinned
<1> QED BY <1>1, <1>2

\* Nothing happens to what is taken for this chore, but time may pass.
Quiet(c) ==
  /\ attempt'[c] = attempt[c] /\ cleared'[c] = cleared[c]
  /\ RowsFor(c) = {} => \A e \in Events : ~ (event'[e].of = c /\ event'[e].held)

\* A step that leaves the chore alone can only let its reservation lapse.
LEMMA NettingQuiet ==
  ASSUME IInv, Next, NEW c \in Chores, NettingOK(c), Quiet(c)
  PROVE  NettingOK(c)' /\ Committed(c)' <= Committed(c)
<1>1. /\ Pinned'[c] = Pinned[c]
      /\ attempt[c].intent # None =>
           intent'[attempt'[c].intent].expires = intent[attempt[c].intent].expires
  BY PinnedStands DEF Quiet
<1>2. NettingOK(c)'
  BY <1>1 DEF NettingOK, Quiet, RowsFor
<1>3. Pinned[c] \in Nat /\ cleared[c] \in Nat
  BY CommittedType DEF IInv
<1>4. clock' >= clock /\ clock \in Nat /\ clock' \in Nat
  BY ClockGrows DEF IInv
<1>5. attempt[c].intent # None => intent[attempt[c].intent].expires \in Nat
  BY DEF IInv, TypeOK, AttemptRow, Intent
<1>6. Reserves(c, clock)' => Reserves(c, clock)
  BY <1>1, <1>4, <1>5 DEF Reserves, Quiet
<1>7. Reserves(c, clock)' => Committed(c)' = Pinned[c] /\ Committed(c) = Pinned[c]
  BY <1>1, <1>6, Zenon DEF Committed
<1>8. ~ Reserves(c, clock)' => Committed(c)' = cleared[c]
  BY Zenon DEF Committed, Quiet
<1>9. ~ Reserves(c, clock) => Committed(c) = cleared[c]
  BY Zenon DEF Committed
<1>10. ASSUME ~ Reserves(c, clock)', Reserves(c, clock) PROVE cleared[c] = 0
  <2>1. attempt[c].status = "preparing"
    BY <1>10 DEF Reserves, Quiet
  <2> QED BY <2>1 DEF NettingOK
<1>11. Committed(c) \in Nat
  BY CommittedType DEF IInv
<1>12. Committed(c)' <= Committed(c)
  BY <1>3, <1>7, <1>8, <1>9, <1>10, <1>11
<1> QED BY <1>2, <1>12

-----------------------------------------------------------------------------
(* What the writes do to the chore they are about.                         *)

\* A relay whose intent has not expired arms a claim that still reserves its netting.
LEMMA NettingArmed ==
  ASSUME IInv, ~ ExactMs, Next, NEW h \in Handlers, ArmRelay(h), NEW c \in Chores, c = task[h].of,
         NettingOK(c)
  PROVE  NettingOK(c)' /\ Committed(c)' <= Committed(c)
<1>1. /\ attempt[c].intent = task[h].tx /\ task[h].tx \in Intents /\ clock <= intent[task[h].tx].expires
      /\ attempt[c].status # "none" /\ task[h].want = task[h].tx
  BY ArmsItsClaim DEF IInv
<1>2. attempt'[c].status = "in_flight" /\ attempt'[c].intent = task[h].tx
      /\ UNCHANGED <<event, cleared, clock>>
  BY ArmEffect DEF IInv
<1>3. Pinned'[c] = Pinned[c]
  BY <1>1, <1>2, PinnedStands
<1>4. clock # intent[task[h].tx].expires
  BY <1>1 DEF ArmRelay, Served
<1>5. clock \in Nat /\ intent[task[h].tx].expires \in Nat
  BY <1>1, ClockGrows DEF IInv, TypeOK, Intent
<1>6. intent[task[h].tx].expires > clock
  BY <1>1, <1>4, <1>5
<1>7. attempt[c].status \in {"preparing", "in_flight", "settled"}
  BY <1>1 DEF IInv, TypeOK, AttemptRow
<1>8. cleared[c] \in {0, Pinned[c]}
  BY <1>7 DEF NettingOK
<1>9. RowsFor(c)' = RowsFor(c)
  BY <1>2 DEF RowsFor
<1>10. NettingOK(c)'
  BY <1>2, <1>3, <1>8, <1>9 DEF NettingOK
<1>11. Reserves(c, clock)' /\ Committed(c)' = Pinned[c]
  BY <1>1, <1>2, <1>3, Nobody DEF Reserves, Committed
<1>12. Committed(c) = Pinned[c]
  BY <1>1, <1>6, <1>7, Nobody DEF Reserves, Committed, NettingOK
<1> QED BY <1>10, <1>11, <1>12, CommittedType DEF IInv

\* Clearing the debt of a payout takes what its claim pinned, once.
LEMMA NettingCleared ==
  ASSUME IInv, Next, NEW h \in Handlers, ClearDebt(h), NEW c \in Chores, c = task[h].of, NettingOK(c)
  PROVE  NettingOK(c)' /\ Committed(c)' <= Committed(c) /\ cleared'[c] = Pinned'[c]
<1>1. task[h].pc = "wire" /\ task[h].act = "relay" /\ UNCHANGED <<attempt, intent, event, clock>>
      /\ cleared' = [cleared EXCEPT ![c] = IF @ = 0 THEN intent[task[h].want].netted ELSE @]
  BY DEF ClearDebt, world
<1>2. OnWire(c) /\ attempt[c].intent = task[h].tx /\ task[h].want = task[h].tx /\ task[h].tx \in Intents
  BY <1>1 DEF IInv, Payers, PayerOK, Requests, RequestOK
<1>3. Pinned[c] = intent[task[h].want].netted /\ Pinned'[c] = Pinned[c]
  BY <1>1, <1>2, Nobody DEF Pinned
<1>4. cleared'[c] = IF cleared[c] = 0 THEN Pinned[c] ELSE cleared[c]
  BY <1>1, <1>3 DEF IInv, TypeOK
<1>5. cleared[c] \in {0, Pinned[c]}
  BY <1>2 DEF OnWire, NettingOK
<1>6. cleared'[c] = Pinned'[c]
  BY <1>3, <1>4, <1>5
<1>7. NettingOK(c)'
  BY <1>1, <1>2, <1>3, <1>6 DEF NettingOK, OnWire
<1>8. Reserves(c, clock)' <=> Reserves(c, clock)
  BY <1>1 DEF Reserves
<1>9. Committed(c)' = Committed(c)
  BY <1>2, <1>3, <1>6, <1>8, Nobody DEF Committed, Reserves, OnWire, NettingOK
<1> QED BY <1>6, <1>7, <1>9, CommittedType DEF IInv

\* The ledger row is written after the debt was cleared.
LEMMA NettingRecorded ==
  ASSUME IInv, Next, NEW h \in Handlers, NEW e \in Events, WriteRow(h, e),
         NEW c \in Chores, c = task[h].of, NettingOK(c), cleared[c] = Pinned[c]
  PROVE  NettingOK(c)' /\ Committed(c)' <= Committed(c)
<1>1. UNCHANGED <<attempt, intent, cleared, clock>>
  BY RowWritten DEF IInv
<1>2. Pinned'[c] = Pinned[c] /\ (Reserves(c, clock)' <=> Reserves(c, clock))
  BY <1>1 DEF Pinned, Reserves
<1>3. NettingOK(c)'
  BY <1>1, <1>2 DEF NettingOK
<1>4. Committed(c)' = Committed(c)
  BY <1>1, <1>2 DEF Committed
<1> QED BY <1>3, <1>4, CommittedType DEF IInv

\* A claim settles with its debt cleared: what it reserved is taken now.
LEMMA NettingSettled ==
  ASSUME IInv, Next, NEW h \in Handlers, SettleAttempt(h), NEW c \in Chores, c = task[h].of, NettingOK(c)
  PROVE  NettingOK(c)' /\ Committed(c)' <= Committed(c)
<1>1. /\ OnWire(c) /\ RowsFor(c) # {}
      /\ attempt'[c].status = "settled" /\ attempt'[c].intent = attempt[c].intent
      /\ UNCHANGED <<intent, event, cleared, clock>>
  BY SettleEffect DEF IInv
<1>2. cleared[c] = Pinned[c]
  BY <1>1 DEF NettingOK
<1>3. Pinned'[c] = Pinned[c]
  BY <1>1, PinnedStands
<1>4. NettingOK(c)'
  BY <1>1, <1>2, <1>3 DEF NettingOK
<1>5. Committed(c)' = cleared[c] /\ Committed(c) = cleared[c]
  BY <1>1, <1>2, <1>3 DEF Committed, Reserves
<1> QED BY <1>4, <1>5, CommittedType DEF IInv

\* A bounced payout frees its claim and keeps its settlement.
LEMMA NettingWrittenOff ==
  ASSUME IInv, Next, NEW e \in Events, WriteOff(e), NEW c \in Chores, c = event[e].of, NettingOK(c)
  PROVE  NettingOK(c)' /\ Committed(c)' <= Committed(c)
<1>1. /\ attempt'[c] = NoAttempt /\ event[e].held /\ ~ event'[e].held
      /\ \A f \in Events : f # e => event'[f] = event[f]
      /\ \A f \in Events : event[f].held /\ event[f].of = c => f = e
      /\ UNCHANGED <<intent, cleared, clock>>
  BY WriteOffEffect DEF IInv
<1>2. cleared[c] = Pinned[c]
  BY <1>1 DEF NettingOK, RowsFor
<1>3. RowsFor(c)' = {}
  BY <1>1 DEF RowsFor
<1>4. NettingOK(c)'
  BY <1>1, <1>3 DEF NettingOK, NoAttempt
<1>5. Committed(c)' = cleared[c] /\ Committed(c) = cleared[c]
  BY <1>1, <1>2 DEF Committed, Reserves, NoAttempt
<1> QED BY <1>4, <1>5, CommittedType DEF IInv

\* Before a mint nothing is taken for the chore, and after it no more than what
\* was nettable.
LEMMA NettingMinted ==
  ASSUME IInv, Next, NEW h \in Handlers, NEW m \in Intents, MintIntent(h, m),
         NEW c \in Chores, c = task[h].of, NettingOK(c)
  PROVE  /\ NettingOK(c)' /\ Committed(c) = 0
         /\ Committed(c)' <= NettableDebt(clock)
<1> DEFINE n == NettedOf(task[h].gross, NettableDebt(clock))
<1>1. /\ attempt'[c].status = "preparing" /\ attempt'[c].intent = m /\ intent'[m].netted = n
      /\ UNCHANGED <<event, cleared, clock>>
  BY MintEffect DEF IInv
<1>2. n \in Nat /\ n <= NettableDebt(clock) /\ NettableDebt(clock) \in Nat
  BY NettedType, NettableType DEF IInv, TypeOK, Task
<1> HIDE DEF n
<1>3. \/ attempt[c].status = "none" /\ cleared[c] = 0
      \/ Reusable(c)
  BY DEF MintIntent, Mintable
<1>4. cleared[c] = 0
  BY <1>3 DEF Reusable, NettingOK
<1>5. clock \in Nat /\ (attempt[c].intent # None => intent[attempt[c].intent].expires \in Nat)
  BY ClockGrows DEF IInv, TypeOK, AttemptRow, Intent
<1>6. ~ Reserves(c, clock)
  BY <1>3, <1>5 DEF Reserves, Reusable
<1>7. Committed(c) = 0
  BY <1>4, <1>6 DEF Committed
<1>8. Pinned'[c] = n
  BY <1>1, Nobody DEF Pinned
<1>9. Committed(c)' \in {n, 0}
  BY <1>1, <1>4, <1>8 DEF Committed
<1>10. ~ OnWire(c)
  BY <1>3 DEF OnWire, Reusable
<1>11. RowsFor(c)' = {}
  BY <1>1, <1>10, NothingOut DEF IInv, RowsFor
<1>12. NettingOK(c)'
  BY <1>1, <1>4, <1>11 DEF NettingOK
<1> QED BY <1>2, <1>7, <1>9, <1>12

\* A debt that eats the payout whole is cleared out of what was nettable.
LEMMA NettingWhole ==
  ASSUME IInv, Next, NEW h \in Handlers, SettleWhole(h), NEW c \in Chores, c = task[h].of, NettingOK(c)
  PROVE  /\ NettingOK(c)' /\ Committed(c) = 0
         /\ Committed(c)' <= NettableDebt(clock)
<1>1. /\ attempt' = [attempt EXCEPT ![c] = NoAttempt]
      /\ cleared' = [cleared EXCEPT ![c] = IF @ = 0 THEN task[h].gross ELSE @]
      /\ NettedOf(task[h].gross, NettableDebt(clock)) = task[h].gross
      /\ UNCHANGED <<event, intent, clock>>
  BY DEF SettleWhole, world
<1>2. /\ task[h].gross \in Nat /\ task[h].gross <= NettableDebt(clock) /\ NettableDebt(clock) \in Nat
  <2>1. task[h].gross \in Nat /\ NettableDebt(clock) \in Nat
    BY NettableType DEF IInv, TypeOK, Task
  <2>2. NettedOf(task[h].gross, NettableDebt(clock)) <= NettableDebt(clock)
    BY <2>1, NettedType
  <2> QED BY <1>1, <2>1, <2>2
<1>3. \/ attempt[c].status = "none" /\ cleared[c] = 0
      \/ Reusable(c)
  BY DEF SettleWhole, Mintable
<1>4. cleared[c] = 0
  BY <1>3 DEF Reusable, NettingOK
<1>5. clock \in Nat /\ (attempt[c].intent # None => intent[attempt[c].intent].expires \in Nat)
  BY ClockGrows DEF IInv, TypeOK, AttemptRow, Intent
<1>6. ~ Reserves(c, clock)
  BY <1>3, <1>5 DEF Reserves, Reusable
<1>7. Committed(c) = 0
  BY <1>4, <1>6 DEF Committed
<1>8. attempt'[c].status = "none" /\ attempt'[c].intent = None /\ cleared'[c] = task[h].gross
  BY <1>1, <1>4 DEF IInv, TypeOK, NoAttempt
<1>9. Committed(c)' = task[h].gross
  BY <1>8 DEF Committed, Reserves
<1>10. ~ OnWire(c)
  BY <1>3 DEF OnWire, Reusable
<1>11. RowsFor(c)' = {}
  BY <1>1, <1>10, NothingOut DEF IInv, RowsFor
<1>12. NettingOK(c)'
  BY <1>8, <1>11 DEF NettingOK
<1> QED BY <1>2, <1>7, <1>9, <1>12

-----------------------------------------------------------------------------
(* One chore at a time.                                                    *)

NoRepay == \A h \in Handlers : task[h].act # "repay"

\* A payment that was written off stays so.
LEMMA FailedStands ==
  ASSUME TypeOK, Requests, Claims, IntentsOK, Ledger, Next, NEW e \in Events, event[e].status = "failed"
  PROVE  event'[e].status = "failed"
<1>1. ASSUME NEW h \in Handlers, NEW f \in Events, WriteRow(h, f) PROVE event'[e].status = "failed"
  BY <1>1, RowWritten
<1>2. ASSUME NEW f \in Events, WriteOff(f) PROVE event'[e].status = "failed"
  BY <1>2, WriteOffEffect
<1>3. ASSUME NEW f \in Events, Confirm(f) PROVE event'[e].status = "failed"
  BY <1>3 DEF Confirm, TypeOK
<1>4. ASSUME NEW h \in Handlers, MarkRepaid(h) PROVE event'[e].status = "failed"
  <2>1. event' = [event EXCEPT ![task[h].ev].repaid = TRUE]
    BY <1>4 DEF MarkRepaid
  <2>2. event[e] \in EventRow
    BY DEF TypeOK
  <2>3. event'[e] = event[e] \/ event'[e] = [event[e] EXCEPT !.repaid = TRUE]
    BY <2>1 DEF TypeOK
  <2> QED BY <2>2, <2>3 DEF EventRow
<1> QED BY <1>1, <1>2, <1>3, <1>4, WhoWritesEvents

\* So once a repay is possible it stays possible.
LEMMA RepayStaysPossible ==
  ASSUME IInv, Next, RepayPossible
  PROVE  RepayPossible'
<1>1. RepayButton /\ \E e \in Events : event'[e].status = "failed"
  BY FailedStands DEF RepayPossible, IInv
<1> QED BY <1>1 DEF RepayPossible

\* Where no repay is possible no request is a repay.
LEMMA NoRepayStep ==
  ASSUME IInv, NoRepay, ~ RepayPossible, Next
  PROVE  NoRepay'
<1>1. ASSUME NEW h \in Handlers, Approve(h) \/ Relay(h) \/ Repay(h) PROVE NoRepay'
  <2>1. RequestMoves(h)
    BY <1>1, HowARequestMoves DEF IInv
  <2>2. ~ StartsRepay(h)
    <3>1. ~ \E e \in Events : StartRepay(h, e)
      BY DEF StartRepay, RepayPossible
    <3>2. ASSUME Approve(h) PROVE task'[h].act # "repay"
      <4>1. ASSUME NEW a \in Approvals, StartApprove(h, a) PROVE task'[h].act # "repay"
        <5> DEFINE t == [Idle EXCEPT !.pc = "height", !.act = "mint", !.of = approval[a].of,
                           !.gross = ApplyShare(Price[approval[a].of], approval'[a].share)]
        <5>1. t.act = "mint" /\ task' = [task EXCEPT ![h] = t]
          BY <4>1 DEF StartApprove, Idle
        <5> HIDE DEF t
        <5> QED BY <5>1, MoveOne DEF IInv
      <4>2. ASSUME NEW c \in Chores, StartDirect(h, c) PROVE task'[h].act # "repay"
        <5> DEFINE t == [Idle EXCEPT !.pc = "height", !.act = "mint", !.of = c, !.gross = Price[c]]
        <5>1. t.act = "mint" /\ task' = [task EXCEPT ![h] = t]
          BY <4>2 DEF StartDirect, Idle
        <5> HIDE DEF t
        <5> QED BY <5>1, MoveOne DEF IInv
      <4>3. Done(h) => task'[h].act # "repay"
        BY MoveOne, IdleType, Nobody DEF IInv
      <4>4. SettleWhole(h) => task'[h].act # "repay"
        BY MoveOne DEF SettleWhole, NoRepay, IInv
      <4> QED BY <3>2, <4>1, <4>2, <4>3, <4>4 DEF Approve, NoHeight, AlreadyClaimed, AlreadySettled, MintIntent
    <3>3. ASSUME Relay(h) PROVE ~ StartsRepay(h)
      <4>1. ASSUME NEW m \in Intents, StartRelay(h, m) PROVE ~ StartsRepay(h)
        BY <4>1, Nobody DEF StartRelay, StartsRepay
      <4>2. RefuseRelay(h) \/ ArmRelay(h) \/ BroadcastFails(h) \/ ClearDebt(h)
            \/ (\E e \in Events : WriteRow(h, e))
            \/ RowTaken(h) \/ SettleAttempt(h) \/ Decide(h) \/ Finish(h) => task[h].pc # "idle"
        BY DEF RefuseRelay, ArmRelay, BroadcastFails, ClearDebt, WriteRow, RowTaken,
           SettleAttempt, Decide, Finish, Runs
      <4> QED BY <3>3, <4>1, <4>2 DEF Relay, StartsRepay
    <3>4. Repay(h) => task[h].pc # "idle"
      BY <3>1 DEF Repay, RepayFindsRow, RepayFindsNone, RepayReplays, RepayAnswered, RepayClaims,
         RepayThrows, MarkRepaid
    <3> QED BY <1>1, <3>2, <3>3, <3>4 DEF StartsRepay
  <2> QED BY <2>1, <2>2, IdleType, Nobody
          DEF RequestMoves, OthersStay, StartsMint, StartsRelay, GoesOn, Ends, NoRepay
<1>2. CASE Background
  BY <1>2, BackgroundLeavesRequests DEF NoRepay
<1>3. CASE Crash
  BY <1>3, IdleType, Nobody DEF Crash, NoRepay
<1> QED BY <1>1, <1>2, <1>3, WhoMoves

\* So none of its writes happens.
LEMMA RepaysNothing ==
  ASSUME IInv, NoRepay, NEW h \in Handlers
  PROVE  ~ RepayClaims(h) /\ ~ RepayThrows(h) /\ ~ RepayAnswered(h)
<1>1. task[h].pc \notin {"attempt", "prepare"}
  BY Nobody DEF IInv, NoRepay, Requests, RequestOK, TypeOK, Task
<1> QED BY <1>1 DEF RepayClaims, RepayThrows, RepayAnswered, NoRepay

\* A write that is about a chore.
Touches(c) ==
  \/ \E h \in Handlers :
       /\ task[h].of = c
       /\ \/ SettleWhole(h) \/ ArmRelay(h) \/ ClearDebt(h) \/ SettleAttempt(h)
          \/ \E m \in Intents : MintIntent(h, m)
          \/ \E e \in Events : WriteRow(h, e)
  \/ \E e \in Events : WriteOff(e) /\ event[e].of = c

\* A step that does not touch a chore leaves its claim, its debt and its rows alone.
LEMMA UntouchedIsQuiet ==
  ASSUME IInv, NoRepay, Next, NEW c \in Chores, ~ Touches(c)
  PROVE  Quiet(c)
<1> USE DEF IInv
<1>1. attempt'[c] = attempt[c]
  <2>1. ASSUME NEW h \in Handlers, SettleWhole(h) PROVE attempt'[c] = attempt[c]
    BY <2>1 DEF SettleWhole, Touches, TypeOK
  <2>2. ASSUME NEW h \in Handlers, ArmRelay(h) PROVE attempt'[c] = attempt[c]
    BY <2>2, ArmEffect DEF Touches
  <2>3. ASSUME NEW h \in Handlers, SettleAttempt(h) PROVE attempt'[c] = attempt[c]
    BY <2>3, SettleEffect DEF Touches
  <2>4. ASSUME NEW h \in Handlers, NEW m \in Intents, MintIntent(h, m) PROVE attempt'[c] = attempt[c]
    BY <2>4, MintEffect DEF Touches
  <2>5. ASSUME NEW e \in Events, WriteOff(e) PROVE attempt'[c] = attempt[c]
    BY <2>5, WriteOffEffect DEF Touches
  <2> QED BY <2>1, <2>2, <2>3, <2>4, <2>5, RepaysNothing, WhoWritesAttempts
<1>2. cleared'[c] = cleared[c]
  <2>1. ASSUME NEW h \in Handlers, SettleWhole(h) PROVE cleared'[c] = cleared[c]
    BY <2>1 DEF SettleWhole, Touches, TypeOK
  <2>2. ASSUME NEW h \in Handlers, ClearDebt(h) PROVE cleared'[c] = cleared[c]
    BY <2>2 DEF ClearDebt, Touches, TypeOK
  <2> QED BY <2>1, <2>2, WhoWritesCleared
<1>3. ASSUME RowsFor(c) = {}, NEW r \in Events PROVE ~ (event'[r].of = c /\ event'[r].held)
  <2>1. ASSUME NEW h \in Handlers, NEW e \in Events, WriteRow(h, e)
        PROVE  event'[r].of = c => event'[r] = event[r]
    <3>1. task[h].of # c
      BY <2>1 DEF Touches
    <3>2. event'[e].of = task[h].of /\ (r # e => event'[r] = event[r])
      BY <2>1, RowWritten
    <3> QED BY <3>1, <3>2
  <2>2. ASSUME NEW e \in Events, WriteOff(e) PROVE ~ event'[r].held \/ event'[r] = event[r]
    <3>1. ~ event'[e].held /\ (r # e => event'[r] = event[r])
      BY <2>2, WriteOffEffect
    <3> QED BY <3>1
  <2>3. Marked => event'[r].of = event[r].of /\ event'[r].held = event[r].held
    BY DEF Marked
  <2> QED BY <1>3, <2>1, <2>2, <2>3, RowMarked, WhoWritesEvents DEF RowsFor
<1> QED BY <1>1, <1>2, <1>3 DEF Quiet

\* What a payout of this chore may take grows by a mint only.
Takes(c) == \E h \in Handlers :
  task[h].of = c /\ (SettleWhole(h) \/ \E m \in Intents : MintIntent(h, m))

Netted == \A h \in Handlers : task[h].pc \in {"row", "settle"} => cleared[task[h].of] = Pinned[task[h].of]

\* Step by step: only a mint takes more for a chore, and no more than is nettable.
LEMMA NettingEach ==
  ASSUME IInv, NoRepay, ~ ExactMs, Next, Netted, NEW c \in Chores, NettingOK(c)
  PROVE  /\ NettingOK(c)'
         /\ \/ Committed(c)' <= Committed(c)
            \/ Takes(c) /\ Committed(c) = 0 /\ Committed(c)' <= NettableDebt(clock)
<1>1. CASE ~ Touches(c)
  BY <1>1, UntouchedIsQuiet, NettingQuiet
<1>2. ASSUME NEW h \in Handlers, task[h].of = c, SettleWhole(h)
      PROVE  NettingOK(c)' /\ Takes(c) /\ Committed(c) = 0 /\ Committed(c)' <= NettableDebt(clock)
  BY <1>2, NettingWhole DEF Takes
<1>3. ASSUME NEW h \in Handlers, task[h].of = c, NEW m \in Intents, MintIntent(h, m)
      PROVE  NettingOK(c)' /\ Takes(c) /\ Committed(c) = 0 /\ Committed(c)' <= NettableDebt(clock)
  BY <1>3, NettingMinted DEF Takes
<1>4. ASSUME NEW h \in Handlers, task[h].of = c, ArmRelay(h) \/ ClearDebt(h) \/ SettleAttempt(h)
      PROVE  NettingOK(c)' /\ Committed(c)' <= Committed(c)
  BY <1>4, NettingArmed, NettingCleared, NettingSettled
<1>5. ASSUME NEW h \in Handlers, task[h].of = c, NEW e \in Events, WriteRow(h, e)
      PROVE  NettingOK(c)' /\ Committed(c)' <= Committed(c)
  <2>1. task[h].pc = "row"
    BY <1>5, RowWritten DEF IInv
  <2> QED BY <1>5, <2>1, NettingRecorded DEF Netted
<1>6. ASSUME NEW e \in Events, event[e].of = c, WriteOff(e)
      PROVE  NettingOK(c)' /\ Committed(c)' <= Committed(c)
  BY <1>6, NettingWrittenOff
<1> QED BY <1>1, <1>2, <1>3, <1>4, <1>5, <1>6 DEF Touches

\* A relay that goes on to the ledger has cleared the debt its payout carried.
LEMMA NettedStep ==
  ASSUME IInv, NoRepay, ~ Overlaps, Next, Netted, \A c \in Chores : NettingOK(c)
  PROVE  Netted'
<1> USE DEF IInv
<1>1. ASSUME NEW g \in Handlers, task[g].pc \in {"row", "settle"}, NEW c \in Chores, c = task[g].of
      PROVE  cleared'[c] = Pinned'[c]
  <2>1. OnWire(c) /\ cleared[c] = Pinned[c]
    BY <1>1 DEF Payers, PayerOK, Netted
  <2>2. attempt'[c].intent = attempt[c].intent
    BY <1>1, PayerKeepsClaim
  <2>3. Pinned'[c] = Pinned[c]
    BY <2>2, PinnedStands
  <2>4. ASSUME NEW h \in Handlers, ClearDebt(h) PROVE cleared'[c] = Pinned'[c]
    <3>1. CASE task[h].of = c
      BY <2>4, <3>1, NettingCleared
    <3>2. CASE task[h].of # c
      BY <2>1, <2>3, <2>4, <3>2 DEF ClearDebt, TypeOK
    <3> QED BY <3>1, <3>2
  <2>5. ASSUME NEW h \in Handlers, SettleWhole(h) PROVE cleared'[c] = cleared[c]
    <3>1. task[h].of # c
      BY <2>1, <2>5 DEF SettleWhole, Mintable, Reusable, OnWire
    <3> QED BY <2>5, <3>1 DEF SettleWhole, TypeOK
  <2> QED BY <2>1, <2>3, <2>4, <2>5, WhoWritesCleared
<1>2. ASSUME NEW h \in Handlers, Approve(h) \/ Relay(h) \/ Repay(h),
             NEW g \in Handlers, task'[g].pc \in {"row", "settle"}, NEW c \in Chores, c = task'[g].of
      PROVE  cleared'[c] = Pinned'[c]
  <2>1. RequestMoves(h)
    BY <1>2, HowARequestMoves
  <2>2. CASE task[g].pc \in {"row", "settle"} /\ task[g].of = c
    BY <1>1, <2>2
  <2>3. CASE ~ (task[g].pc \in {"row", "settle"} /\ task[g].of = c)
    <3>1. g = h
      BY <1>2, <2>1, <2>3 DEF RequestMoves, OthersStay
    <3>2. task[h].pc = "wire" /\ task[h].of = c /\ task'[h].pc = "row"
      BY <1>2, <2>1, <2>3, <3>1, IdleType
      DEF RequestMoves, StartsMint, StartsRelay, StartsRepay, GoesOn, Ends
    <3>3. Approve(h) => task[h].pc \in {"idle", "height"}
      BY DEF Approve, StartApprove, StartDirect, NoHeight, AlreadyClaimed, AlreadySettled,
         MintIntent, SettleWhole, Mintable
    <3>4. Repay(h) => task[h].pc # "wire" \/ RepayAnswered(h)
      BY DEF Repay, StartRepay, RepayFindsRow, RepayFindsNone, RepayReplays, RepayClaims,
         RepayThrows, MarkRepaid
    <3>5. Relay(h) => task[h].pc # "wire" \/ Done(h) \/ ClearDebt(h)
      BY DEF Relay, StartRelay, RefuseRelay, ArmRelay, BroadcastFails, WriteRow, RowTaken,
         SettleAttempt, Decide, Finish, Runs
    <3>6. ~ Done(h)
      BY <3>2, MoveOne, IdleType
    <3>7. ClearDebt(h)
      BY <1>2, <3>2, <3>3, <3>4, <3>5, <3>6, RepaysNothing
    <3> QED BY <3>2, <3>7, NettingCleared
  <2> QED BY <2>2, <2>3
<1>3. ASSUME NEW g \in Handlers, task'[g].pc \in {"row", "settle"}, NEW c \in Chores, c = task'[g].of
      PROVE  cleared'[c] = Pinned'[c]
  <2>1. CASE Background
    <3>1. task' = task
      BY <2>1, BackgroundLeavesRequests
    <3> QED BY <1>1, <1>3, <3>1
  <2>2. CASE Crash
    BY <1>3, <2>2, IdleType DEF Crash
  <2> QED BY <1>2, <1>3, <2>1, <2>2, WhoMoves
<1>4. ASSUME NEW g \in Handlers, task'[g].pc \in {"row", "settle"} PROVE task'[g].of \in Chores
  BY <1>4, RequestsStep, TypeStep DEF Requests, RequestOK, TypeOK, Task
<1> QED BY <1>3, <1>4 DEF Netted

-----------------------------------------------------------------------------
(* The sums.                                                               *)

\* Debts add up to a number.
LEMMA DebtsType ==
  ASSUME TypeOK, NEW K
  PROVE  Debts(K) \in Nat /\ IsFiniteSet({p \in Purchases : debit[p] \in K})
<1>1. IsFiniteSet({p \in Purchases : debit[p] \in K})
  BY FiniteTables, FS_Subset
<1>2. \A p \in {q \in Purchases : debit[q] \in K} : Cost[p] \in Nat
  BY ParentPayoutAssumption DEF ParentPayoutAssumption
<1> QED BY <1>1, <1>2, SumNat DEF Debts

\* And so do settlements.
LEMMA SettledType ==
  ASSUME TypeOK
  PROVE  Settled \in Nat
  BY FiniteTables, SumNat DEF Settled, TypeOK

\* What is counted is a number, now and after a step.
Counts ==
  /\ \A c \in Chores : Committed(c) \in Nat
  /\ Debts({"purchase"}) \in Nat /\ Debts({"hold", "purchase"}) \in Nat
  /\ Settled \in Nat

\* The counts are numbers in every well-typed state ...
LEMMA CountsType == TypeOK => Counts
  BY CommittedType, DebtsType, SettledType DEF Counts

\* ... and so after every step.
LEMMA CountsStep ==
  ASSUME IInv, Next
  PROVE  Counts'
<1>1. TypeOK'
  BY TypeStep DEF IInv
<1> QED BY <1>1, CountsType, PTL

\* Debts of more kinds are more debt.
LEMMA DebtsGrow ==
  ASSUME NEW S, NEW T, S \subseteq T, T \subseteq Purchases
  PROVE  SumFunctionOnSet(Cost, S) <= SumFunctionOnSet(Cost, T)
<1>1. IsFiniteSet(T) /\ S \in SUBSET T
  BY FiniteTables, FS_Subset
<1>2. \A p \in T : Cost[p] \in Nat
  BY ParentPayoutAssumption DEF ParentPayoutAssumption
<1> QED BY <1>1, <1>2, SumSubset

CommittedAll == SumFunctionOnSet([c \in Chores |-> Committed(c)], Chores)

\* What payouts take is cleared already or reserved: what a mint finds nettable
\* is owed on top of it.
LEMMA NettableIsFree ==
  ASSUME IInv, \A c \in Chores : NettingOK(c), CommittedAll <= Debts({"purchase"}),
         NEW n \in Nat, n <= NettableDebt(clock)
  PROVE  CommittedAll \in Nat /\ CommittedAll + n <= Debts({"purchase"})
<1> DEFINE R == {c \in Chores : Reserves(c, clock)}
           f == [c \in Chores |-> Committed(c)]
           r == [c \in Chores |-> IF c \in R THEN Pinned[c] ELSE 0]
           s == [c \in Chores |-> cleared[c] + r[c]]
<1>1. \A c \in Chores : Pinned[c] \in Nat /\ cleared[c] \in Nat /\ Committed(c) \in Nat
  BY CommittedType DEF IInv
<1>2. \A c \in Chores : r[c] \in Nat /\ s[c] \in Nat /\ s[c] = cleared[c] + r[c] /\ f[c] = Committed(c)
  BY <1>1
<1>3. \A c \in Chores : f[c] <= s[c]
  <2> SUFFICES ASSUME NEW c \in Chores PROVE f[c] <= s[c]
    OBVIOUS
  <2>1. CASE c \in R
    <3>1. Reserves(c, clock)
      BY <2>1
    <3>2. Committed(c) = Pinned[c]
      BY <3>1, Zenon DEF Committed
    <3> QED BY <1>1, <1>2, <2>1, <3>2
  <2>2. CASE c \notin R
    <3>1. ~ Reserves(c, clock)
      BY <2>2
    <3>2. Committed(c) = cleared[c]
      BY <3>1, Zenon DEF Committed
    <3> QED BY <1>1, <1>2, <2>2, <3>2
  <2> QED BY <2>1, <2>2
<1>4. R \in SUBSET Chores /\ IsFiniteSet(Chores)
  BY FiniteTables
<1>5. \A c \in R : r[c] = Pinned[c]
  OBVIOUS
<1>6. \A c \in Chores \ R : r[c] = 0
  OBVIOUS
<1>7. ReservedNetting(clock) = SumFunctionOnSet(Pinned, R)
  BY DEF ReservedNetting
<1> HIDE DEF R, f, r, s
<1>8. SumFunctionOnSet(r, Chores) = SumFunctionOnSet(Pinned, R)
  BY <1>1, <1>4, <1>5, <1>6, SumRestrict
<1>9. SumFunctionOnSet(s, Chores) = SumFunctionOnSet(cleared, Chores) + SumFunctionOnSet(r, Chores)
  BY <1>1, <1>2, <1>4, SumPlus
<1>10. SumFunctionOnSet(f, Chores) <= SumFunctionOnSet(s, Chores)
  BY <1>1, <1>2, <1>3, <1>4, SumMonotone
<1>11. SumFunctionOnSet(f, Chores) \in Nat
  BY <1>1, <1>2, <1>4, SumNat
<1>12. CommittedAll = SumFunctionOnSet(f, Chores)
  BY DEF CommittedAll, f
<1>13. CommittedAll <= Settled + ReservedNetting(clock)
  BY <1>7, <1>8, <1>9, <1>10, <1>12 DEF Settled
<1>14. Settled \in Nat /\ ReservedNetting(clock) \in Nat /\ Debts({"purchase"}) \in Nat
  BY SettledType, NettableType, DebtsType DEF IInv
<1>15. n = 0 \/ n <= Debts({"purchase"}) - Settled - ReservedNetting(clock)
  BY <1>14 DEF NettableDebt, CommittedDebt
<1> QED BY <1>11, <1>12, <1>13, <1>14, <1>15

\* The actions that write the purchases.
LEMMA WhoWritesDebits ==
  Next => UNCHANGED debit \/ \E p \in Purchases : Buy(p) \/ Honour(p) \/ GiveBack(p)
<1> USE DEF world
<1>1. ASSUME NEW h \in Handlers, Approve(h) PROVE UNCHANGED debit
  BY <1>1 DEF Approve, StartApprove, StartDirect, NoHeight, AlreadyClaimed, AlreadySettled, MintIntent,
     SettleWhole
<1>2. ASSUME NEW h \in Handlers, Relay(h) PROVE UNCHANGED debit
  BY <1>2 DEF Relay, StartRelay, RefuseRelay, ArmRelay, BroadcastFails, ClearDebt, WriteRow, RowTaken,
     SettleAttempt, Decide, Finish
<1>3. ASSUME NEW h \in Handlers, Repay(h) PROVE UNCHANGED debit
  BY <1>3 DEF Repay, StartRepay, RepayFindsRow, RepayFindsNone, RepayReplays, RepayAnswered,
     RepayClaims, RepayThrows, MarkRepaid
<1>4. Background => UNCHANGED debit \/ \E p \in Purchases : Buy(p) \/ Honour(p) \/ GiveBack(p)
  BY DEF Background, StartSubmit, Submit, DirectReject, Reject, Confirm, WriteOff, Reach, Include, Tick
<1>5. Crash => UNCHANGED debit
  BY DEF Crash
<1> QED BY <1>1, <1>2, <1>3, <1>4, <1>5, WhoMoves

\* Purchases that are spent stay spent.
LEMMA SpentStaysSpent ==
  ASSUME IInv, Next
  PROVE  Debts({"purchase"}) <= Debts({"purchase"})'
<1>1. \A p \in Purchases : debit[p] = "purchase" => debit'[p] = "purchase"
  BY WhoWritesDebits DEF Buy, Honour, GiveBack, IInv, TypeOK
<1>2. {p \in Purchases : debit[p] \in {"purchase"}} \subseteq {p \in Purchases : debit'[p] \in {"purchase"}}
  BY <1>1
<1>3. {p \in Purchases : debit'[p] \in {"purchase"}} \subseteq Purchases
  OBVIOUS
<1> QED BY <1>2, <1>3, DebtsGrow DEF Debts

\* One request at a time mints: a mint holds the event loop.
LEMMA OneTakes ==
  ASSUME IInv, Next, NEW c \in Chores, NEW d \in Chores, Takes(c), Takes(d)
  PROVE  c = d
<1>1. PICK h \in Handlers : task[h].of = c /\ (SettleWhole(h) \/ \E m \in Intents : MintIntent(h, m))
  BY DEF Takes
<1>2. PICK g \in Handlers : task[g].of = d /\ (SettleWhole(g) \/ \E m \in Intents : MintIntent(g, m))
  BY DEF Takes
<1>3. task[h].act = "mint" /\ task[g].act = "mint"
  BY <1>1, <1>2 DEF SettleWhole, MintIntent, Mintable, IInv, Requests, RequestOK, TypeOK, Task
<1>4. lock = h /\ lock = g
  BY <1>3 DEF IInv, Alone
<1> QED BY <1>1, <1>2, <1>4

\* What all payouts take stays within what was spent: at most one chore takes more,
\* and takes it out of what nobody else has reserved.
LEMMA CommittedStep ==
  ASSUME IInv, NoRepay, ~ ExactMs, Next, Netted, \A c \in Chores : NettingOK(c),
         CommittedAll <= Debts({"purchase"})
  PROVE  CommittedAll' <= Debts({"purchase"})'
<1> DEFINE f == [c \in Chores |-> Committed(c)]
           g == [c \in Chores |-> Committed(c)']
<1>1. \A c \in Chores : Committed(c) \in Nat
  BY CommittedType DEF IInv
<1>2. \A c \in Chores : Committed(c)' \in Nat
  BY CountsStep DEF Counts
<1>3. \A c \in Chores : f[c] \in Nat /\ g[c] \in Nat /\ f[c] = Committed(c) /\ g[c] = Committed(c)'
  BY <1>1, <1>2
<1>4. \A c \in Chores : \/ g[c] <= f[c]
                        \/ Takes(c) /\ f[c] = 0 /\ g[c] <= NettableDebt(clock)
  <2>1. ASSUME NEW c \in Chores
        PROVE  g[c] <= f[c] \/ (Takes(c) /\ f[c] = 0 /\ g[c] <= NettableDebt(clock))
    <3>1. \/ Committed(c)' <= Committed(c)
          \/ Takes(c) /\ Committed(c) = 0 /\ Committed(c)' <= NettableDebt(clock)
      BY NettingEach
    <3>2. f[c] = Committed(c) /\ g[c] = Committed(c)'
      BY <1>3
    <3> HIDE DEF f, g
    <3> QED BY <3>1, <3>2
  <2> HIDE DEF f, g
  <2> QED BY <2>1
<1>5. CommittedAll = SumFunctionOnSet(f, Chores) /\ CommittedAll' = SumFunctionOnSet(g, Chores)
  BY DEF CommittedAll
<1>6. Debts({"purchase"}) \in Nat /\ Debts({"purchase"})' \in Nat
      /\ Debts({"purchase"}) <= Debts({"purchase"})'
  <2>1. Debts({"purchase"})' \in Nat
    BY CountsStep DEF Counts
  <2> QED BY <2>1, DebtsType, SpentStaysSpent DEF IInv
<1>7. IsFiniteSet(Chores)
  BY FiniteTables
<1> HIDE DEF f, g
<1>8. SumFunctionOnSet(f, Chores) \in Int /\ SumFunctionOnSet(g, Chores) \in Int
  BY <1>3, <1>7, SumType
<1>9. CASE \A c \in Chores : g[c] <= f[c]
  <2>1. SumFunctionOnSet(g, Chores) <= SumFunctionOnSet(f, Chores)
    BY <1>3, <1>7, <1>9, SumMonotone
  <2> QED BY <1>5, <1>6, <1>8, <2>1
<1>10. ASSUME NEW c \in Chores, Takes(c), f[c] = 0, g[c] <= NettableDebt(clock)
       PROVE  CommittedAll' <= Debts({"purchase"})'
  <2> DEFINE k == [d \in Chores |-> IF d = c THEN g[c] ELSE f[d]]
  <2>1. \A d \in Chores : d # c => g[d] <= f[d]
    BY <1>4, <1>10, OneTakes
  <2>2. \A d \in Chores : k[d] \in Nat /\ g[d] <= k[d] /\ (d # c => k[d] = f[d])
    BY <1>3, <2>1
  <2>3. k[c] = g[c]
    OBVIOUS
  <2> HIDE DEF k
  <2>4. SumFunctionOnSet(g, Chores) <= SumFunctionOnSet(k, Chores)
    BY <1>3, <1>7, <2>2, SumMonotone
  <2>5. SumFunctionOnSet(k, Chores) = SumFunctionOnSet(f, Chores) - f[c] + k[c]
    BY <1>3, <1>7, <2>2, SumChange
  <2>6. SumFunctionOnSet(k, Chores) = SumFunctionOnSet(f, Chores) + g[c]
    BY <1>8, <1>10, <2>3, <2>5, <1>3
  <2>7. CommittedAll + g[c] <= Debts({"purchase"})
    BY <1>3, <1>10, NettableIsFree
  <2> QED BY <1>3, <1>5, <1>6, <1>8, <2>4, <2>6, <2>7
<1> QED BY <1>4, <1>9, <1>10

-----------------------------------------------------------------------------
(* What the kid owes, against what its address holds.                      *)

\* A payment that arrived stays.
LEMMA ExecutedStands ==
  ASSUME IInv, Next, NEW m \in Intents, intent[m].state = "executed"
  PROVE  intent'[m].state = "executed" /\ intent'[m].value = intent[m].value
<1> USE DEF IInv
<1>1. ASSUME NEW h \in Handlers, ArmRelay(h) PROVE intent'[m].state = "executed"
  BY <1>1, ArmEffect
<1>2. ASSUME NEW h \in Handlers, NEW n \in Intents, MintIntent(h, n) PROVE intent'[m].state = "executed"
  BY <1>2, MintEffect
<1>3. ASSUME NEW n \in Intents, Reach(n) \/ Include(n) PROVE intent'[m].state = "executed"
  BY <1>3, ChainMoves
<1> QED BY <1>1, <1>2, <1>3, IntentsStand, WhoWritesIntents

\* Payouts only add to the kid's address.
LEMMA BalanceGrows ==
  ASSUME IInv, Next
  PROVE  ChainBalance <= ChainBalance' /\ ChainBalance \in Int /\ ChainBalance' \in Int
<1> DEFINE v == [m \in Intents |-> intent[m].value]
           w == [m \in Intents |-> intent'[m].value]
           E == {m \in Intents : intent[m].state = "executed"}
           F == {m \in Intents : intent'[m].state = "executed"}
<1>1. TypeOK'
  BY TypeStep DEF IInv
<1>2. \A m \in Intents : v[m] \in Nat /\ w[m] \in Nat
  BY <1>1 DEF IInv, TypeOK, Intent
<1>3. E \subseteq F /\ F \subseteq Intents /\ \A m \in E : w[m] = v[m]
  BY ExecutedStands
<1>4. ChainBalance = Savings + SumFunctionOnSet(v, E) /\ ChainBalance' = Savings + SumFunctionOnSet(w, F)
  BY DEF ChainBalance
<1> HIDE DEF v, w, E, F
<1>5. IsFiniteSet(F) /\ IsFiniteSet(E)
  BY <1>3, FiniteTables, FS_Subset
<1>6. SumFunctionOnSet(w, E) = SumFunctionOnSet(v, E)
  BY <1>2, <1>3, <1>5, SumAgree
<1>7. SumFunctionOnSet(w, E) <= SumFunctionOnSet(w, F)
  BY <1>2, <1>3, <1>5, SumSubset
<1>8. SumFunctionOnSet(v, E) \in Nat /\ SumFunctionOnSet(w, F) \in Nat
  BY <1>2, <1>3, <1>5, SumNat
<1>9. Savings \in Nat
  BY ParentPayoutAssumption DEF ParentPayoutAssumption
<1> QED BY <1>4, <1>6, <1>7, <1>8, <1>9

\* Settlements are never undone.
LEMMA SettledGrows ==
  ASSUME IInv, Next
  PROVE  Settled <= Settled'
<1>1. TypeOK'
  BY TypeStep DEF IInv
<1>2. \A c \in Chores : cleared[c] \in Nat /\ cleared'[c] \in Nat
  BY <1>1 DEF IInv, TypeOK
<1>3. \A c \in Chores : cleared[c] <= cleared'[c]
  BY <1>2, ClearedStands DEF IInv
<1> QED BY <1>2, <1>3, FiniteTables, SumMonotone DEF Settled

\* A purchase is booked when the address covers it; nothing else adds to the debt.
LEMMA CoveredStep ==
  ASSUME IInv, Next, Outstanding <= ChainBalance
  PROVE  Outstanding' <= ChainBalance'
<1> DEFINE H == {p \in Purchases : debit[p] \in {"hold", "purchase"}}
           J == {p \in Purchases : debit'[p] \in {"hold", "purchase"}}
<1>1. Debts({"hold", "purchase"}) = SumFunctionOnSet(Cost, H)
      /\ Debts({"hold", "purchase"})' = SumFunctionOnSet(Cost, J)
  BY DEF Debts
<1>2. /\ Debts({"hold", "purchase"}) \in Nat /\ Debts({"hold", "purchase"})' \in Nat
      /\ Settled \in Nat /\ Settled' \in Nat
  <2>1. Debts({"hold", "purchase"})' \in Nat /\ Settled' \in Nat
    BY CountsStep DEF Counts
  <2> QED BY <2>1, DebtsType, SettledType DEF IInv
<1>3. Settled <= Settled' /\ ChainBalance <= ChainBalance' /\ ChainBalance \in Int /\ ChainBalance' \in Int
  BY SettledGrows, BalanceGrows
<1>4. \A p \in Purchases : Cost[p] \in Nat
  BY ParentPayoutAssumption DEF ParentPayoutAssumption
<1>5. ASSUME J \subseteq H PROVE Outstanding' <= ChainBalance'
  <2>1. SumFunctionOnSet(Cost, J) <= SumFunctionOnSet(Cost, H)
    BY <1>5, DebtsGrow
  <2> QED BY <1>1, <1>2, <1>3, <2>1 DEF Outstanding
<1>6. ASSUME NEW p \in Purchases, Buy(p) PROVE Outstanding' <= ChainBalance'
  <2>1. p \notin H /\ J = H \cup {p}
    BY <1>6 DEF Buy, IInv, TypeOK
  <2>2. IsFiniteSet(H) /\ \A q \in H : Cost[q] \in Int
    <3>1. H \subseteq Purchases
      OBVIOUS
    <3> QED BY <1>4, <3>1, FiniteTables, FS_Subset
  <2> HIDE DEF H, J
  <2>3. SumFunctionOnSet(Cost, J) = Cost[p] + SumFunctionOnSet(Cost, H)
    BY <1>4, <2>1, <2>2, SumAdd
  <2>4. UNCHANGED cleared /\ Outstanding + Cost[p] <= ChainBalance
    BY <1>6 DEF Buy, money
  <2>5. Settled' = Settled
    BY <2>4 DEF Settled
  <2> QED BY <1>1, <1>2, <1>3, <1>4, <2>3, <2>4, <2>5 DEF Outstanding
<1>7. ASSUME NEW p \in Purchases, Honour(p) \/ GiveBack(p) PROVE J \subseteq H
  BY <1>7 DEF Honour, GiveBack, IInv, TypeOK
<1>8. UNCHANGED debit => J \subseteq H
  OBVIOUS
<1> QED BY <1>5, <1>6, <1>7, <1>8, WhoWritesDebits

-----------------------------------------------------------------------------
(* The invariant of the netting.                                           *)

NettingAll == \A c \in Chores : NettingOK(c)
SpentCovers == CommittedAll <= Debts({"purchase"})
SavedCovers == Outstanding <= ChainBalance

\* What holds until a repay is possible.
Unrepaid == NoRepay /\ Netted /\ NettingAll /\ SpentCovers

\* The netting invariant, with a name for each part.
LEMMA NettingIs == NInv <=> IInv /\ SavedCovers /\ (RepayPossible \/ Unrepaid)
  BY DEF NInv, Netting, Unrepaid, NoRepay, Netted, NettingAll, SpentCovers, SavedCovers, CommittedAll

\* The same of the next state.
LEMMA NettingIsNext == NInv' <=> IInv' /\ SavedCovers' /\ (RepayPossible' \/ Unrepaid')
  BY NettingIs, PTL

\* At the start nothing is owed, cleared or pinned.
LEMMA NettingInit == Init => NInv
<1> SUFFICES ASSUME Init PROVE NInv
  OBVIOUS
<1> USE DEF Init
<1>1. IInv
  BY InvInit
<1>2. NoRepay /\ Netted
  BY Nobody DEF NoRepay, Netted, Idle
<1>3. \A c \in Chores : attempt[c] = NoAttempt /\ cleared[c] = 0
  OBVIOUS
<1>4. \A c \in Chores : Pinned[c] = 0 /\ RowsFor(c) = {}
  BY <1>3 DEF Pinned, NoAttempt, RowsFor, NoEvent
<1>5. NettingAll
  BY <1>3, <1>4 DEF NettingAll, NettingOK, NoAttempt
<1> DEFINE f == [c \in Chores |-> Committed(c)]
<1>6. \A c \in Chores : Committed(c) = 0
  BY <1>3 DEF Committed, Reserves, NoAttempt
<1>7. \A c \in Chores : f[c] \in Int /\ cleared[c] \in Int /\ f[c] <= cleared[c]
  BY <1>3, <1>6
<1>8. CommittedAll = SumFunctionOnSet(f, Chores)
  BY DEF CommittedAll
<1>9. \A c \in {} : cleared[c] \in Int /\ f[c] = cleared[c]
  OBVIOUS
<1>10. \A c \in Chores \ {} : f[c] = 0
  BY <1>6
<1> HIDE DEF f
<1>11. SumFunctionOnSet(f, Chores) = SumFunctionOnSet(cleared, {})
  <2>1. {} \in SUBSET Chores
    OBVIOUS
  <2> QED BY <1>9, <1>10, <2>1, FiniteTables, SumRestrict
<1>12. CommittedAll = 0
  BY <1>8, <1>11, SumEmpty
<1>13. Debts({"purchase"}) \in Nat /\ Settled \in Nat
  BY <1>1, DebtsType, SettledType DEF IInv
<1>14. Debts({"hold", "purchase"}) = 0
  <2>1. {p \in Purchases : debit[p] \in {"hold", "purchase"}} = {}
    OBVIOUS
  <2> QED BY <2>1, SumEmpty DEF Debts
<1>15. ChainBalance = Savings
  <2>1. {m \in Intents : intent[m].state = "executed"} = {}
    BY DEF NoIntent
  <2>2. Savings \in Nat
    BY ParentPayoutAssumption DEF ParentPayoutAssumption
  <2> QED BY <2>1, <2>2, SumEmpty DEF ChainBalance
<1>16. SavedCovers
  <2>1. Savings \in Nat
    BY ParentPayoutAssumption DEF ParentPayoutAssumption
  <2> QED BY <1>13, <1>14, <1>15, <2>1 DEF SavedCovers, Outstanding
<1> QED BY <1>1, <1>2, <1>5, <1>12, <1>13, <1>16, NettingIs DEF SpentCovers, Unrepaid

\* A step that changes nothing keeps the netting invariant.
LEMMA NettingStutters == NInv /\ UNCHANGED vars => NInv'
<1> SUFFICES ASSUME NInv, UNCHANGED vars PROVE NInv'
  OBVIOUS
<1> USE DEF vars
<1>1. IInv'
  BY InvStutters DEF NInv
<1>2. NoRepay /\ Netted => NoRepay' /\ Netted'
  BY DEF NoRepay, Netted, Pinned
<1>3. NettingAll => NettingAll'
  BY DEF NettingAll, NettingOK, Pinned, RowsFor
<1>4. SpentCovers => SpentCovers'
  <2>1. [c \in Chores |-> Committed(c)]' = [c \in Chores |-> Committed(c)]
    BY DEF Committed, Reserves, Pinned
  <2>2. Debts({"purchase"})' = Debts({"purchase"})
    BY DEF Debts
  <2> QED BY <2>1, <2>2 DEF SpentCovers, CommittedAll
<1>5. SavedCovers'
  BY NettingIs DEF SavedCovers, Outstanding, Debts, Settled, ChainBalance
<1>6. RepayPossible' <=> RepayPossible
  BY DEF RepayPossible
<1>7. Unrepaid => Unrepaid'
  BY <1>2, <1>3, <1>4 DEF Unrepaid
<1> QED BY <1>1, <1>5, <1>6, <1>7, NettingIs, NettingIsNext

\* Every step keeps the netting invariant.
LEMMA NettingStep ==
  ASSUME ~ Overlaps, ~ ExactMs
  PROVE  NInv /\ [Next]_vars => NInv'
<1>1. ASSUME NInv, Next PROVE NInv'
  <2>1. IInv /\ SavedCovers /\ (RepayPossible \/ Unrepaid)
    BY <1>1, NettingIs
  <2>2. IInv' /\ SavedCovers'
    BY <1>1, <2>1, InvStep, CoveredStep DEF SavedCovers
  <2>3. ASSUME ~ RepayPossible' PROVE Unrepaid'
    <3>1. ~ RepayPossible /\ NoRepay /\ Netted /\ NettingAll /\ SpentCovers
      BY <1>1, <2>1, <2>3, RepayStaysPossible DEF Unrepaid
    <3>2. NoRepay' /\ Netted'
      BY <1>1, <2>1, <3>1, NoRepayStep, NettedStep DEF NettingAll
    <3>3. NettingAll'
      BY <1>1, <2>1, <3>1, NettingEach DEF NettingAll
    <3>4. SpentCovers'
      BY <1>1, <2>1, <3>1, CommittedStep DEF NettingAll, SpentCovers
    <3> QED BY <3>2, <3>3, <3>4 DEF Unrepaid
  <2> QED BY <2>2, <2>3, NettingIsNext
<1> QED BY <1>1, NettingStutters

\* Pinned nettings and cleared debts add up to no more than what was spent, until
\* a repay is possible, and the debt to no more than what the kid's address holds.
THEOREM NettingInvariant ==
  ASSUME ~ Overlaps, ~ ExactMs
  PROVE  Spec => []NInv
  BY NettingInit, NettingStep, PTL DEF Spec

-----------------------------------------------------------------------------
(* What it is for.                                                         *)

\* What a chore gives up is part of what is committed for it.
LEMMA GivenUpIsCommitted ==
  ASSUME IInv, NEW c \in Chores, NettingOK(c)
  PROVE  GivenUp(c) \in Nat /\ GivenUp(c) <= Committed(c)
<1> DEFINE paying == {m \in Intents : Payable(m) /\ intent[m].of = c}
           n == [m \in Intents |-> intent[m].netted]
<1>1. \A m \in paying : attempt[c].intent = m
  BY DEF IInv, Payable, IntentsOK, IntentOK
<1>2. Pinned[c] \in Nat /\ cleared[c] \in Nat
  BY CommittedType DEF IInv
<1>3. CASE paying = {}
  <2>1. GivenUp(c) = cleared[c]
    BY <1>3 DEF GivenUp
  <2>2. CASE Reserves(c, clock)
    <3>1. Committed(c) = Pinned[c]
      BY <2>2, Zenon DEF Committed
    <3>2. cleared[c] \in {0, Pinned[c]}
      BY <2>2 DEF Reserves, NettingOK
    <3> QED BY <1>2, <2>1, <3>1, <3>2
  <2>3. CASE ~ Reserves(c, clock)
    <3>1. Committed(c) = cleared[c]
      BY <2>3, Zenon DEF Committed
    <3> QED BY <1>2, <2>1, <3>1
  <2> QED BY <2>2, <2>3
<1>4. ASSUME NEW m \in paying PROVE GivenUp(c) \in Nat /\ GivenUp(c) <= Committed(c)
  <2>1. paying = {m} /\ paying # {} /\ m \in Intents /\ attempt[c].intent = m /\ Payable(m) /\ intent[m].of = c
    BY <1>1
  <2>2. n[m] = Pinned[c]
    BY <2>1, Nobody DEF Pinned
  <2>3. GivenUp(c) = SumFunctionOnSet(n, paying)
    BY <2>1 DEF GivenUp
  <2> HIDE DEF paying, n
  <2>4. GivenUp(c) = Pinned[c]
    BY <1>2, <2>1, <2>2, <2>3, SumSingle
  <2>5. Committed(c) = Pinned[c]
    <3>1. CASE Reserves(c, clock)
      BY <3>1, Zenon DEF Committed
    <3>2. CASE ~ Reserves(c, clock)
      <4>1. Committed(c) = cleared[c]
        BY <3>2, Zenon DEF Committed
      <4>2. attempt[c].status \in {"none", "preparing", "in_flight", "settled"} /\ attempt[c].status # "none"
        BY <2>1, Nobody DEF IInv, Claims, ClaimOK, TypeOK, AttemptRow
      <4>3. clock \in Nat /\ intent[m].expires \in Nat
        BY <2>1, ParentPayoutAssumption DEF IInv, TypeOK, Intent, ParentPayoutAssumption
      <4>4. attempt[c].status = "settled"
        <5>1. CASE Alive(m)
          BY <2>1, <3>2, <4>2, <5>1, Nobody DEF IInv, IntentsOK, IntentOK, OnWire, Reserves
        <5>2. CASE clock < intent[m].expires
          BY <2>1, <3>2, <4>2, <4>3, <5>2, Nobody DEF Reserves
        <5> QED BY <2>1, <5>1, <5>2 DEF Payable
      <4> QED BY <4>1, <4>4 DEF NettingOK
    <3> QED BY <3>1, <3>2
  <2> QED BY <1>2, <2>4, <2>5
<1> QED BY <1>3, <1>4

\* However many payouts are approved, expire and are approved again, no purchase
\* is taken out of the kid's earnings twice: until a payment was written off that
\* the server-signed repay may pay (repo-wallet.ts:434), and where no relay is
\* served in the millisecond its intent expires (kid-netting.ts:192) and none is
\* under way while its chore's payment is repaid or written off.
THEOREM NothingIsNettedTwice ==
  ASSUME ~ Overlaps, ~ ExactMs
  PROVE  Spec => []NeverNettedTwice
<1>1. ASSUME NInv PROVE NeverNettedTwice
  <2> SUFFICES ASSUME ~ RepayPossible
               PROVE  SumFunctionOnSet([c \in Chores |-> GivenUp(c)], Chores) <= Debts({"purchase"})
    BY DEF NeverNettedTwice
  <2> DEFINE f == [c \in Chores |-> Committed(c)]
             g == [c \in Chores |-> GivenUp(c)]
  <2>1. IInv /\ NettingAll /\ SpentCovers
    BY <1>1, NettingIs DEF Unrepaid
  <2>2. \A c \in Chores : GivenUp(c) \in Nat /\ GivenUp(c) <= Committed(c) /\ Committed(c) \in Nat
    BY <2>1, GivenUpIsCommitted, CommittedType DEF NettingAll, IInv
  <2>3. \A c \in Chores : f[c] \in Nat /\ g[c] \in Nat /\ g[c] <= f[c]
    BY <2>2
  <2>4. CommittedAll = SumFunctionOnSet(f, Chores)
        /\ SumFunctionOnSet([c \in Chores |-> GivenUp(c)], Chores) = SumFunctionOnSet(g, Chores)
    BY DEF CommittedAll
  <2> HIDE DEF f, g
  <2>5. SumFunctionOnSet(g, Chores) <= SumFunctionOnSet(f, Chores)
    BY <2>3, FiniteTables, SumMonotone
  <2>6. /\ SumFunctionOnSet(f, Chores) \in Nat /\ SumFunctionOnSet(g, Chores) \in Nat
        /\ Debts({"purchase"}) \in Nat
    BY <2>1, <2>3, FiniteTables, SumNat, DebtsType DEF IInv
  <2> QED BY <2>1, <2>4, <2>5, <2>6 DEF SpentCovers
<1> QED BY <1>1, NettingInvariant, PTL

\* The kid never owes more than its address holds, repays or no repays; and is
\* never owed anything, until a payment was written off that the server-signed
\* repay may pay.  As above, where no relay is served in the millisecond its intent
\* expires, and none is under way while its chore's payment is repaid or written off.
THEOREM DebtsAreCovered ==
  ASSUME ~ Overlaps, ~ ExactMs
  PROVE  Spec => [](Outstanding <= ChainBalance /\ (~ RepayPossible => DebtIsCovered))
<1>0. NInv => Outstanding <= ChainBalance
  BY DEF NInv
<1>1. ASSUME NInv, ~ RepayPossible PROVE DebtIsCovered
  <2> DEFINE f == [c \in Chores |-> Committed(c)]
  <2>1. IInv /\ NettingAll /\ SpentCovers /\ SavedCovers
    BY <1>1, NettingIs DEF Unrepaid
  <2>2. \A c \in Chores : cleared[c] \in Nat /\ Committed(c) \in Nat /\ cleared[c] <= Committed(c)
    <3> SUFFICES ASSUME NEW c \in Chores
                 PROVE  cleared[c] \in Nat /\ Committed(c) \in Nat /\ cleared[c] <= Committed(c)
      OBVIOUS
    <3>1. cleared[c] \in Nat /\ Committed(c) \in Nat /\ Pinned[c] \in Nat
      BY <2>1, CommittedType DEF IInv
    <3>2. CASE Reserves(c, clock)
      <4>1. Committed(c) = Pinned[c]
        BY <3>2, Zenon DEF Committed
      <4>2. cleared[c] \in {0, Pinned[c]}
        BY <2>1, <3>2 DEF Reserves, NettingAll, NettingOK
      <4> QED BY <3>1, <4>1, <4>2
    <3>3. CASE ~ Reserves(c, clock)
      <4>1. Committed(c) = cleared[c]
        BY <3>3, Zenon DEF Committed
      <4> QED BY <3>1, <4>1
    <3> QED BY <3>2, <3>3
  <2>3. \A c \in Chores : f[c] \in Nat /\ cleared[c] \in Nat /\ cleared[c] <= f[c]
    BY <2>2
  <2>4. CommittedAll = SumFunctionOnSet(f, Chores)
    BY DEF CommittedAll
  <2> HIDE DEF f
  <2>5. Settled <= SumFunctionOnSet(f, Chores) /\ SumFunctionOnSet(f, Chores) \in Nat
    BY <2>3, FiniteTables, SumMonotone, SumNat DEF Settled
  <2>6. Debts({"purchase"}) <= Debts({"hold", "purchase"})
    <3>1. {p \in Purchases : debit[p] \in {"purchase"}} \subseteq {p \in Purchases : debit[p] \in {"hold", "purchase"}}
          /\ {p \in Purchases : debit[p] \in {"hold", "purchase"}} \subseteq Purchases
      OBVIOUS
    <3> QED BY <3>1, DebtsGrow DEF Debts
  <2>7. /\ Settled \in Nat /\ Debts({"purchase"}) \in Nat /\ Debts({"hold", "purchase"}) \in Nat
    BY <2>1, SettledType, DebtsType DEF IInv
  <2>8. ChainBalance \in Int
    <3> DEFINE v == [m \in Intents |-> intent[m].value]
               E == {m \in Intents : intent[m].state = "executed"}
    <3>1. IsFiniteSet(E) /\ \A m \in E : v[m] \in Int
      BY <2>1, FiniteTables, FS_Subset DEF IInv, TypeOK, Intent
    <3>2. ChainBalance = Savings + SumFunctionOnSet(v, E) /\ Savings \in Nat
      BY ParentPayoutAssumption DEF ChainBalance, ParentPayoutAssumption
    <3> HIDE DEF v, E
    <3>3. SumFunctionOnSet(v, E) \in Int
      BY <3>1, SumType
    <3> QED BY <3>2, <3>3
  <2> QED BY <2>1, <2>4, <2>5, <2>6, <2>7, <2>8 DEF SpentCovers, SavedCovers, Outstanding, DebtIsCovered
<1> QED BY <1>0, <1>1, NettingInvariant, PTL
=============================================================================
