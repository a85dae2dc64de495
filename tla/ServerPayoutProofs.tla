------------------------- MODULE ServerPayoutProofs -------------------------
(***************************************************************************)
(* Proofs about ServerPayout, for every number of chores, requests,        *)
(* transactions and ledger rows: its invariant and what follows from it,   *)
(* and that ServerPayout implements PayOnce.                               *)
(***************************************************************************)
EXTENDS ServerPayoutInvariant, FiniteSetTheorems, TLAPS

\* A price, whole or shared, is a number of luna.
LEMMA SharePrice ==
  ASSUME NEW full \in Nat, NEW bps \in ShareBps \cup {None}
  PROVE  ApplyShare(full, bps) \in Nat
<1>1. CASE bps = None
  BY <1>1 DEF ApplyShare
<1>2. CASE bps \in ShareBps
  <2>1. bps \in Nat
    BY <1>2, ServerPayoutAssumption DEF ServerPayoutAssumption
  <2>2. full * bps \in Nat
    BY <2>1, SMT
  <2>3. \A n \in Nat : n \div 10000 \in Nat
    BY SMT
  <2> QED BY <2>1, <2>2, <2>3 DEF ApplyShare
<1> QED BY <1>1, <1>2

\* Writing one field of a row leaves a well-typed table.
LEMMA TaskFields ==
  ASSUME NEW f \in [Handlers -> Task], NEW h \in Handlers
  PROVE  /\ \A p \in Pcs : [f EXCEPT ![h].pc = p] \in [Handlers -> Task]
         /\ \A a \in Approvals : [f EXCEPT ![h].appr = a] \in [Handlers -> Task]
         /\ \A r \in Refs : [f EXCEPT ![h].ref = r] \in [Handlers -> Task]
         /\ \A v \in Nat : [f EXCEPT ![h].value = v] \in [Handlers -> Task]
         /\ \A t \in Txs : [f EXCEPT ![h].tx = t] \in [Handlers -> Task]
  BY SMT DEF Task

LEMMA ApprovalFields ==
  ASSUME NEW f \in [Approvals -> ApprovalRow], NEW a \in Approvals
  PROVE  /\ \A v \in {"none", "pending", "approved", "rejected"} :
              [f EXCEPT ![a].status = v] \in [Approvals -> ApprovalRow]
         /\ \A s \in Subjects : [f EXCEPT ![a].of = s] \in [Approvals -> ApprovalRow]
         /\ \A b \in ShareBps \cup {None} : [f EXCEPT ![a].share = b] \in [Approvals -> ApprovalRow]
  BY SMT DEF ApprovalRow

LEMMA EventFields ==
  ASSUME NEW f \in [Events -> EventRow], NEW e \in Events
  PROVE  /\ \A v \in {"none", "pending", "done", "failed"} :
              [f EXCEPT ![e].status = v] \in [Events -> EventRow]
         /\ \A r \in Refs \cup {None} : [f EXCEPT ![e].ref = r] \in [Events -> EventRow]
         /\ \A r \in Refs \cup {None} : [f EXCEPT ![e].retired = r] \in [Events -> EventRow]
         /\ [f EXCEPT ![e].repaid = TRUE] \in [Events -> EventRow]
<1>1. \A v \in {"none", "pending", "done", "failed"} :
        [f EXCEPT ![e].status = v] \in [Events -> EventRow]
  BY SMT DEF EventRow
<1>2. \A r \in Refs \cup {None} : [f EXCEPT ![e].ref = r] \in [Events -> EventRow]
  BY SMT DEF EventRow
<1>3. \A r \in Refs \cup {None} : [f EXCEPT ![e].retired = r] \in [Events -> EventRow]
  BY SMT DEF EventRow
<1>4. [f EXCEPT ![e].repaid = TRUE] \in [Events -> EventRow]
  BY Zenon DEF EventRow
<1> QED BY <1>1, <1>2, <1>3, <1>4

LEMMA AttemptFields ==
  ASSUME NEW f \in [Refs -> AttemptRow], NEW r \in Refs
  PROVE  \A row \in AttemptRow : [f EXCEPT ![r] = row] \in [Refs -> AttemptRow]
  OBVIOUS

LEMMA TypeInit == Init => TypeOK
<1> SUFFICES ASSUME Init PROVE TypeOK
  OBVIOUS
<1> USE DEF Init
<1>1. chore \in [Subjects -> {"open", "submitted", "approved", "rejected"}]
  OBVIOUS
<1>2. approval \in [Approvals -> ApprovalRow]
  BY DEF NoApproval, ApprovalRow
<1>3. attempt \in [Refs -> AttemptRow]
  BY DEF NoAttempt, AttemptRow
<1>4. event \in [Events -> EventRow]
  BY DEF NoEvent, EventRow
<1>5. tx \in [Txs -> Transaction]
  BY DEF NoTx, Transaction
<1>6. task \in [Handlers -> Task]
  BY DEF Idle, Task, Pcs
<1>7. sweep \in Sweep
  BY DEF NoSweep, Sweep
<1>8. lock \in Seq(Handlers) /\ handin \subseteq Subjects /\ cpu \in Handlers \cup {"sweeper", None}
  OBVIOUS
<1> QED BY <1>1, <1>2, <1>3, <1>4, <1>5, <1>6, <1>7, <1>8 DEF TypeOK

LEMMA IdleType == Idle \in Task /\ \A r \in Task : r.pc \in Pcs
  BY DEF Idle, Task, Pcs

\* A request that is answered leaves a well-typed queue.
LEMMA LeaveType ==
  ASSUME TypeOK, NEW h \in Handlers, lock # <<>>, Leave(h)
  PROVE  task' \in [Handlers -> Task] /\ lock' \in Seq(Handlers)
<1>1. Tail(lock) \in Seq(Handlers)
  BY DEF TypeOK
<1> QED BY <1>1, IdleType DEF Leave, TypeOK

\* An approval put back in the queue is an approval row.
LEMMA ThrowType ==
  ASSUME TypeOK, Requests, OneAtATime, NEW h \in Handlers, task[h].pc \in Paying, Throw(h)
  PROVE  /\ task' \in [Handlers -> Task] /\ lock' \in Seq(Handlers)
         /\ approval' \in [Approvals -> ApprovalRow]
<1>1. lock # <<>>
  BY DEF OneAtATime, Active, Paying
<1>2. task' \in [Handlers -> Task] /\ lock' \in Seq(Handlers)
  BY <1>1, LeaveType DEF Throw
<1>3. approval' = Reopened(h)
  BY DEF Throw
<1>4. CASE Reopened(h) = approval
  BY <1>2, <1>3, <1>4 DEF TypeOK
<1>5. CASE Reopened(h) # approval
  <2>1. task[h].act # "repay"
    BY <1>5 DEF Reopened
  <2>2. task[h].appr \in Approvals
    BY <2>1 DEF Requests, RequestOK, Paying
  <2>3. Reopened(h) = [approval EXCEPT ![task[h].appr].status = "pending",
                                       ![task[h].appr].share = None]
    BY <1>5 DEF Reopened
  <2>4. [approval EXCEPT ![task[h].appr].status = "pending"] \in [Approvals -> ApprovalRow]
    BY <2>2, ApprovalFields DEF TypeOK
  <2>5. Reopened(h) \in [Approvals -> ApprovalRow]
    BY <2>2, <2>3, <2>4, ApprovalFields
  <2> QED BY <1>2, <1>3, <2>5
<1> QED BY <1>4, <1>5

LEMMA TypeStep ==
  ASSUME TypeOK, Requests, OneAtATime, Rows, Sweeping, Next
  PROVE  TypeOK'
<1> USE DEF TypeOK, db
<1>1. ASSUME NEW s \in Subjects, StartSubmit(s) PROVE TypeOK'
  BY <1>1 DEF StartSubmit
<1>2. ASSUME NEW s \in Subjects, Submit(s) PROVE TypeOK'
  BY <1>2 DEF Submit, ApprovalRow
<1>3. ASSUME NEW s \in Subjects, DirectReject(s) PROVE TypeOK'
  <2>1. approval' \in [Approvals -> ApprovalRow]
    BY <1>3 DEF DirectReject, ApprovalRow
  <2> QED BY <1>3, <2>1 DEF DirectReject
<1>4. ASSUME NEW a \in Approvals, Reject(a) PROVE TypeOK'
  <2>1. approval' \in [Approvals -> ApprovalRow]
    BY <1>4, ApprovalFields DEF Reject
  <2> QED BY <1>4, <2>1 DEF Reject
<1>5. ASSUME NEW h \in Handlers, NEW t \in Task, Enqueue(h, t) PROVE TypeOK'
  BY <1>5 DEF Enqueue
<1>6. ASSUME NEW h \in Handlers, NEW a \in Approvals, StartApprove(h, a) PROVE TypeOK'
  <2> DEFINE t == [Idle EXCEPT !.pc = "queued", !.act = "approve", !.appr = a,
                               !.pays = approval[a].of, !.ref = approval[a].of]
  <2>1. approval[a].of \in Subjects
    BY <1>6 DEF StartApprove, Rows
  <2>2. t \in Task
    BY <2>1 DEF Idle, Task, Pcs, Refs
  <2>3. Enqueue(h, t)
    BY <1>6 DEF StartApprove
  <2> QED BY <1>5, <2>2, <2>3
<1>7. ASSUME NEW h \in Handlers, NEW s \in Subjects, StartDirect(h, s) PROVE TypeOK'
  <2> DEFINE t == [Idle EXCEPT !.pc = "queued", !.act = "direct", !.pays = s, !.ref = s]
  <2>1. t \in Task
    BY DEF Idle, Task, Pcs, Refs
  <2>2. Enqueue(h, t)
    BY <1>7 DEF StartDirect
  <2> QED BY <1>5, <2>1, <2>2
<1>8. ASSUME NEW h \in Handlers, NEW e \in Events, StartRepay(h, e) PROVE TypeOK'
  <2> DEFINE t == [Idle EXCEPT !.pc = "queued", !.act = "repay", !.ev = e, !.pays = event[e].pays]
  <2>1. event[e].pays \in Subjects
    BY <1>8 DEF StartRepay, Rows, RowOK
  <2>2. t \in Task
    BY <2>1 DEF Idle, Task, Pcs
  <2>3. Enqueue(h, t)
    BY <1>8 DEF StartRepay
  <2> QED BY <1>5, <2>2, <2>3
<1>9. ASSUME NEW h \in Handlers, TurnAway(h) PROVE TypeOK'
  BY <1>9, LeaveType DEF TurnAway, Holder
<1>10. ASSUME NEW h \in Handlers, ShareAlreadySet(h) PROVE TypeOK'
  BY <1>10, LeaveType DEF ShareAlreadySet, Holder
<1>11. ASSUME NEW h \in Handlers, Enter(h) PROVE TypeOK'
  <2>1. PICK bps \in ShareBps \cup {None} :
          /\ bps # None => task[h].act = "approve"
          /\ approval' = IF bps = None THEN approval
                         ELSE [approval EXCEPT ![task[h].appr].share = bps]
          /\ task' = [task EXCEPT
               ![h].pc = NextAfterPrice(h, Price(h, IF task[h].act = "approve"
                                                    THEN approval'[task[h].appr].share ELSE None)),
               ![h].value = Price(h, IF task[h].act = "approve"
                                     THEN approval'[task[h].appr].share ELSE None)]
    BY <1>11 DEF Enter
  <2>2. task[h].pc # "idle"
    BY <1>11 DEF Enter
  <2>3. task[h].act = "approve" => task[h].appr \in Approvals
    BY <2>2 DEF Requests, RequestOK
  <2>4. approval' \in [Approvals -> ApprovalRow]
    BY <2>1, <2>3, ApprovalFields
  <2> DEFINE share == IF task[h].act = "approve" THEN approval'[task[h].appr].share ELSE None
             value == Price(h, share)
  <2>5. share \in ShareBps \cup {None}
    BY <2>3, <2>4 DEF ApprovalRow
  <2>6. value \in Nat
    <3>1. CASE task[h].act = "approve"
      BY <2>2, <2>5, <3>1, SharePrice, ServerPayoutAssumption
      DEF Price, Requests, RequestOK, ServerPayoutAssumption
    <3>2. CASE task[h].act = "direct"
      BY <2>2, <3>2, ServerPayoutAssumption DEF Price, Requests, RequestOK, ServerPayoutAssumption
    <3>3. CASE task[h].act = "repay"
      BY <2>2, <3>3 DEF Price, Requests, RequestOK, EventRow
    <3> QED BY <2>2, <3>1, <3>2, <3>3 DEF Requests, RequestOK
  <2>7. NextAfterPrice(h, value) \in Pcs
    BY DEF NextAfterPrice, Pcs
  <2>8. task' = [task EXCEPT ![h].pc = NextAfterPrice(h, value), ![h].value = value]
    BY <2>1
  <2> HIDE DEF value
  <2>9. [task EXCEPT ![h].pc = NextAfterPrice(h, value)] \in [Handlers -> Task]
    BY <2>7, TaskFields
  <2>10. task' \in [Handlers -> Task]
    BY <2>6, <2>8, <2>9, TaskFields
  <2> QED BY <1>11, <2>4, <2>10 DEF Enter
<1>12. ASSUME NEW h \in Handlers, Fundable(h) PROVE TypeOK'
  <2>1. "decide" \in Pcs
    BY DEF Pcs
  <2> QED BY <1>12, <2>1, TaskFields DEF Fundable, Goto
<1>13. ASSUME NEW h \in Handlers, NotFundable(h) PROVE TypeOK'
  BY <1>13, LeaveType DEF NotFundable, OneAtATime, Active
<1>14. ASSUME NEW h \in Handlers, NEW a \in Approvals, DecideApprove(h, a) PROVE TypeOK'
  <2>1. AfterLedgerCheck(h, task[h].ref) \in Pcs
    BY DEF AfterLedgerCheck, Pcs
  <2>2. [task EXCEPT ![h].pc = AfterLedgerCheck(h, task[h].ref)] \in [Handlers -> Task]
    BY <2>1, TaskFields
  <2>3. task' \in [Handlers -> Task]
    BY <1>14, <2>2, TaskFields DEF DecideApprove
  <2>4. task[h].pays \in Subjects
    BY <1>14 DEF DecideApprove, Requests, RequestOK
  <2>5. [approval EXCEPT ![a].status = "approved"] \in [Approvals -> ApprovalRow]
    BY ApprovalFields
  <2>6. approval' = [[approval EXCEPT ![a].status = "approved"] EXCEPT ![a].of = task[h].pays]
    BY <1>14 DEF DecideApprove
  <2>7. approval' \in [Approvals -> ApprovalRow]
    BY <2>4, <2>5, <2>6, ApprovalFields
  <2> QED BY <1>14, <2>3, <2>7 DEF DecideApprove
<1>15. ASSUME NEW h \in Handlers, DecideRepay(h) PROVE TypeOK'
  <2> DEFINE e == task[h].ev
             r == IF event[e].retired # None THEN event[e].retired ELSE e
  <2>1. r \in Refs
    BY <1>15 DEF DecideRepay, Requests, RequestOK, EventRow, Refs
  <2>2. AfterLedgerCheck(h, r) \in Pcs
    BY DEF AfterLedgerCheck, Pcs
  <2>3. task' = [task EXCEPT ![h].pc = AfterLedgerCheck(h, r), ![h].ref = r]
    BY <1>15 DEF DecideRepay
  <2> HIDE DEF r
  <2>4. [task EXCEPT ![h].pc = AfterLedgerCheck(h, r)] \in [Handlers -> Task]
    BY <2>2, TaskFields
  <2>5. task' \in [Handlers -> Task]
    BY <2>1, <2>3, <2>4, TaskFields
  <2> QED BY <1>15, <2>5 DEF DecideRepay
<1>16. ASSUME NEW h \in Handlers, AlreadyDecided(h) PROVE TypeOK'
  BY <1>16, LeaveType DEF AlreadyDecided, OneAtATime, Active
<1>17. ASSUME NEW h \in Handlers, Unresolved(h) PROVE TypeOK'
  BY <1>17, ThrowType DEF Unresolved, Throw, Paying
<1>18. ASSUME NEW h \in Handlers, task[h].pc \in Paying PROVE task[h].ref \in Refs
  BY <1>18 DEF Requests, RequestOK, Paying, Refs
<1>19. ASSUME NEW h \in Handlers, Replay(h) PROVE TypeOK'
  <2>1. task[h].ref \in Refs
    BY <1>18, <1>19 DEF Replay, Paying
  <2>2. attempt[task[h].ref].bytes \in Txs
    BY <1>19, <2>1 DEF Replay, AttemptRow
  <2>3. "wire" \in Pcs
    BY DEF Pcs
  <2>4. [task EXCEPT ![h].pc = "wire"] \in [Handlers -> Task]
    BY <2>3, TaskFields
  <2>5. task' \in [Handlers -> Task]
    BY <1>19, <2>2, <2>4, TaskFields DEF Replay
  <2> QED BY <1>19, <2>5 DEF Replay
<1>20. ASSUME NEW h \in Handlers, Claim(h) PROVE TypeOK'
  <2>1. "prepare" \in Pcs
    BY DEF Pcs
  <2>2. attempt' \in [Refs -> AttemptRow]
    BY <1>20 DEF Claim, NoAttempt, AttemptRow
  <2> QED BY <1>20, <2>1, <2>2, TaskFields DEF Claim, Goto
<1>21. ASSUME NEW h \in Handlers, NEW t \in Txs, Arm(h, t) PROVE TypeOK'
  <2>1. "wire" \in Pcs
    BY DEF Pcs
  <2>2. [task EXCEPT ![h].pc = "wire"] \in [Handlers -> Task]
    BY <2>1, TaskFields
  <2>3. task' \in [Handlers -> Task]
    BY <1>21, <2>2, TaskFields DEF Arm
  <2>4. attempt' \in [Refs -> AttemptRow]
    BY <1>21 DEF Arm, AttemptRow
  <2>5. tx' \in [Txs -> Transaction]
    BY <1>21 DEF Arm, Transaction, Task
  <2> QED BY <1>21, <2>3, <2>4, <2>5 DEF Arm
<1>22. ASSUME NEW h \in Handlers, PrepareFails(h) PROVE TypeOK'
  <2>1. attempt' \in [Refs -> AttemptRow]
    BY <1>22 DEF PrepareFails, NoAttempt, AttemptRow
  <2> QED BY <1>22, <2>1, ThrowType DEF PrepareFails, Throw, Paying
<1>23. ASSUME NEW h \in Handlers, BroadcastFails(h) PROVE TypeOK'
  BY <1>23, ThrowType DEF BroadcastFails, Throw, Paying
<1>24. ASSUME NEW h \in Handlers, NEW e \in Events, WriteRow(h, e) PROVE TypeOK'
  <2>1. "settle" \in Pcs
    BY DEF Pcs
  <2>2. event' \in [Events -> EventRow]
    BY <1>24 DEF WriteRow, EventRow, Task
  <2> QED BY <1>24, <2>1, <2>2, TaskFields DEF WriteRow, Goto
<1>25. ASSUME NEW h \in Handlers, SettleAttempt(h) PROVE TypeOK'
  <2>1. "mark" \in Pcs /\ "subject" \in Pcs
    BY DEF Pcs
  <2>2. attempt' \in [Refs -> AttemptRow]
    BY <1>25 DEF SettleAttempt, AttemptRow
  <2> QED BY <1>25, <2>1, <2>2, TaskFields DEF SettleAttempt, Goto
<1>26. ASSUME NEW h \in Handlers, SettleSubject(h) PROVE TypeOK'
  <2>1. task' \in [Handlers -> Task] /\ lock' \in Seq(Handlers)
    BY <1>26, LeaveType DEF SettleSubject, OneAtATime, Active
  <2> QED BY <1>26, <2>1 DEF SettleSubject
<1>27. ASSUME NEW h \in Handlers, MarkRepaid(h) PROVE TypeOK'
  <2>1. task' \in [Handlers -> Task] /\ lock' \in Seq(Handlers)
    BY <1>27, LeaveType DEF MarkRepaid, OneAtATime, Active
  <2>2. task[h].ev \in Events \/ event' = event
    BY <1>27 DEF MarkRepaid
  <2>3. event' \in [Events -> EventRow]
    BY <1>27, <2>2, EventFields DEF MarkRepaid
  <2> QED BY <1>27, <2>1, <2>3 DEF MarkRepaid
<1>28. ASSUME NEW e \in Events, AskReceipt(e) PROVE TypeOK'
  BY <1>28 DEF AskReceipt, Receipt, Sweep
<1>29. NoSweep \in Sweep
  BY DEF NoSweep, Sweep
<1>30. CASE Confirm
  BY <1>29, <1>30, EventFields DEF Confirm, Sweeping
<1>31. CASE KeepWaiting
  BY <1>29, <1>31 DEF KeepWaiting
<1>32. CASE WriteOffRow
  <2>1. sweep.ev \in Events
    BY <1>32 DEF WriteOffRow, Sweeping
  <2>2. [event EXCEPT ![sweep.ev].status = "failed"] \in [Events -> EventRow]
    BY <2>1, EventFields
  <2>3. event' \in [Events -> EventRow]
    BY <1>32, <2>1, <2>2, EventFields DEF WriteOffRow
  <2>4. event[sweep.ev].ref \in Refs \cup {None}
    BY <2>1 DEF EventRow
  <2>5. [sweep EXCEPT !.step = "key"] \in Sweep
    BY DEF Sweep
  <2>6. sweep' \in Sweep
    BY <1>32, <2>4, <2>5 DEF WriteOffRow, Sweep
  <2> QED BY <1>32, <2>3, <2>6 DEF WriteOffRow
<1>33. CASE WriteOffKey
  <2>1. sweep.ev \in Events /\ sweep.key \in Refs \cup {None}
    BY <1>33 DEF WriteOffKey, Sweeping, Sweep
  <2>2. event' \in [Events -> EventRow]
    BY <1>33, <2>1, EventFields DEF WriteOffKey
  <2>3. sweep' \in Sweep
    BY <1>33 DEF WriteOffKey, Sweep
  <2> QED BY <1>33, <2>2, <2>3 DEF WriteOffKey
<1>34. CASE WriteOffClaim
  BY <1>29, <1>34 DEF WriteOffClaim, NoAttempt, AttemptRow
<1>35. ASSUME NEW t \in Txs, Reach(t) PROVE TypeOK'
  BY <1>35 DEF Reach, Transaction
<1>36. ASSUME NEW t \in Txs, Include(t) PROVE TypeOK'
  <2>1. PICK outcome \in {"executed", "rejected"} : tx' = [tx EXCEPT ![t].state = outcome]
    BY <1>36 DEF Include
  <2>2. tx' \in [Txs -> Transaction]
    BY <2>1 DEF Transaction
  <2> QED BY <1>36, <2>2 DEF Include
<1>37. CASE Crash
  BY <1>29, <1>37, IdleType DEF Crash
<1> QED
  BY <1>1, <1>2, <1>3, <1>4, <1>6, <1>7, <1>8, <1>9, <1>10, <1>11, <1>12, <1>13, <1>14,
     <1>15, <1>16, <1>17, <1>19, <1>20, <1>21, <1>22, <1>23, <1>24, <1>25, <1>26, <1>27,
     <1>28, <1>30, <1>31, <1>32, <1>33, <1>34, <1>35, <1>36, <1>37
  DEF Next, StartRequest, Advance, ActOnReceipt

-----------------------------------------------------------------------------
(* Who moves, and how.                                                     *)

\* Only the head of the queue is past it.
LEMMA OnlyOne ==
  ASSUME OneAtATime, NEW h \in Handlers, Head(lock) = h, NEW k \in Handlers, k # h
  PROVE  ~ Active(k)
  BY DEF OneAtATime

\* A step either leaves the requests alone, queues one, or moves the one at the
\* head of the queue.
HeadMoves(h) ==
  /\ lock # <<>> /\ Head(lock) = h
  /\ \A k \in Handlers : k # h => task'[k] = task[k]
  /\ UNCHANGED lock \/ Leave(h)

LEMMA MoveOne ==
  ASSUME TypeOK, NEW h \in Handlers, lock # <<>>, Head(lock) = h,
         NEW p, Goto(h, p), UNCHANGED lock
  PROVE  HeadMoves(h)
  BY DEF TypeOK, Goto, HeadMoves

LEMMA LeaveOne ==
  ASSUME TypeOK, NEW h \in Handlers, lock # <<>>, Head(lock) = h, Leave(h)
  PROVE  HeadMoves(h)
  BY DEF TypeOK, Leave, HeadMoves

LEMMA AdvanceMovesHead ==
  ASSUME TypeOK, OneAtATime, NEW h \in Handlers, Advance(h)
  PROVE  HeadMoves(h)
<1> USE DEF db
<1>1. Active(h) => lock # <<>> /\ Head(lock) = h
  BY DEF OneAtATime
<1>2. CASE TurnAway(h) \/ ShareAlreadySet(h)
  BY <1>2, LeaveOne DEF TurnAway, ShareAlreadySet, Holder
<1>3. CASE Enter(h)
  <2>1. lock # <<>> /\ Head(lock) = h /\ UNCHANGED lock
    BY <1>3 DEF Enter, Holder
  <2>2. \A k \in Handlers : k # h => task'[k] = task[k]
    BY <1>3 DEF Enter, TypeOK
  <2> QED BY <2>1, <2>2 DEF HeadMoves
<1>4. CASE Fundable(h)
  BY <1>1, <1>4, MoveOne DEF Fundable, Active
<1>5. CASE NotFundable(h) \/ AlreadyDecided(h) \/ SettleSubject(h) \/ MarkRepaid(h)
  BY <1>1, <1>5, LeaveOne DEF NotFundable, AlreadyDecided, SettleSubject, MarkRepaid, Active
<1>6. CASE Unresolved(h) \/ PrepareFails(h) \/ BroadcastFails(h)
  BY <1>1, <1>6, LeaveOne DEF Unresolved, PrepareFails, BroadcastFails, Throw, Active
<1>7. ASSUME NEW a \in Approvals, DecideApprove(h, a) PROVE HeadMoves(h)
  BY <1>1, <1>7 DEF DecideApprove, Active, HeadMoves, TypeOK
<1>8. CASE DecideRepay(h)
  BY <1>1, <1>8 DEF DecideRepay, Active, HeadMoves, TypeOK
<1>9. CASE Replay(h)
  BY <1>1, <1>9 DEF Replay, Active, HeadMoves, TypeOK
<1>10. CASE Claim(h)
  BY <1>1, <1>10, MoveOne DEF Claim, Active
<1>11. ASSUME NEW t \in Txs, Arm(h, t) PROVE HeadMoves(h)
  BY <1>1, <1>11 DEF Arm, Active, HeadMoves, TypeOK
<1>12. ASSUME NEW e \in Events, WriteRow(h, e) PROVE HeadMoves(h)
  BY <1>1, <1>12, MoveOne DEF WriteRow, Active
<1>13. CASE SettleAttempt(h)
  BY <1>1, <1>13, MoveOne DEF SettleAttempt, Runs, Active
<1> QED
  BY <1>2, <1>3, <1>4, <1>5, <1>6, <1>7, <1>8, <1>9, <1>10, <1>11, <1>12, <1>13 DEF Advance

\* Steps nobody's request takes.
Background ==
  \/ \E s \in Subjects : StartSubmit(s) \/ Submit(s) \/ DirectReject(s)
  \/ \E a \in Approvals : Reject(a)
  \/ \E e \in Events : AskReceipt(e)
  \/ ActOnReceipt
  \/ \E t \in Txs : Reach(t) \/ Include(t)

LEMMA WhoMoves ==
  Next <=> \/ \E h \in Handlers : StartRequest(h) \/ Advance(h)
           \/ Background
           \/ Crash
  BY DEF Next, Background

LEMMA BackgroundLeavesRequests == Background => UNCHANGED <<task, lock>>
  BY DEF Background, StartSubmit, Submit, DirectReject, Reject, AskReceipt, ActOnReceipt, Confirm,
     KeepWaiting, WriteOffRow, WriteOffKey, WriteOffClaim, Reach, Include

LEMMA EnqueueQueues ==
  ASSUME TypeOK, NEW h \in Handlers, NEW t, t.pc = "queued", Enqueue(h, t)
  PROVE  /\ Free /\ UNCHANGED <<db, tx, sweep, cpu>>
         /\ task[h].pc = "idle" /\ task'[h] = t /\ task'[h].pc = "queued"
         /\ \A k \in Handlers : k # h => task'[k] = task[k]
         /\ lock' = Append(lock, h)
  BY DEF Enqueue, TypeOK

LEMMA StartQueues ==
  ASSUME TypeOK, NEW h \in Handlers, StartRequest(h)
  PROVE  /\ Free /\ UNCHANGED <<db, tx, sweep, cpu>>
         /\ task[h].pc = "idle" /\ task'[h].pc = "queued"
         /\ \A k \in Handlers : k # h => task'[k] = task[k]
         /\ lock' = Append(lock, h)
<1>1. ASSUME NEW a \in Approvals, StartApprove(h, a)
      PROVE  \E t : t.pc = "queued" /\ Enqueue(h, t)
  <2> DEFINE t == [Idle EXCEPT !.pc = "queued", !.act = "approve", !.appr = a,
                               !.pays = approval[a].of, !.ref = approval[a].of]
  <2>1. Enqueue(h, t)
    BY <1>1 DEF StartApprove
  <2>2. t.pc = "queued"
    BY DEF Idle
  <2> HIDE DEF t
  <2> QED BY <2>1, <2>2
<1>2. ASSUME NEW s \in Subjects, StartDirect(h, s)
      PROVE  \E t : t.pc = "queued" /\ Enqueue(h, t)
  <2> DEFINE t == [Idle EXCEPT !.pc = "queued", !.act = "direct", !.pays = s, !.ref = s]
  <2>1. Enqueue(h, t)
    BY <1>2 DEF StartDirect
  <2>2. t.pc = "queued"
    BY DEF Idle
  <2> HIDE DEF t
  <2> QED BY <2>1, <2>2
<1>3. ASSUME NEW e \in Events, StartRepay(h, e)
      PROVE  \E t : t.pc = "queued" /\ Enqueue(h, t)
  <2> DEFINE t == [Idle EXCEPT !.pc = "queued", !.act = "repay", !.ev = e, !.pays = event[e].pays]
  <2>1. Enqueue(h, t)
    BY <1>3 DEF StartRepay
  <2>2. t.pc = "queued"
    BY DEF Idle
  <2> HIDE DEF t
  <2> QED BY <2>1, <2>2
<1>4. PICK t : t.pc = "queued" /\ Enqueue(h, t)
  BY <1>1, <1>2, <1>3 DEF StartRequest
<1> QED BY <1>4, EnqueueQueues

-----------------------------------------------------------------------------
(* The family spend lock lets one request at a time past its queue.        *)

LEMMA OneAtATimeStep ==
  ASSUME TypeOK, OneAtATime, Next
  PROVE  OneAtATime'
<1>1. ASSUME NEW h \in Handlers, StartRequest(h) PROVE OneAtATime'
  <2> SUFFICES ASSUME NEW k \in Handlers, Active(k)' PROVE lock' # <<>> /\ Head(lock') = k
    BY DEF OneAtATime
  <2>1. lock' = Append(lock, h) /\ k # h /\ task'[k] = task[k]
    BY <1>1, StartQueues DEF Active
  <2>2. lock # <<>> /\ Head(lock) = k
    BY <2>1 DEF OneAtATime, Active
  <2> QED BY <2>1, <2>2 DEF TypeOK
<1>2. ASSUME NEW h \in Handlers, HeadMoves(h) PROVE OneAtATime'
  <2>1. \A k \in Handlers : Active(k)' => k = h
    BY <1>2, OnlyOne DEF HeadMoves, Active
  <2>2. CASE UNCHANGED lock
    BY <1>2, <2>1, <2>2 DEF HeadMoves, OneAtATime
  <2>3. CASE Leave(h)
    BY <2>1, <2>3 DEF Leave, OneAtATime, Active, TypeOK, Idle
  <2> QED BY <1>2, <2>2, <2>3 DEF HeadMoves
<1>3. CASE UNCHANGED <<task, lock>>
  BY <1>3 DEF OneAtATime, Active
<1>4. CASE Crash
  BY <1>4 DEF Crash, OneAtATime, Active, Idle
<1> QED
  BY <1>1, <1>2, <1>3, <1>4, WhoMoves, AdvanceMovesHead, BackgroundLeavesRequests

-----------------------------------------------------------------------------
(* Who writes what.                                                        *)

LEMMA StartWritesNothing ==
  ASSUME NEW h, StartRequest(h)
  PROVE  UNCHANGED <<approval, attempt, event, tx, sweep, cpu>>
  BY DEF StartRequest, StartApprove, StartDirect, StartRepay, Enqueue, db

LEMMA WhoWritesEvents ==
  Next => \/ UNCHANGED event
          \/ \E h \in Handlers, e \in Events : WriteRow(h, e)
          \/ \E h \in Handlers : MarkRepaid(h)
          \/ Confirm \/ WriteOffRow \/ WriteOffKey
<1> USE DEF db
<1>1. Background => UNCHANGED event \/ Confirm \/ WriteOffRow \/ WriteOffKey
  BY DEF Background, StartSubmit, Submit, DirectReject, Reject, AskReceipt, ActOnReceipt,
     KeepWaiting, WriteOffClaim, Reach, Include
<1>2. ASSUME NEW h \in Handlers, Advance(h)
      PROVE  UNCHANGED event \/ (\E e \in Events : WriteRow(h, e)) \/ MarkRepaid(h)
  BY <1>2 DEF Advance, TurnAway, ShareAlreadySet, Enter, Fundable, NotFundable, DecideApprove,
     DecideRepay, AlreadyDecided, Unresolved, Throw, Replay, Claim, Arm, PrepareFails, BroadcastFails,
     SettleAttempt, SettleSubject
<1>3. Crash => UNCHANGED event
  BY DEF Crash
<1> QED BY <1>1, <1>2, <1>3, WhoMoves, StartWritesNothing

LEMMA WhoWritesAttempts ==
  Next => \/ UNCHANGED attempt
          \/ \E h \in Handlers : Claim(h) \/ PrepareFails(h) \/ SettleAttempt(h)
          \/ \E h \in Handlers, t \in Txs : Arm(h, t)
          \/ WriteOffClaim
<1> USE DEF db
<1>1. Background => UNCHANGED attempt \/ WriteOffClaim
  BY DEF Background, StartSubmit, Submit, DirectReject, Reject, AskReceipt, ActOnReceipt,
     KeepWaiting, Confirm, WriteOffRow, WriteOffKey, Reach, Include
<1>2. ASSUME NEW h \in Handlers, Advance(h)
      PROVE  \/ UNCHANGED attempt \/ Claim(h) \/ PrepareFails(h) \/ SettleAttempt(h)
             \/ \E t \in Txs : Arm(h, t)
  BY <1>2 DEF Advance, TurnAway, ShareAlreadySet, Enter, Fundable, NotFundable, DecideApprove,
     DecideRepay, AlreadyDecided, Unresolved, Throw, Replay, BroadcastFails, WriteRow,
     SettleSubject, MarkRepaid
<1>3. Crash => UNCHANGED attempt
  BY DEF Crash
<1> QED BY <1>1, <1>2, <1>3, WhoMoves, StartWritesNothing

LEMMA WhoWritesTxs ==
  Next => \/ UNCHANGED tx
          \/ \E h \in Handlers, t \in Txs : Arm(h, t)
          \/ \E t \in Txs : Reach(t) \/ Include(t)
<1> USE DEF db
<1>1. Background => UNCHANGED tx \/ \E t \in Txs : Reach(t) \/ Include(t)
  BY DEF Background, StartSubmit, Submit, DirectReject, Reject, AskReceipt, ActOnReceipt,
     KeepWaiting, Confirm, WriteOffRow, WriteOffKey, WriteOffClaim
<1>2. ASSUME NEW h \in Handlers, Advance(h)
      PROVE  UNCHANGED tx \/ \E t \in Txs : Arm(h, t)
  BY <1>2 DEF Advance, TurnAway, ShareAlreadySet, Enter, Fundable, NotFundable, DecideApprove,
     DecideRepay, AlreadyDecided, Unresolved, Throw, Replay, Claim, PrepareFails, BroadcastFails,
     WriteRow, SettleAttempt, SettleSubject, MarkRepaid
<1>3. Crash => UNCHANGED tx
  BY DEF Crash
<1> QED BY <1>1, <1>2, <1>3, WhoMoves, StartWritesNothing

LEMMA WhoSweeps ==
  Next => \/ UNCHANGED <<sweep, cpu>>
          \/ \E h \in Handlers, e \in Events : WriteRow(h, e)
          \/ \E h \in Handlers : SettleAttempt(h)
          \/ \E e \in Events : AskReceipt(e)
          \/ ActOnReceipt
          \/ Crash
<1> USE DEF db
<1>1. Background => UNCHANGED <<sweep, cpu>> \/ (\E e \in Events : AskReceipt(e)) \/ ActOnReceipt
  BY DEF Background, StartSubmit, Submit, DirectReject, Reject, Reach, Include
<1>2. ASSUME NEW h \in Handlers, Advance(h)
      PROVE  UNCHANGED <<sweep, cpu>> \/ (\E e \in Events : WriteRow(h, e)) \/ SettleAttempt(h)
  BY <1>2 DEF Advance, TurnAway, ShareAlreadySet, Enter, Fundable, NotFundable, DecideApprove,
     DecideRepay, AlreadyDecided, Unresolved, Throw, Replay, Claim, Arm, PrepareFails, BroadcastFails,
     SettleSubject, MarkRepaid
<1> QED BY <1>1, <1>2, WhoMoves, StartWritesNothing

-----------------------------------------------------------------------------
(* A ledger row only moves forward.                                        *)

\* A row written off stays written off, for the work it was written for.
LEMMA FailedStays ==
  ASSUME TypeOK, Sweeping, Next, NEW e \in Events, event[e].status = "failed"
  PROVE  event'[e].status = "failed" /\ event'[e].pays = event[e].pays
<1>1. ASSUME NEW h \in Handlers, NEW f \in Events, WriteRow(h, f)
      PROVE  event'[e] = event[e]
  BY <1>1 DEF WriteRow, FreeEvents, TypeOK
<1>2. ASSUME NEW h \in Handlers, MarkRepaid(h)
      PROVE  event'[e].status = event[e].status /\ event'[e].pays = event[e].pays
  BY <1>2 DEF MarkRepaid, TypeOK, EventRow
<1>3. CASE Confirm
  BY <1>3 DEF Confirm, Sweeping, TypeOK
<1>4. CASE WriteOffRow
  BY <1>4 DEF WriteOffRow, TypeOK, EventRow
<1>5. CASE WriteOffKey
  BY <1>5 DEF WriteOffKey, TypeOK, EventRow
<1> QED BY <1>1, <1>2, <1>3, <1>4, <1>5, WhoWritesEvents

-----------------------------------------------------------------------------
(* A request keeps what it was asked to do.                                *)

\* It goes on with the same subject, and starts paying nothing new.
GoesOn(h) ==
  /\ task[h].pc # "idle"
  /\ task'[h].act = task[h].act /\ task'[h].pays = task[h].pays /\ task'[h].appr = task[h].appr
  /\ task'[h].ref = task[h].ref /\ task'[h].ev = task[h].ev
  /\ task'[h].pc \in Paying => task[h].pc \in Paying

LEMMA RequestGoesOn ==
  ASSUME TypeOK, Sweeping, Next, NEW h \in Handlers, RequestOK(h), GoesOn(h)
  PROVE  RequestOK(h)'
  BY FailedStays DEF RequestOK, GoesOn

LEMMA RequestKept ==
  ASSUME TypeOK, Sweeping, Next, NEW h \in Handlers, RequestOK(h), task'[h] = task[h]
  PROVE  RequestOK(h)'
  BY FailedStays DEF RequestOK

LEMMA RequestDone ==
  ASSUME TypeOK, NEW h \in Handlers, Leave(h)
  PROVE  RequestOK(h)'
  BY DEF Leave, RequestOK, Idle, TypeOK

LEMMA RequestStarts ==
  ASSUME TypeOK, Rows, NEW h \in Handlers, StartRequest(h)
  PROVE  RequestOK(h)'
<1>1. ASSUME NEW a \in Approvals, StartApprove(h, a) PROVE RequestOK(h)'
  <2> DEFINE t == [Idle EXCEPT !.pc = "queued", !.act = "approve", !.appr = a,
                               !.pays = approval[a].of, !.ref = approval[a].of]
  <2>1. Enqueue(h, t)
    BY <1>1 DEF StartApprove
  <2>2. /\ t.pc = "queued" /\ t.act = "approve" /\ t.appr = a
        /\ t.pays = approval[a].of /\ t.ref = approval[a].of
    BY DEF Idle
  <2> HIDE DEF t
  <2>3. task'[h] = t
    BY <2>1, <2>2, EnqueueQueues
  <2>4. approval[a].of \in Subjects
    BY <1>1 DEF StartApprove, Rows
  <2> QED BY <2>2, <2>3, <2>4 DEF RequestOK, Paying
<1>2. ASSUME NEW s \in Subjects, StartDirect(h, s) PROVE RequestOK(h)'
  <2> DEFINE t == [Idle EXCEPT !.pc = "queued", !.act = "direct", !.pays = s, !.ref = s]
  <2>1. Enqueue(h, t)
    BY <1>2 DEF StartDirect
  <2>2. t.pc = "queued" /\ t.act = "direct" /\ t.pays = s /\ t.ref = s
    BY DEF Idle
  <2> HIDE DEF t
  <2>3. task'[h] = t
    BY <2>1, <2>2, EnqueueQueues
  <2> QED BY <2>2, <2>3 DEF RequestOK, Paying
<1>3. ASSUME NEW e \in Events, StartRepay(h, e) PROVE RequestOK(h)'
  <2> DEFINE t == [Idle EXCEPT !.pc = "queued", !.act = "repay", !.ev = e, !.pays = event[e].pays]
  <2>1. Enqueue(h, t)
    BY <1>3 DEF StartRepay
  <2>2. t.pc = "queued" /\ t.act = "repay" /\ t.ev = e /\ t.pays = event[e].pays
    BY DEF Idle
  <2> HIDE DEF t
  <2>3. task'[h] = t /\ UNCHANGED event
    BY <2>1, <2>2, EnqueueQueues DEF db
  <2>4. event[e].pays \in Subjects /\ event[e].status = "failed"
    BY <1>3 DEF StartRepay, Rows, RowOK
  <2> QED BY <2>2, <2>3, <2>4 DEF RequestOK, Paying
<1> QED BY <1>1, <1>2, <1>3 DEF StartRequest

LEMMA RequestAdvances ==
  ASSUME TypeOK, Requests, OneAtATime, Rows, Sweeping, Next, NEW h \in Handlers, Advance(h)
  PROVE  RequestOK(h)'
<1> USE DEF db
<1>1. RequestOK(h)
  BY DEF Requests
<1>2. CASE \/ TurnAway(h) \/ ShareAlreadySet(h) \/ NotFundable(h) \/ AlreadyDecided(h)
           \/ Unresolved(h) \/ PrepareFails(h) \/ BroadcastFails(h) \/ SettleSubject(h) \/ MarkRepaid(h)
  BY <1>2, RequestDone DEF TurnAway, ShareAlreadySet, NotFundable, AlreadyDecided, Unresolved,
     PrepareFails, BroadcastFails, Throw, SettleSubject, MarkRepaid
<1>3. CASE Enter(h)
  <2>1. PICK p, v : task' = [task EXCEPT ![h].pc = p, ![h].value = v] /\ p \in {"funds", "decide"}
    BY <1>3 DEF Enter, NextAfterPrice
  <2>2. GoesOn(h)
    BY <1>3, <2>1 DEF Enter, GoesOn, Paying, TypeOK, Task
  <2> QED BY <1>1, <2>2, RequestGoesOn
<1>4. ASSUME NEW p, Goto(h, p), task[h].pc # "idle", p \in Paying => task[h].pc \in Paying
      PROVE  RequestOK(h)'
  <2>1. GoesOn(h)
    BY <1>4 DEF GoesOn, Goto, TypeOK, Task
  <2> QED BY <1>1, <2>1, RequestGoesOn
<1>5. CASE Fundable(h)
  BY <1>4, <1>5 DEF Fundable, Paying
<1>6. CASE Claim(h)
  BY <1>4, <1>6 DEF Claim, Paying
<1>7. ASSUME NEW e \in Events, WriteRow(h, e) PROVE RequestOK(h)'
  BY <1>4, <1>7 DEF WriteRow, Paying
<1>8. CASE SettleAttempt(h)
  BY <1>4, <1>8 DEF SettleAttempt, Runs, Paying
<1>9. ASSUME NEW a \in Approvals, DecideApprove(h, a) PROVE RequestOK(h)'
  <2>1. /\ task'[h].act = task[h].act /\ task'[h].pays = task[h].pays /\ task'[h].appr = a
        /\ task'[h].ref = task[h].ref /\ task'[h].ev = task[h].ev
    BY <1>9 DEF DecideApprove, TypeOK, Task
  <2>2. task[h].pc = "decide" /\ task[h].act \in {"approve", "direct"}
    BY <1>9 DEF DecideApprove
  <2> QED BY <1>1, <2>1, <2>2 DEF RequestOK
<1>10. CASE DecideRepay(h)
  <2> DEFINE e == task[h].ev
             r == IF event[e].retired # None THEN event[e].retired ELSE e
  <2>1. task' = [task EXCEPT ![h].pc = AfterLedgerCheck(h, r), ![h].ref = r] /\ UNCHANGED event
    BY <1>10 DEF DecideRepay
  <2>2. task[h].act = "repay" /\ task[h].pc = "decide" /\ ~ WritingOff
    BY <1>10, ServerPayoutAssumption DEF ServerPayoutAssumption, DecideRepay, Sweeping, Free, WritingOff
  <2>3. e \in Events /\ event[e].status = "failed" /\ event[e].pays = task[h].pays /\ task[h].pays \in Subjects
    BY <1>1, <2>2 DEF RequestOK
  <2>4. event[e].retired = task[h].pays
    BY <2>2, <2>3 DEF Rows, RowOK, WritingOff
  <2>5. r = task[h].pays
    BY <2>3, <2>4, ServerPayoutAssumption DEF ServerPayoutAssumption
  <2> HIDE DEF r
  <2>6. /\ task'[h].act = "repay" /\ task'[h].pays = task[h].pays
        /\ task'[h].ref = r /\ task'[h].ev = e
    BY <2>1, <2>2 DEF TypeOK, Task
  <2> QED BY <2>1, <2>3, <2>5, <2>6 DEF RequestOK
<1>11. CASE Replay(h)
  <2>1. GoesOn(h)
    BY <1>11 DEF Replay, GoesOn, Paying, TypeOK, Task
  <2> QED BY <1>1, <2>1, RequestGoesOn
<1>12. ASSUME NEW t \in Txs, Arm(h, t) PROVE RequestOK(h)'
  <2>1. GoesOn(h)
    BY <1>12 DEF Arm, GoesOn, Paying, TypeOK, Task
  <2> QED BY <1>1, <2>1, RequestGoesOn
<1> QED
  BY <1>2, <1>3, <1>5, <1>6, <1>7, <1>8, <1>9, <1>10, <1>11, <1>12 DEF Advance

LEMMA RequestsStep ==
  ASSUME TypeOK, Requests, OneAtATime, Rows, Sweeping, Next
  PROVE  Requests'
<1>1. ASSUME NEW h \in Handlers, StartRequest(h) \/ Advance(h) PROVE Requests'
  <2>1. RequestOK(h)'
    BY <1>1, RequestStarts, RequestAdvances
  <2>2. ASSUME NEW k \in Handlers, k # h PROVE RequestOK(k)'
    <3>1. task'[k] = task[k]
      BY <1>1, <2>2, StartQueues, AdvanceMovesHead DEF HeadMoves
    <3> QED BY <3>1, RequestKept DEF Requests
  <2> QED BY <2>1, <2>2 DEF Requests
<1>2. CASE Background
  BY <1>2, BackgroundLeavesRequests, RequestKept DEF Requests
<1>3. CASE Crash
  BY <1>3 DEF Crash, Requests, RequestOK, Idle
<1> QED BY <1>1, <1>2, <1>3, WhoMoves

\* While a write-off is under way nobody else is on the processor.
LEMMA FreeMeansNoWriteOff ==
  ASSUME Sweeping, cpu # "sweeper"
  PROVE  sweep.step \notin {"key", "claim"}
  BY DEF Sweeping, WritingOff

LEMMA NoneIsNotSweeper == None # "sweeper"
  BY ServerPayoutAssumption DEF ServerPayoutAssumption

\* An approval row that exists is about a chore.
LEMMA ApprovalsStep ==
  ASSUME TypeOK, Requests, Rows, Next, NEW a \in Approvals, approval'[a].status # "none"
  PROVE  approval'[a].of \in Subjects
<1> USE DEF db
<1>1. approval[a].status # "none" => approval[a].of \in Subjects
  BY DEF Rows
<1>2. ASSUME NEW s \in Subjects, Submit(s) PROVE approval'[a].of \in Subjects
  BY <1>1, <1>2 DEF Submit, TypeOK
<1>3. ASSUME NEW s \in Subjects, DirectReject(s) PROVE approval'[a].of \in Subjects
  BY <1>1, <1>3 DEF DirectReject, PendingApprovals, TypeOK, ApprovalRow
<1>4. ASSUME NEW b \in Approvals, Reject(b) PROVE approval'[a].of \in Subjects
  BY <1>1, <1>4 DEF Reject, TypeOK, ApprovalRow
<1>5. ASSUME NEW h \in Handlers, Enter(h) PROVE approval'[a].of \in Subjects
  <2>1. approval'[a].of = approval[a].of /\ approval'[a].status = approval[a].status
    BY <1>5 DEF Enter, TypeOK, ApprovalRow
  <2> QED BY <1>1, <2>1
<1>6. ASSUME NEW h \in Handlers, NEW b \in Approvals, DecideApprove(h, b)
      PROVE  approval'[a].of \in Subjects
  <2>1. task[h].pays \in Subjects
    BY <1>6 DEF DecideApprove, Requests, RequestOK
  <2>2. approval' = [approval EXCEPT ![b] = [@ EXCEPT !.status = "approved", !.of = task[h].pays]]
    BY <1>6 DEF DecideApprove
  <2>3. CASE a = b
    BY <2>1, <2>2, <2>3 DEF TypeOK, ApprovalRow
  <2>4. CASE a # b
    BY <1>1, <2>2, <2>4 DEF TypeOK
  <2> QED BY <2>3, <2>4
<1>7. ASSUME NEW h \in Handlers, Throw(h) PROVE approval'[a].of \in Subjects
  <2>1. approval' = Reopened(h)
    BY <1>7 DEF Throw
  <2>2. \/ approval' = approval
        \/ /\ approval[task[h].appr].status = "approved"
           /\ approval' = [approval EXCEPT ![task[h].appr].status = "pending",
                                           ![task[h].appr].share = None]
    BY <2>1 DEF Reopened
  <2>3. approval'[a].of = approval[a].of
    BY <2>2 DEF TypeOK, ApprovalRow
  <2>4. approval'[a].status # "none" => approval[a].status # "none"
    BY <2>2 DEF TypeOK, ApprovalRow
  <2> QED BY <1>1, <2>3, <2>4
<1>8. CASE UNCHANGED approval
  BY <1>1, <1>8
<1>9. Background => \/ UNCHANGED approval
                    \/ \E s \in Subjects : Submit(s) \/ DirectReject(s)
                    \/ \E b \in Approvals : Reject(b)
  BY DEF Background, StartSubmit, AskReceipt, ActOnReceipt, Confirm, KeepWaiting, WriteOffRow,
     WriteOffKey, WriteOffClaim, Reach, Include
<1>10. ASSUME NEW h \in Handlers, Advance(h)
       PROVE  UNCHANGED approval \/ Enter(h) \/ (\E b \in Approvals : DecideApprove(h, b)) \/ Throw(h)
  BY <1>10 DEF Advance, TurnAway, ShareAlreadySet, Fundable, NotFundable, DecideRepay, AlreadyDecided,
     Unresolved, Replay, Claim, Arm, PrepareFails, BroadcastFails, WriteRow, SettleAttempt,
     SettleSubject, MarkRepaid
<1>11. Crash => UNCHANGED approval
  BY DEF Crash
<1> QED
  BY <1>2, <1>3, <1>4, <1>5, <1>6, <1>7, <1>8, <1>9, <1>10, <1>11, WhoMoves, StartWritesNothing

\* What the chain does next never contradicts a row.
LEMMA RowKeptByChain ==
  ASSUME TypeOK, Next, NEW t \in Txs, tx[t].state \notin {"none", "held"}
  PROVE  /\ tx'[t].state \notin {"none", "held"}
         /\ tx[t].state \in {"executed", "rejected"} => tx'[t].state = tx[t].state
<1>1. ASSUME NEW h \in Handlers, NEW u \in Txs, Arm(h, u) PROVE tx'[t] = tx[t]
  BY <1>1 DEF Arm, FreeTxs, TypeOK
<1>2. ASSUME NEW u \in Txs, Reach(u) PROVE tx'[t] = tx[t]
  BY <1>2 DEF Reach, TypeOK
<1>3. ASSUME NEW u \in Txs, Include(u)
      PROVE  /\ tx'[t].state \notin {"none", "held"}
             /\ tx[t].state \in {"executed", "rejected"} => tx'[t].state = tx[t].state
  BY <1>3 DEF Include, TypeOK, Transaction
<1> QED BY <1>1, <1>2, <1>3, WhoWritesTxs

\* A row nobody writes stays as it should be.
LEMMA RowKept ==
  ASSUME TypeOK, Next, NEW e \in Events, RowOK(e), event'[e] = event[e],
         sweep.step = "key" /\ sweep.ev = e => UNCHANGED sweep
  PROVE  RowOK(e)'
<1>1. CASE event[e].status = "none"
  BY <1>1 DEF RowOK, OnTheBooks
<1>2. CASE OnTheBooks(e)
  BY <1>2, RowKeptByChain DEF RowOK, OnTheBooks
<1>3. CASE event[e].status = "failed"
  <2>1. tx'[event[e].hash].state = "rejected"
    BY <1>3, RowKeptByChain DEF RowOK
  <2> QED BY <1>3, <2>1 DEF RowOK, OnTheBooks
<1> QED BY <1>1, <1>2, <1>3 DEF TypeOK, EventRow, OnTheBooks

LEMMA RowStep ==
  ASSUME TypeOK, Requests, Rows, Payer, Sweeping, ~ TornWriteOff, Next, NEW e \in Events
  PROVE  RowOK(e)'
<1> USE NoneIsNotSweeper DEF db
<1>1. RowOK(e)
  BY DEF Rows
<1>2. ASSUME NEW h \in Handlers, NEW f \in Events, WriteRow(h, f) PROVE RowOK(e)'
  <2>1. sweep.step # "key"
    BY <1>2, FreeMeansNoWriteOff DEF WriteRow, Free
  <2>2. CASE e # f
    <3>1. event'[e] = event[e]
      BY <1>2, <2>2 DEF WriteRow, TypeOK
    <3> QED BY <1>1, <2>1, <3>1, RowKept
  <2>3. CASE e = f
    <3>1. task[h].pays \in Subjects /\ task[h].ref = task[h].pays
      BY <1>2 DEF WriteRow, Requests, RequestOK, Paying
    <3>2. task[h].tx \in Txs
      BY <1>2 DEF WriteRow, Payer, PayerOK
    <3>3. tx'[task[h].tx].state \notin {"none", "held"}
      BY <1>2, <3>2, RowKeptByChain DEF WriteRow
    <3>4. /\ event'[e].status = "pending" /\ event'[e].ref = task[h].ref
          /\ event'[e].pays = task[h].pays /\ event'[e].hash = task[h].tx
      BY <1>2, <2>3 DEF WriteRow, TypeOK
    <3> QED BY <3>1, <3>2, <3>3, <3>4 DEF RowOK, OnTheBooks
  <2> QED BY <2>2, <2>3
<1>3. ASSUME NEW h \in Handlers, MarkRepaid(h) PROVE RowOK(e)'
  <2>1. /\ event'[e].status = event[e].status /\ event'[e].ref = event[e].ref
        /\ event'[e].retired = event[e].retired /\ event'[e].pays = event[e].pays
        /\ event'[e].hash = event[e].hash
    BY <1>3 DEF MarkRepaid, TypeOK, EventRow
  <2>2. UNCHANGED <<tx, sweep>>
    BY <1>3 DEF MarkRepaid
  <2> QED BY <1>1, <2>1, <2>2 DEF RowOK, OnTheBooks
<1>4. CASE Confirm
  <2>1. CASE e # sweep.ev
    BY <1>1, <1>4, <2>1, RowKept DEF Confirm, TypeOK
  <2>2. CASE e = sweep.ev
    <3>1. /\ event[e].status = "pending" /\ event'[e].status = "done"
          /\ event'[e].ref = event[e].ref /\ event'[e].pays = event[e].pays
          /\ event'[e].hash = event[e].hash /\ UNCHANGED tx
      BY <1>4, <2>2 DEF Confirm, Sweeping, TypeOK, EventRow
    <3> QED BY <1>1, <3>1 DEF RowOK, OnTheBooks
  <2> QED BY <2>1, <2>2
<1>5. CASE WriteOffRow
  <2>1. CASE e # sweep.ev
    BY <1>1, <1>5, <2>1, RowKept DEF WriteOffRow, TypeOK
  <2>2. CASE e = sweep.ev
    <3>1. /\ event[e].status = "pending" /\ event'[e].status = "failed" /\ event'[e].ref = None
          /\ event'[e].pays = event[e].pays /\ event'[e].hash = event[e].hash /\ UNCHANGED tx
      BY <1>5, <2>2 DEF WriteOffRow, Sweeping, TypeOK, EventRow
    <3>2. tx[event[e].hash].state = "rejected"
      BY <1>5, <2>2 DEF WriteOffRow, Sweeping
    <3>3. sweep'.step = "key" /\ sweep'.ev = e /\ sweep'.key = event[e].ref
      BY <1>5, <2>2 DEF WriteOffRow, TypeOK, Sweep
    <3> QED BY <1>1, <3>1, <3>2, <3>3 DEF RowOK, OnTheBooks
  <2> QED BY <2>1, <2>2
<1>6. CASE WriteOffKey
  <2>1. CASE e # sweep.ev
    BY <1>1, <1>6, <2>1, RowKept DEF WriteOffKey, TypeOK
  <2>2. CASE e = sweep.ev
    <3>1. event[e].status = "failed"
      BY <1>6, <2>2 DEF WriteOffKey, Sweeping, WritingOff
    <3>2. /\ event'[e].status = event[e].status /\ event'[e].ref = event[e].ref
          /\ event'[e].pays = event[e].pays /\ event'[e].hash = event[e].hash
          /\ event'[e].retired = sweep.key /\ UNCHANGED tx
      BY <1>6, <2>2 DEF WriteOffKey, TypeOK, EventRow
    <3>3. sweep.key = event[e].pays
      BY <1>6, <2>2 DEF WriteOffKey, Sweeping, WritingOff
    <3> QED BY <1>1, <3>1, <3>2, <3>3 DEF RowOK, OnTheBooks
  <2> QED BY <2>1, <2>2
<1>7. CASE UNCHANGED event
  <2>1. CASE sweep.step # "key" \/ UNCHANGED sweep
    BY <1>1, <1>7, <2>1, RowKept
  <2>2. CASE sweep.step = "key" /\ sweep' # sweep
    <3>1. cpu = "sweeper"
      BY <2>2 DEF Sweeping, WritingOff
    <3>2. ~ Crash /\ \A f \in Events : ~ AskReceipt(f)
      BY <3>1 DEF Crash, AskReceipt, Free
    <3>3. \A h \in Handlers : ~ SettleAttempt(h) /\ \A f \in Events : ~ WriteRow(h, f)
      BY <3>1, ServerPayoutAssumption DEF SettleAttempt, WriteRow, Runs, Free, ServerPayoutAssumption
    <3>4. ActOnReceipt => WriteOffKey
      BY <2>2 DEF ActOnReceipt, Confirm, KeepWaiting, WriteOffRow, WriteOffClaim
    <3> QED BY <1>6, <2>2, <3>2, <3>3, <3>4, WhoSweeps
  <2> QED BY <2>1, <2>2
<1> QED BY <1>2, <1>3, <1>4, <1>5, <1>6, <1>7, WhoWritesEvents

\* Two rows never hold one key.
LEMMA KeysStep ==
  ASSUME TypeOK, Rows, Payer, Sweeping, Next, NEW e \in Events, NEW f \in Events,
         event'[e].ref = event'[f].ref, event'[e].ref # None
  PROVE  e = f
<1>1. event[e].ref = event[f].ref /\ event[e].ref # None => e = f
  BY DEF Rows
<1>2. ASSUME NEW h \in Handlers, NEW g \in Events, WriteRow(h, g) PROVE e = f
  <2>1. \A x \in Events : event[x].ref # task[h].ref
    BY <1>2 DEF WriteRow, Payer, PayerOK
  <2>2. event'[g].ref = task[h].ref /\ \A x \in Events : x # g => event'[x] = event[x]
    BY <1>2 DEF WriteRow, TypeOK
  <2> QED BY <1>1, <2>1, <2>2
<1>3. ASSUME \A x \in Events : event'[x].ref = event[x].ref \/ event'[x].ref = None PROVE e = f
  BY <1>1, <1>3
<1>4. ASSUME NEW h \in Handlers, MarkRepaid(h) PROVE \A x \in Events : event'[x].ref = event[x].ref
  BY <1>4 DEF MarkRepaid, TypeOK, EventRow
<1>5. CASE Confirm \/ WriteOffKey
  <2>1. \A x \in Events : event'[x].ref = event[x].ref
    <3>1. CASE Confirm
      BY <3>1 DEF Confirm, TypeOK, EventRow
    <3>2. CASE WriteOffKey
      BY <3>2 DEF WriteOffKey, TypeOK, EventRow
    <3> QED BY <1>5, <3>1, <3>2
  <2> QED BY <1>3, <2>1
<1>6. CASE WriteOffRow
  <2>1. \A x \in Events : event'[x].ref = event[x].ref \/ event'[x].ref = None
    BY <1>6 DEF WriteOffRow, TypeOK, EventRow
  <2> QED BY <1>3, <2>1
<1> QED BY <1>1, <1>2, <1>3, <1>4, <1>5, <1>6, WhoWritesEvents

LEMMA RowsStep ==
  ASSUME TypeOK, Requests, Rows, Payer, Sweeping, ~ TornWriteOff, Next
  PROVE  Rows'
  BY ApprovalsStep, RowStep, KeysStep DEF Rows

-----------------------------------------------------------------------------
(* What may still move money is held by a row or by a claim in flight.     *)

\* The three tables, as far as Money reads them.
ChainQuiet == \A t \in Txs : Alive(t)' => /\ Alive(t)
                                          /\ tx'[t].ref = tx[t].ref /\ tx'[t].pays = tx[t].pays
ClaimsQuiet == \A r \in Subjects : /\ InFlight(r)' <=> InFlight(r)
                                   /\ InFlight(r) => attempt'[r].bytes = attempt[r].bytes
RowsQuiet == \A e \in Events : /\ event'[e].ref = event[e].ref /\ event'[e].hash = event[e].hash
                               /\ OnTheBooks(e)' => OnTheBooks(e)

LEMMA MoneyKept ==
  ASSUME Money, ChainQuiet, ClaimsQuiet, RowsQuiet
  PROVE  Money'
<1>1. Held'
  BY DEF Money, Held, ChainQuiet, ClaimsQuiet, RowsQuiet
<1>2. Single'
  BY DEF Money, Single, ChainQuiet
<1>3. Named'
  BY DEF Money, Held, Named, ChainQuiet, ClaimsQuiet, RowsQuiet
<1> QED BY <1>1, <1>2, <1>3 DEF Money

LEMMA ChainUnchanged == UNCHANGED tx => ChainQuiet
  BY DEF ChainQuiet, Alive

\* The chain brings nothing to life.
LEMMA ChainGoesOn ==
  ASSUME TypeOK, NEW u \in Txs, Reach(u) \/ Include(u)
  PROVE  ChainQuiet
<1>1. CASE Reach(u)
  <2>1. /\ tx[u].state = "held"
        /\ \A t \in Txs : tx'[t].ref = tx[t].ref /\ tx'[t].pays = tx[t].pays
        /\ \A t \in Txs : t # u => tx'[t] = tx[t]
    BY <1>1 DEF Reach, TypeOK, Transaction
  <2> QED BY <2>1 DEF ChainQuiet, Alive
<1>2. CASE Include(u)
  <2>1. PICK outcome \in {"executed", "rejected"} : tx' = [tx EXCEPT ![u].state = outcome]
    BY <1>2 DEF Include
  <2>2. /\ tx[u].state = "pool"
        /\ \A t \in Txs : tx'[t].ref = tx[t].ref /\ tx'[t].pays = tx[t].pays
        /\ \A t \in Txs : t # u => tx'[t] = tx[t]
    BY <1>2, <2>1 DEF Include, TypeOK, Transaction
  <2> QED BY <2>2 DEF ChainQuiet, Alive
<1> QED BY <1>1, <1>2

LEMMA ClaimsUnchanged == UNCHANGED attempt => ClaimsQuiet
  BY DEF ClaimsQuiet, InFlight

LEMMA RowsUnchanged == UNCHANGED event => RowsQuiet
  BY DEF RowsQuiet, OnTheBooks

\* The transaction just built is the only one for its work, and its claim names it.
LEMMA MoneyArmed ==
  ASSUME TypeOK, Requests, Money, Payer, NEW h \in Handlers, NEW t \in Txs, Arm(h, t)
  PROVE  Money'
<1> DEFINE r == task[h].ref
<1>1. task[h].pc = "prepare" /\ UNCHANGED event
  BY DEF Arm
<1>2. r \in Subjects /\ task[h].pays = r /\ r \in Refs
  BY <1>1 DEF Requests, RequestOK, Paying, Refs
<1>3. attempt[r].status \in {"preparing", "settled"} /\ \A e \in Events : event[e].ref # r
  BY <1>1 DEF Payer, PayerOK
<1>4. /\ attempt'[r].status = "in_flight" /\ attempt'[r].bytes \in {None, t}
      /\ \A s \in Refs : s # r => attempt'[s] = attempt[s]
  BY <1>2, <1>3 DEF Arm, TypeOK, AttemptRow
<1>5. \A u \in Txs : Alive(u) => tx[u].ref # r
  BY <1>2, <1>3 DEF Money, Held, InFlight
<1>6. /\ tx'[t].state = "held" /\ tx'[t].ref = r /\ tx'[t].pays = r
      /\ \A u \in Txs : u # t => tx'[u] = tx[u]
  BY <1>2 DEF Arm, TypeOK
<1> HIDE DEF r
<1>7. ASSUME NEW u \in Txs, Alive(u)', u # t
      PROVE  Alive(u) /\ tx'[u] = tx[u] /\ tx[u].ref # r
  BY <1>5, <1>6, <1>7 DEF Alive
<1>8. \A u \in Txs : Alive(u) => tx[u].ref \in Refs
  BY DEF Money, Held, Refs
<1>9. Held'
  BY <1>1, <1>2, <1>4, <1>6, <1>7, <1>8 DEF Money, Held, InFlight
<1>10. Single'
  BY <1>6, <1>7 DEF Money, Single
<1>11. Named'
  <2> SUFFICES ASSUME NEW u \in Txs, Alive(u)'
               PROVE  /\ \A e \in Events :
                           OnTheBooks(e)' /\ event'[e].ref = tx'[u].ref => event'[e].hash = u
                      /\ InFlight(tx[u].ref)' /\ attempt'[tx'[u].ref].bytes # None =>
                           attempt'[tx'[u].ref].bytes = u
    BY DEF Named
  <2>1. CASE u = t
    BY <1>1, <1>3, <1>4, <1>6, <2>1 DEF InFlight
  <2>2. CASE u # t
    <3>1. Alive(u) /\ tx'[u] = tx[u] /\ tx[u].ref # r /\ tx[u].ref \in Refs
      BY <1>7, <1>8, <2>2
    <3>2. attempt'[tx[u].ref] = attempt[tx[u].ref]
      BY <1>4, <3>1
    <3> QED BY <1>1, <3>1, <3>2 DEF Money, Named, InFlight, OnTheBooks
  <2> QED BY <2>1, <2>2
<1> QED BY <1>9, <1>10, <1>11 DEF Money

\* The row written for a broadcast transaction names the one its work has.
LEMMA MoneyRecorded ==
  ASSUME TypeOK, Requests, Rows, Money, Payer,
         NEW h \in Handlers, NEW f \in Events, WriteRow(h, f)
  PROVE  Money'
<1>1. UNCHANGED <<attempt, tx>>
  BY DEF WriteRow
<1>2. event[f].ref = None /\ None \notin Subjects
  BY ServerPayoutAssumption DEF WriteRow, FreeEvents, Rows, RowOK, ServerPayoutAssumption
<1>3. /\ event'[f].ref = task[h].ref /\ event'[f].hash = task[h].tx
      /\ \A e \in Events : e # f => event'[e] = event[e]
  BY DEF WriteRow, TypeOK
<1>4. \A t \in Txs : Alive(t) /\ tx[t].ref = task[h].ref => t = task[h].tx
  BY DEF WriteRow, Payer, PayerOK
<1>5. Held'
  BY <1>1, <1>2, <1>3 DEF Money, Held, Alive, InFlight
<1>6. Single'
  BY <1>1 DEF Money, Single, Alive
<1>7. Named'
  <2>1. ASSUME NEW t \in Txs, Alive(t), NEW e \in Events, OnTheBooks(e)', event'[e].ref = tx[t].ref
        PROVE  event'[e].hash = t
    <3>1. CASE e = f
      BY <1>3, <1>4, <2>1, <3>1
    <3>2. CASE e # f
      BY <1>3, <2>1, <3>2 DEF Money, Named, OnTheBooks
    <3> QED BY <3>1, <3>2
  <2>2. ASSUME NEW t \in Txs, Alive(t), InFlight(tx[t].ref), attempt[tx[t].ref].bytes # None
        PROVE  attempt[tx[t].ref].bytes = t
    BY <2>2 DEF Money, Named
  <2> QED BY <1>1, <2>1, <2>2 DEF Named, Alive, InFlight
<1> QED BY <1>5, <1>6, <1>7 DEF Money

\* A row is written off only once its transaction cannot move money any more.
LEMMA MoneyWrittenOff ==
  ASSUME TypeOK, Rows, Money, Sweeping, WriteOffRow
  PROVE  Money' /\ \A t \in Txs : Alive(t) => tx[t].ref # event[sweep.ev].ref
<1> DEFINE e == sweep.ev
<1>1. e \in Events /\ event[e].status = "pending" /\ tx[event[e].hash].state = "rejected"
  BY DEF WriteOffRow, Sweeping
<1>2. UNCHANGED <<attempt, tx>>
  BY DEF WriteOffRow
<1>3. /\ event'[e].status = "failed" /\ event'[e].ref = None
      /\ \A f \in Events : f # e => event'[f] = event[f]
  BY <1>1 DEF WriteOffRow, TypeOK, EventRow
<1> HIDE DEF e
<1>4. \A t \in Txs : Alive(t) => tx[t].ref # event[e].ref
  BY <1>1 DEF Money, Named, Alive, OnTheBooks
<1>5. Held'
  BY <1>2, <1>3, <1>4 DEF Money, Held, Alive, InFlight
<1>6. Single'
  BY <1>2 DEF Money, Single, Alive
<1>7. Named'
  <2>1. \A f \in Events : OnTheBooks(f)' => f # e /\ OnTheBooks(f) /\ event'[f] = event[f]
    BY <1>3 DEF OnTheBooks
  <2> QED BY <1>2, <2>1 DEF Money, Named, Alive, InFlight
<1> QED BY <1>4, <1>5, <1>6, <1>7 DEF Money, e

\* Settling the attempt hands the transaction over to the row.
LEMMA MoneySettled ==
  ASSUME TypeOK, Requests, Money, Payer, NEW h \in Handlers, SettleAttempt(h)
  PROVE  Money'
<1>1. UNCHANGED <<event, tx>>
  BY DEF SettleAttempt
<1>2. task[h].ref \in Refs /\ \E e \in Events : event[e].ref = task[h].ref
  BY DEF SettleAttempt, Runs, Requests, RequestOK, Payer, PayerOK, Paying, Refs
<1>3. \A r \in Refs : r # task[h].ref => attempt'[r] = attempt[r]
  BY DEF SettleAttempt, TypeOK
<1>4. attempt'[task[h].ref].status # "in_flight"
  BY <1>2 DEF SettleAttempt, TypeOK, AttemptRow
<1>5. \A t \in Txs : Alive(t) => tx[t].ref \in Refs
  BY DEF Money, Held, Refs
<1>6. Held'
  BY <1>1, <1>2, <1>3, <1>5 DEF Money, Held, Alive, InFlight
<1>7. Single'
  BY <1>1 DEF Money, Single, Alive
<1>8. Named'
  BY <1>1, <1>3, <1>4, <1>5 DEF Money, Named, Alive, InFlight, OnTheBooks
<1> QED BY <1>6, <1>7, <1>8 DEF Money

\* The claim dropped by a write-off holds nothing.
LEMMA MoneyReleased ==
  ASSUME TypeOK, Money, Sweeping, WriteOffClaim
  PROVE  Money'
<1>1. UNCHANGED <<event, tx>>
  BY DEF WriteOffClaim
<1>2. \A t \in Txs : Alive(t) => tx[t].ref # sweep.key
  BY DEF WriteOffClaim, Sweeping, WritingOff
<1>3. \A t \in Txs : Alive(t) => attempt'[tx[t].ref] = attempt[tx[t].ref]
  BY <1>2 DEF WriteOffClaim, TypeOK, Money, Held, Refs
<1>4. Held' /\ Single' /\ Named'
  BY <1>1, <1>3 DEF Money, Held, Single, Named, Alive, InFlight, OnTheBooks
<1> QED BY <1>4 DEF Money

LEMMA MoneyStep ==
  ASSUME TypeOK, Requests, Rows, Money, Payer, Sweeping, Next
  PROVE  Money'
<1> USE ChainUnchanged, ClaimsUnchanged, RowsUnchanged
<1>1. ASSUME NEW h \in Handlers, Claim(h) PROVE Money'
  <2>1. ClaimsQuiet
    BY <1>1 DEF Claim, ClaimsQuiet, InFlight, NoAttempt, TypeOK, AttemptRow, Refs
  <2> QED BY <1>1, <2>1, MoneyKept DEF Claim
<1>2. ASSUME NEW h \in Handlers, PrepareFails(h) PROVE Money'
  <2>1. ClaimsQuiet
    BY <1>2 DEF PrepareFails, ClaimsQuiet, InFlight, NoAttempt, TypeOK, AttemptRow, Refs
  <2> QED BY <1>2, <2>1, MoneyKept DEF PrepareFails, Throw
<1>3. ASSUME NEW h \in Handlers, MarkRepaid(h) PROVE Money'
  <2>1. RowsQuiet
    BY <1>3 DEF MarkRepaid, RowsQuiet, OnTheBooks, TypeOK, EventRow
  <2> QED BY <1>3, <2>1, MoneyKept DEF MarkRepaid
<1>4. CASE Confirm
  <2>1. RowsQuiet
    BY <1>4 DEF Confirm, RowsQuiet, OnTheBooks, TypeOK, EventRow, Sweeping
  <2> QED BY <1>4, <2>1, MoneyKept DEF Confirm
<1>5. CASE WriteOffKey
  <2>1. RowsQuiet
    BY <1>5 DEF WriteOffKey, RowsQuiet, OnTheBooks, TypeOK, EventRow
  <2> QED BY <1>5, <2>1, MoneyKept DEF WriteOffKey
<1>6. ASSUME NEW t \in Txs, Reach(t) \/ Include(t) PROVE Money'
  <2>1. ChainQuiet
    BY <1>6, ChainGoesOn
  <2> QED BY <1>6, <2>1, MoneyKept DEF Reach, Include, db
<1>7. CASE UNCHANGED <<attempt, event, tx>>
  BY <1>7, MoneyKept
<1>8. ASSUME NEW h \in Handlers, NEW t \in Txs, Arm(h, t) PROVE Money'
  BY <1>8, MoneyArmed
<1>9. ASSUME NEW h \in Handlers, NEW e \in Events, WriteRow(h, e) PROVE Money'
  BY <1>9, MoneyRecorded
<1>10. ASSUME NEW h \in Handlers, SettleAttempt(h) PROVE Money'
  BY <1>10, MoneySettled
<1> QED
  BY <1>1, <1>2, <1>3, <1>4, <1>5, <1>6, <1>7, <1>8, <1>9, <1>10, MoneyWrittenOff, MoneyReleased,
     WhoWritesEvents, WhoWritesAttempts, WhoWritesTxs

-----------------------------------------------------------------------------
(* The request that pays finds the ledger as its guards left it.           *)

LEMMA PayingRef ==
  ASSUME TypeOK, Requests, NEW h \in Handlers, task[h].pc \in Paying
  PROVE  /\ task[h].ref \in Subjects /\ task[h].pays = task[h].ref
         /\ task[h].ref \in Refs /\ task[h].ref # None
  BY ServerPayoutAssumption DEF Requests, RequestOK, Paying, Refs, ServerPayoutAssumption

\* A request that is not paying for anything has nothing to find.
LEMMA NotPaying ==
  ASSUME NEW h \in Handlers, task'[h].pc \notin Paying
  PROVE  PayerOK(h)'
  BY DEF PayerOK, Paying

\* What others do while a request waits for its wallet or for the node.
LEMMA PayerKept ==
  ASSUME TypeOK, Requests, NEW h \in Handlers, PayerOK(h), task'[h] = task[h],
         ChainQuiet,
         task[h].pc \in Paying => attempt'[task[h].ref] = attempt[task[h].ref],
         \A e \in Events : event'[e].ref = event[e].ref \/ event'[e].ref = None,
         task[h].pc = "settle" => UNCHANGED cpu /\ \A e \in Events : event'[e].ref = event[e].ref
  PROVE  PayerOK(h)'
<1>1. CASE task[h].pc \notin Paying
  BY <1>1, NotPaying
<1>2. CASE task[h].pc = "settle"
  BY <1>2 DEF PayerOK, Paying
<1>3. CASE task[h].pc \in {"wallet", "prepare", "wire"}
  <2>1. \A e \in Events : event'[e].ref # task[h].ref
    BY <1>3, PayingRef DEF PayerOK, Paying
  <2>2. attempt'[task[h].ref] = attempt[task[h].ref]
    BY <1>3 DEF Paying
  <2>3. task[h].pc = "wire" =>
          \A t \in Txs : Alive(t)' /\ tx'[t].ref = task[h].ref => t = task[h].tx
    BY <1>3 DEF PayerOK, ChainQuiet
  <2> QED BY <1>3, <2>1, <2>2, <2>3 DEF PayerOK, InFlight
<1> QED BY <1>1, <1>2, <1>3 DEF Paying

LEMMA PayerInBackground ==
  ASSUME TypeOK, Requests, Payer, Sweeping, Background, NEW h \in Handlers
  PROVE  PayerOK(h)'
<1> USE DEF db
<1>1. PayerOK(h) /\ task'[h] = task[h]
  BY BackgroundLeavesRequests DEF Payer
<1>2. task[h].pc = "settle" => cpu # None /\ cpu # "sweeper"
  BY <1>1, ServerPayoutAssumption DEF PayerOK, ServerPayoutAssumption
<1>3. CASE UNCHANGED <<attempt, event, tx, cpu>>
  BY <1>1, <1>3, PayerKept, ChainUnchanged
<1>4. CASE Confirm
  <2>1. \A e \in Events : event'[e].ref = event[e].ref
    BY <1>4 DEF Confirm, TypeOK, EventRow
  <2>2. UNCHANGED <<attempt, tx, cpu>>
    BY <1>4 DEF Confirm
  <2> QED BY <1>1, <2>1, <2>2, PayerKept, ChainUnchanged
<1>5. CASE WriteOffRow
  <2>1. \A e \in Events : event'[e].ref = event[e].ref \/ event'[e].ref = None
    BY <1>5 DEF WriteOffRow, TypeOK, EventRow
  <2>2. task[h].pc # "settle" /\ UNCHANGED <<attempt, tx>>
    BY <1>2, <1>5 DEF WriteOffRow, Free
  <2> QED BY <1>1, <2>1, <2>2, PayerKept, ChainUnchanged
<1>6. CASE WriteOffKey
  <2>1. \A e \in Events : event'[e].ref = event[e].ref
    BY <1>6 DEF WriteOffKey, TypeOK, EventRow
  <2>2. UNCHANGED <<attempt, tx, cpu>>
    BY <1>6 DEF WriteOffKey
  <2> QED BY <1>1, <2>1, <2>2, PayerKept, ChainUnchanged
<1>7. CASE WriteOffClaim
  <2>1. task[h].pc # "settle"
    BY <1>2, <1>7 DEF WriteOffClaim, Sweeping, WritingOff
  <2>2. task[h].pc \in Paying => attempt'[task[h].ref] = attempt[task[h].ref]
    BY <1>7, PayingRef DEF WriteOffClaim, Sweeping, WritingOff, TypeOK
  <2>3. UNCHANGED <<event, tx>>
    BY <1>7 DEF WriteOffClaim
  <2> QED BY <1>1, <2>1, <2>2, <2>3, PayerKept, ChainUnchanged
<1>8. ASSUME NEW t \in Txs, Reach(t) \/ Include(t) PROVE PayerOK(h)'
  <2>1. UNCHANGED <<attempt, event, cpu>>
    BY <1>8 DEF Reach, Include
  <2> QED BY <1>1, <1>8, <2>1, PayerKept, ChainGoesOn
<1> QED
  BY <1>3, <1>4, <1>5, <1>6, <1>7, <1>8
  DEF Background, StartSubmit, Submit, DirectReject, Reject, AskReceipt, ActOnReceipt, KeepWaiting

LEMMA PayerAdvances ==
  ASSUME TypeOK, Requests, OneAtATime, Rows, Money, Payer, Sweeping, Next,
         NEW h \in Handlers, Advance(h)
  PROVE  PayerOK(h)'
<1> USE DEF db
<1>1. PayerOK(h)
  BY DEF Payer
<1>2. CASE \/ TurnAway(h) \/ ShareAlreadySet(h) \/ NotFundable(h) \/ AlreadyDecided(h)
           \/ Unresolved(h) \/ PrepareFails(h) \/ BroadcastFails(h) \/ SettleSubject(h) \/ MarkRepaid(h)
  <2>1. task'[h] = Idle
    BY <1>2 DEF TurnAway, ShareAlreadySet, NotFundable, AlreadyDecided, Unresolved,
       PrepareFails, BroadcastFails, Throw, SettleSubject, MarkRepaid, Leave, TypeOK
  <2> QED BY <2>1, NotPaying DEF Idle, Paying
<1>3. CASE Enter(h)
  <2>1. PICK p, v : task' = [task EXCEPT ![h].pc = p, ![h].value = v] /\ p \in {"funds", "decide"}
    BY <1>3 DEF Enter, NextAfterPrice
  <2>2. task'[h].pc = p
    BY <2>1 DEF TypeOK, Task
  <2> QED BY <2>1, <2>2, NotPaying DEF Paying
<1>4. CASE Fundable(h) \/ SettleAttempt(h)
  <2>1. task'[h].pc \in {"decide", "mark", "subject"}
    BY <1>4 DEF Fundable, SettleAttempt, Goto, TypeOK, Task
  <2> QED BY <2>1, NotPaying DEF Paying
<1>5. ASSUME NEW r, UNCHANGED event, task'[h].pc = AfterLedgerCheck(h, r), task'[h].ref = r
      PROVE  PayerOK(h)'
  BY <1>5 DEF AfterLedgerCheck, PayerOK, RowsFor
<1>6. ASSUME NEW a \in Approvals, DecideApprove(h, a) PROVE PayerOK(h)'
  <2>1. task'[h].pc = AfterLedgerCheck(h, task[h].ref) /\ task'[h].ref = task[h].ref /\ UNCHANGED event
    BY <1>6 DEF DecideApprove, TypeOK, Task
  <2> QED BY <1>5, <2>1
<1>7. CASE DecideRepay(h)
  <2> DEFINE e == task[h].ev
             r == IF event[e].retired # None THEN event[e].retired ELSE e
  <2>1. task' = [task EXCEPT ![h].pc = AfterLedgerCheck(h, r), ![h].ref = r] /\ UNCHANGED event
    BY <1>7 DEF DecideRepay
  <2> HIDE DEF r
  <2>2. task'[h].pc = AfterLedgerCheck(h, r) /\ task'[h].ref = r
    BY <2>1 DEF TypeOK, Task
  <2> QED BY <1>5, <2>1, <2>2
<1>8. CASE Replay(h)
  <2>1. /\ task[h].pc = "wallet" /\ UNCHANGED <<event, attempt, tx>>
        /\ InFlight(task[h].ref) /\ attempt[task[h].ref].bytes # None
    BY <1>8 DEF Replay, InFlight
  <2>2. /\ task'[h].pc = "wire" /\ task'[h].ref = task[h].ref
        /\ task'[h].tx = attempt[task[h].ref].bytes
    BY <1>8 DEF Replay, TypeOK, Task
  <2>3. attempt[task[h].ref].bytes \in Txs
    BY <2>1, PayingRef DEF TypeOK, AttemptRow, Paying
  <2>4. \A t \in Txs : Alive(t) /\ tx[t].ref = task[h].ref => t = attempt[task[h].ref].bytes
    BY <2>1 DEF Money, Named
  <2>5. \A e \in Events : event[e].ref # task[h].ref
    BY <1>1, <2>1 DEF PayerOK
  <2> QED BY <2>1, <2>2, <2>3, <2>4, <2>5 DEF PayerOK, InFlight, Alive
<1>9. CASE Claim(h)
  <2>1. task[h].pc = "wallet" /\ attempt[task[h].ref].status # "in_flight" /\ UNCHANGED event
    BY <1>9 DEF Claim
  <2>2. task'[h].pc = "prepare" /\ task'[h].ref = task[h].ref
    BY <1>9 DEF Claim, Goto, TypeOK, Task
  <2>3. attempt'[task[h].ref].status \in {"preparing", "settled"}
    BY <1>9, <2>1, PayingRef DEF Claim, TypeOK, AttemptRow, NoAttempt, Paying
  <2>4. \A e \in Events : event[e].ref # task[h].ref
    BY <1>1, <2>1 DEF PayerOK
  <2> QED BY <2>1, <2>2, <2>3, <2>4 DEF PayerOK
<1>10. ASSUME NEW t \in Txs, Arm(h, t) PROVE PayerOK(h)'
  <2>1. task[h].pc = "prepare" /\ UNCHANGED event
    BY <1>10 DEF Arm
  <2>2. task'[h].pc = "wire" /\ task'[h].ref = task[h].ref /\ task'[h].tx = t
    BY <1>10 DEF Arm, TypeOK, Task
  <2>3. /\ attempt[task[h].ref].status \in {"preparing", "settled"}
        /\ \A e \in Events : event[e].ref # task[h].ref
    BY <1>1, <2>1 DEF PayerOK
  <2>4. attempt'[task[h].ref].status = "in_flight"
    BY <1>10, <2>1, <2>3, PayingRef DEF Arm, TypeOK, AttemptRow, Paying
  <2>5. \A u \in Txs : Alive(u) => tx[u].ref # task[h].ref
    BY <2>3 DEF Money, Held, InFlight
  <2>6. \A u \in Txs : u # t => tx'[u] = tx[u]
    BY <1>10 DEF Arm, TypeOK
  <2>7. \A u \in Txs : Alive(u)' /\ tx'[u].ref = task[h].ref => u = t
    BY <2>5, <2>6 DEF Alive
  <2> QED BY <2>1, <2>2, <2>3, <2>4, <2>7 DEF PayerOK, InFlight
<1>11. ASSUME NEW e \in Events, WriteRow(h, e) PROVE PayerOK(h)'
  <2>1. task'[h].pc = "settle" /\ task'[h].ref = task[h].ref /\ cpu' = h
    BY <1>11 DEF WriteRow, Goto, TypeOK, Task
  <2>2. event'[e].ref = task[h].ref
    BY <1>11 DEF WriteRow, TypeOK
  <2> QED BY <2>1, <2>2 DEF PayerOK
<1> QED
  BY <1>2, <1>3, <1>4, <1>6, <1>7, <1>8, <1>9, <1>10, <1>11 DEF Advance

LEMMA PayerStep ==
  ASSUME TypeOK, Requests, OneAtATime, Rows, Money, Payer, Sweeping, Next
  PROVE  Payer'
<1> SUFFICES ASSUME NEW h \in Handlers PROVE PayerOK(h)'
  BY DEF Payer
<1>1. ASSUME NEW k \in Handlers, StartRequest(k) PROVE PayerOK(h)'
  <2>1. CASE h = k
    BY <1>1, <2>1, StartQueues, NotPaying DEF Paying
  <2>2. CASE h # k
    <3>1. task'[h] = task[h] /\ UNCHANGED <<attempt, event, tx, cpu>>
      BY <1>1, <2>2, StartQueues DEF db
    <3> QED BY <3>1, PayerKept, ChainUnchanged DEF Payer
  <2> QED BY <2>1, <2>2
<1>2. ASSUME NEW k \in Handlers, Advance(k) PROVE PayerOK(h)'
  <2>1. CASE h = k
    BY <1>2, <2>1, PayerAdvances
  <2>2. CASE h # k
    <3>1. Head(lock) = k /\ task'[h] = task[h]
      BY <1>2, <2>2, AdvanceMovesHead DEF HeadMoves
    <3>2. task[h].pc \in {"idle", "queued"}
      BY <2>2, <3>1, OnlyOne DEF Active
    <3> QED BY <3>1, <3>2, NotPaying DEF Paying
  <2> QED BY <2>1, <2>2
<1>3. CASE Background
  BY <1>3, PayerInBackground
<1>4. CASE Crash
  <2>1. task'[h] = Idle
    BY <1>4 DEF Crash
  <2> QED BY <2>1, NotPaying DEF Idle, Paying
<1> QED BY <1>1, <1>2, <1>3, <1>4, WhoMoves

-----------------------------------------------------------------------------
(* The sweep acts on what the chain said about a row still pending.        *)

\* A receipt read stays true while nobody writes the row it is about.
LEMMA ReceiptStands ==
  ASSUME TypeOK, Rows, Sweeping, Next, UNCHANGED sweep, ~ WritingOff,
         sweep.step # "idle" => event'[sweep.ev].status = event[sweep.ev].status
                                /\ event'[sweep.ev].hash = event[sweep.ev].hash,
         cpu' # "sweeper"
  PROVE  Sweeping'
<1>1. sweep.step \in {"executed", "rejected"} => tx'[event[sweep.ev].hash].state = sweep.step
  BY RowKeptByChain DEF Sweeping, Rows, RowOK, OnTheBooks
<1>2. ~ WritingOff'
  BY DEF WritingOff
<1>3. sweep.step # "idle" => sweep.ev \in Events
  BY DEF Sweeping
<1>4. sweep.step \in {"executed", "rejected", "unknown", "unavailable"} =>
        event'[sweep.ev].status = "pending"
  BY DEF Sweeping
<1>5. sweep.step \in {"executed", "rejected"} => tx'[event'[sweep.ev].hash].state = sweep.step
  BY <1>1
<1> QED BY <1>2, <1>3, <1>4, <1>5 DEF Sweeping

\* While a write-off is under way the rest of the process stands still, and the
\* chain has nothing of that work left to move.
LEMMA WriteOffUndisturbed ==
  ASSUME TypeOK, Requests, Rows, Money, Sweeping, ~ TornWriteOff, Next, WritingOff,
         ~ WriteOffKey, ~ WriteOffClaim
  PROVE  \E t \in Txs : Reach(t) \/ Include(t)
<1>1. cpu = "sweeper" /\ ~ Free
  BY NoneIsNotSweeper DEF Sweeping, Free
<1>2. \A h \in Handlers : task[h].pc = "settle" => ~ Runs(h, "settle")
  BY <1>1, ServerPayoutAssumption DEF Runs, ServerPayoutAssumption
<1>3. ASSUME NEW h \in Handlers PROVE ~ StartRequest(h) /\ ~ Advance(h)
  BY <1>1, <1>2, <1>3
  DEF StartRequest, StartApprove, StartDirect, StartRepay, Enqueue, Advance, TurnAway,
      ShareAlreadySet, Enter, Fundable, NotFundable, DecideApprove, DecideRepay, AlreadyDecided,
      Unresolved, Replay, Claim, Arm, PrepareFails, BroadcastFails, WriteRow, SettleAttempt, Runs,
      SettleSubject, MarkRepaid
<1>4. ~ Crash
  BY <1>1 DEF Crash
<1>5. ~ Confirm /\ ~ KeepWaiting /\ ~ WriteOffRow
  BY <1>1 DEF Confirm, KeepWaiting, WriteOffRow
<1> QED
  BY <1>1, <1>3, <1>4, <1>5
  DEF Next, StartSubmit, Submit, DirectReject, Reject, AskReceipt, ActOnReceipt

LEMMA SweepingStep ==
  ASSUME TypeOK, Requests, OneAtATime, Rows, Money, Payer, Sweeping, ~ TornWriteOff, Next
  PROVE  Sweeping'
<1> USE DEF db
<1>1. CASE WriteOffRow
  <2> DEFINE e == sweep.ev
  <2>1. e \in Events /\ event[e].status = "pending"
    BY <1>1 DEF WriteOffRow, Sweeping
  <2>2. event[e].ref = event[e].pays /\ event[e].pays \in Subjects
    BY <2>1 DEF Rows, RowOK, OnTheBooks
  <2>3. event'[e].status = "failed" /\ event'[e].pays = event[e].pays
    BY <1>1, <2>1 DEF WriteOffRow, TypeOK, EventRow
  <2>4. sweep'.ev = e /\ sweep'.step = "key" /\ sweep'.key = event[e].ref /\ cpu' = "sweeper"
    BY <1>1 DEF WriteOffRow, TypeOK, Sweep
  <2>5. UNCHANGED <<tx, task>> /\ Free
    BY <1>1 DEF WriteOffRow
  <2>6. \A t \in Txs : Alive(t)' => tx'[t].ref # event[e].ref
    BY <1>1, <2>5, MoneyWrittenOff DEF Alive
  <2>7. ASSUME NEW h \in Handlers, task[h].pc \in Paying PROVE task[h].ref # event[e].ref
    <3>1. task[h].pc # "settle"
      BY <2>5, ServerPayoutAssumption DEF Payer, PayerOK, Free, ServerPayoutAssumption
    <3> QED BY <2>1, <2>7, <3>1 DEF Payer, PayerOK, Paying
  <2> HIDE DEF e
  <2> QED BY <2>1, <2>2, <2>3, <2>4, <2>5, <2>6, <2>7 DEF Sweeping, WritingOff
<1>2. CASE WriteOffKey
  <2> DEFINE e == sweep.ev
  <2>1. WritingOff /\ e \in Events
    BY <1>2 DEF WriteOffKey, WritingOff, Sweeping
  <2>2. event'[e].status = event[e].status /\ event'[e].pays = event[e].pays
    BY <1>2, <2>1 DEF WriteOffKey, TypeOK, EventRow
  <2>3. sweep'.ev = e /\ sweep'.step = "claim" /\ sweep'.key = sweep.key
    BY <1>2 DEF WriteOffKey, TypeOK, Sweep
  <2>4. UNCHANGED <<tx, task, cpu>>
    BY <1>2 DEF WriteOffKey
  <2> HIDE DEF e
  <2> QED BY <2>1, <2>2, <2>3, <2>4 DEF Sweeping, WritingOff, Alive, e
<1>3. CASE WriteOffClaim \/ Confirm \/ KeepWaiting \/ Crash
  <2>1. sweep' = NoSweep /\ cpu' # "sweeper"
    BY <1>3, NoneIsNotSweeper DEF WriteOffClaim, Confirm, KeepWaiting, Crash, Sweeping, WritingOff
  <2> QED BY <2>1 DEF NoSweep, Sweeping, WritingOff
<1>4. ASSUME NEW e \in Events, AskReceipt(e) PROVE Sweeping'
  <2>1. PICK answer \in {Receipt(event[e].hash), "unavailable"} :
          sweep' = [ev |-> e, step |-> answer, key |-> None]
    BY <1>4 DEF AskReceipt
  <2>2. sweep'.ev = e /\ sweep'.step = answer /\ answer \in {Receipt(event[e].hash), "unavailable"}
    BY <2>1
  <2>3. event[e].status = "pending" /\ UNCHANGED <<event, tx, cpu>> /\ cpu # "sweeper"
    BY <1>4, NoneIsNotSweeper DEF AskReceipt, Free
  <2> QED BY <2>2, <2>3 DEF Sweeping, WritingOff, Receipt
<1>5. CASE WritingOff /\ ~ WriteOffKey /\ ~ WriteOffClaim
  <2>1. PICK t \in Txs : Reach(t) \/ Include(t)
    BY <1>5, WriteOffUndisturbed
  <2>2. ChainQuiet
    BY <2>1, ChainGoesOn
  <2>3. UNCHANGED <<event, task, sweep, cpu>>
    BY <2>1 DEF Reach, Include
  <2> QED BY <1>5, <2>2, <2>3 DEF Sweeping, WritingOff, ChainQuiet
<1>6. CASE ~ WritingOff /\ UNCHANGED sweep /\ cpu' # "sweeper"
  <2>1. ASSUME sweep.step # "idle"
        PROVE  event'[sweep.ev].status = event[sweep.ev].status
               /\ event'[sweep.ev].hash = event[sweep.ev].hash
    <3>1. sweep.ev \in Events /\ event[sweep.ev].status = "pending"
      BY <1>6, <2>1 DEF Sweeping, WritingOff, TypeOK, Sweep
    <3>2. ASSUME NEW h \in Handlers, NEW f \in Events, WriteRow(h, f)
          PROVE  event'[sweep.ev] = event[sweep.ev]
      BY <3>1, <3>2 DEF WriteRow, FreeEvents, TypeOK
    <3>3. ASSUME NEW h \in Handlers, MarkRepaid(h)
          PROVE  event'[sweep.ev].status = event[sweep.ev].status
                 /\ event'[sweep.ev].hash = event[sweep.ev].hash
      BY <3>1, <3>3 DEF MarkRepaid, TypeOK, EventRow
    <3>4. ~ Confirm /\ ~ WriteOffRow /\ ~ WriteOffKey
      BY <1>6, <2>1 DEF Confirm, WriteOffRow, WriteOffKey, NoSweep, WritingOff
    <3> QED BY <3>2, <3>3, <3>4, WhoWritesEvents
  <2> QED BY <1>6, <2>1, ReceiptStands
<1>7. ASSUME NEW h \in Handlers, SettleAttempt(h) \/ \E e \in Events : WriteRow(h, e)
      PROVE  UNCHANGED sweep /\ cpu' # "sweeper"
  BY <1>7, NoneIsNotSweeper, ServerPayoutAssumption DEF SettleAttempt, WriteRow, ServerPayoutAssumption
<1>8. UNCHANGED cpu /\ ~ WritingOff => cpu' # "sweeper"
  BY DEF Sweeping
<1> QED
  BY <1>1, <1>2, <1>3, <1>4, <1>5, <1>6, <1>7, <1>8, WhoSweeps DEF ActOnReceipt

-----------------------------------------------------------------------------
(* The invariant, and what it is for.                                      *)

LEMMA InvInit == Init => IInv
<1> SUFFICES ASSUME Init PROVE IInv
  OBVIOUS
<1>1. TypeOK
  BY TypeInit
<1>2. Requests /\ OneAtATime
  BY DEF Init, Requests, RequestOK, OneAtATime, Active, Idle
<1>3. Rows
  BY DEF Init, Rows, RowOK, OnTheBooks, NoApproval, NoEvent
<1>4. Money
  BY DEF Init, Money, Held, Single, Named, Alive, NoTx
<1>5. Payer
  BY DEF Init, Payer, PayerOK, Idle
<1>6. Sweeping
  BY NoneIsNotSweeper DEF Init, Sweeping, WritingOff, NoSweep
<1> QED BY <1>1, <1>2, <1>3, <1>4, <1>5, <1>6 DEF IInv

LEMMA InvStutters == IInv /\ UNCHANGED vars => IInv'
<1> SUFFICES ASSUME IInv, UNCHANGED vars PROVE IInv'
  OBVIOUS
<1> USE DEF vars, IInv
<1>1. TypeOK'
  BY DEF TypeOK
<1>2. Requests' /\ OneAtATime'
  BY DEF Requests, RequestOK, OneAtATime, Active
<1>3. Rows'
  BY DEF Rows, RowOK, OnTheBooks
<1>4. Money'
  BY DEF Money, Held, Single, Named, Alive, InFlight, OnTheBooks
<1>5. Payer'
  BY DEF Payer, PayerOK, Alive, InFlight
<1>6. Sweeping'
  BY DEF Sweeping, WritingOff, Alive
<1> QED BY <1>1, <1>2, <1>3, <1>4, <1>5, <1>6

LEMMA InvStep ==
  ASSUME ~ TornWriteOff
  PROVE  IInv /\ [Next]_vars => IInv'
<1>1. ASSUME IInv, Next PROVE IInv'
  BY <1>1, TypeStep, RequestsStep, OneAtATimeStep, RowsStep, MoneyStep, PayerStep, SweepingStep
  DEF IInv
<1> QED BY <1>1, InvStutters

\* The database, the chain, the lock's queue and every request in progress stay
\* as the invariant says, while a write-off is not torn by a crash.
THEOREM Invariant ==
  ASSUME ~ TornWriteOff
  PROVE  Spec => []IInv
  BY InvInit, InvStep, PTL DEF Spec

\* Every row, request and queue entry keeps its type.
THEOREM TypeCorrect ==
  ASSUME ~ TornWriteOff
  PROVE  Spec => []TypeOK
<1>1. IInv => TypeOK
  BY DEF IInv
<1> QED BY <1>1, Invariant, PTL

\* Of all the transactions ever built for one chore at most one can still move
\* money: approve, retry, crash, write-off and repay never pay it twice.
THEOREM NeverPaidTwice ==
  ASSUME ~ TornWriteOff
  PROVE  Spec => []AtMostOncePaid
<1>1. IInv => AtMostOncePaid
  BY DEF IInv, Money, Held, Single, AtMostOncePaid, AliveFor
<1> QED BY <1>1, Invariant, PTL

\* A transaction that moved money or may still move it stands behind a ledger
\* row or a claim in flight, where payoutMayHaveLanded sees it.
THEOREM MoneyIsTracked ==
  ASSUME ~ TornWriteOff
  PROVE  Spec => []NothingUntracked
<1>1. IInv => NothingUntracked
  BY DEF IInv, Money, Held, NothingUntracked, PayoutMayHaveLanded, RowsFor, InFlight
<1> QED BY <1>1, Invariant, PTL

\* One ledger row at most credits the kid for one chore, and only what the chain
\* refused was written off.
THEOREM LedgerCreditsOnce ==
  ASSUME ~ TornWriteOff
  PROVE  Spec => [](CreditedOnce /\ OnlyProvenFailuresWrittenOff)
<1>1. IInv => CreditedOnce
  BY ServerPayoutAssumption
  DEF IInv, Rows, RowOK, OnTheBooks, CreditedOnce, ServerPayoutAssumption
<1>2. IInv => OnlyProvenFailuresWrittenOff
  BY DEF IInv, Rows, RowOK, OnlyProvenFailuresWrittenOff
<1> QED BY <1>1, <1>2, Invariant, PTL

\* Neither reject route turns a chore down whose payment may still arrive.
THEOREM RejectedMeansUnpaid ==
  ASSUME ~ TornWriteOff
  PROVE  Spec => RejectNeverBesidePayment
<1> DEFINE Turned == \A s \in Subjects : chore[s] # "rejected" /\ chore'[s] = "rejected" => AliveFor(s) = {}
<1>1. ASSUME IInv, NEW s \in Subjects, ~ PayoutMayHaveLanded(s) PROVE AliveFor(s) = {}
  BY <1>1 DEF IInv, Money, Held, AliveFor, PayoutMayHaveLanded, RowsFor, InFlight
<1>2. ASSUME IInv, Next PROVE Turned
  <2> USE <1>2 DEF db
  <2>1. ASSUME NEW s \in Subjects, DirectReject(s) PROVE Turned
    BY <1>1, <2>1 DEF DirectReject, IInv, TypeOK
  <2>2. ASSUME NEW a \in Approvals, Reject(a) PROVE Turned
    BY <1>1, <2>2 DEF Reject, IInv, TypeOK
  <2>3. ASSUME NEW s \in Subjects, Submit(s) PROVE Turned
    BY <2>3 DEF Submit, IInv, TypeOK
  <2>4. ASSUME NEW h \in Handlers, SettleSubject(h) PROVE Turned
    BY <2>4 DEF SettleSubject, IInv, TypeOK
  <2>5. CASE UNCHANGED chore
    BY <2>5
  <2>6. Background => \/ UNCHANGED chore
                      \/ \E s \in Subjects : Submit(s) \/ DirectReject(s)
                      \/ \E a \in Approvals : Reject(a)
    BY DEF Background, StartSubmit, AskReceipt, ActOnReceipt, Confirm, KeepWaiting, WriteOffRow,
       WriteOffKey, WriteOffClaim, Reach, Include
  <2>7. ASSUME NEW h \in Handlers, Advance(h) PROVE UNCHANGED chore \/ SettleSubject(h)
    BY <2>7 DEF Advance, TurnAway, ShareAlreadySet, Enter, Fundable, NotFundable, DecideApprove,
       DecideRepay, AlreadyDecided, Unresolved, Throw, Replay, Claim, Arm, PrepareFails,
       BroadcastFails, WriteRow, SettleAttempt, MarkRepaid
  <2>8. ASSUME NEW h \in Handlers, StartRequest(h) PROVE UNCHANGED chore
    BY <2>8 DEF StartRequest, StartApprove, StartDirect, StartRepay, Enqueue
  <2>9. Crash => UNCHANGED chore
    BY DEF Crash
  <2> QED BY <2>1, <2>2, <2>3, <2>4, <2>5, <2>6, <2>7, <2>8, <2>9, WhoMoves
<1>3. IInv /\ [Next]_vars => [Turned]_vars
  BY <1>2
<1> QED BY <1>3, Invariant, PTL DEF Spec, RejectNeverBesidePayment

-----------------------------------------------------------------------------
(* The price a request carries.                                            *)

\* A card that is there stays there, and its share is written by the request it
\* was made for or by the one that puts it back in the queue.
LEMMA CardsStay ==
  ASSUME TypeOK, Next, NEW a \in Approvals, approval[a].status # "none"
  PROVE  /\ approval'[a].status # "none"
         /\ \/ approval'[a].share = approval[a].share
            \/ \E h \in Handlers : Advance(h)
<1> USE DEF db
<1>1. ASSUME NEW s \in Subjects, Submit(s)
      PROVE  approval'[a].status # "none" /\ approval'[a].share = approval[a].share
  BY <1>1 DEF Submit, OpenApproval, FreeApprovals, TypeOK, ApprovalRow
<1>2. ASSUME NEW s \in Subjects, DirectReject(s)
      PROVE  approval'[a].status # "none" /\ approval'[a].share = approval[a].share
  BY <1>2 DEF DirectReject, TypeOK, ApprovalRow
<1>3. ASSUME NEW b \in Approvals, Reject(b)
      PROVE  approval'[a].status # "none" /\ approval'[a].share = approval[a].share
  BY <1>3 DEF Reject, TypeOK, ApprovalRow
<1>4. ASSUME NEW h \in Handlers, Enter(h)
      PROVE  approval'[a].status # "none"
  BY <1>4 DEF Enter, TypeOK, ApprovalRow
<1>5. ASSUME NEW h \in Handlers, NEW b \in Approvals, DecideApprove(h, b)
      PROVE  approval'[a].status # "none" /\ approval'[a].share = approval[a].share
  <2>1. approval' = [approval EXCEPT ![b] = [@ EXCEPT !.status = "approved", !.of = task[h].pays]]
    BY <1>5 DEF DecideApprove
  <2> QED BY <2>1 DEF TypeOK, ApprovalRow
<1>6. ASSUME NEW h \in Handlers, Throw(h) PROVE approval'[a].status # "none"
  <2> DEFINE c == task[h].appr
  <2>1. \/ approval' = approval
        \/ approval' = [approval EXCEPT ![c].status = "pending", ![c].share = None]
    BY <1>6 DEF Throw, Reopened
  <2> HIDE DEF c
  <2> QED BY <2>1 DEF TypeOK, ApprovalRow
<1>7. Background => \/ UNCHANGED approval
                    \/ \E s \in Subjects : Submit(s) \/ DirectReject(s)
                    \/ \E b \in Approvals : Reject(b)
  BY DEF Background, StartSubmit, AskReceipt, ActOnReceipt, Confirm, KeepWaiting, WriteOffRow,
     WriteOffKey, WriteOffClaim, Reach, Include
<1>8. ASSUME NEW h \in Handlers, Advance(h)
      PROVE  UNCHANGED approval \/ Enter(h) \/ (\E b \in Approvals : DecideApprove(h, b)) \/ Throw(h)
  BY <1>8 DEF Advance, TurnAway, ShareAlreadySet, Fundable, NotFundable, DecideRepay, AlreadyDecided,
     Unresolved, Replay, Claim, Arm, PrepareFails, BroadcastFails, WriteRow, SettleAttempt,
     SettleSubject, MarkRepaid
<1>9. Crash => UNCHANGED approval
  BY DEF Crash
<1> QED
  BY <1>1, <1>2, <1>3, <1>4, <1>5, <1>6, <1>7, <1>8, <1>9, WhoMoves, StartWritesNothing

\* A request queued for a card finds the card, one past the queue keeps the
\* price it read when it entered.
LEMMA CardsAdvance ==
  ASSUME TypeOK, Requests, OneAtATime, Next, NEW h \in Handlers, CardKnown(h), Priced(h), Advance(h)
  PROVE  CardKnown(h)' /\ Priced(h)'
<1> USE DEF db
<1>1. CASE task'[h].pc = "idle"
  BY <1>1 DEF CardKnown, Priced, Active
<1>2. ASSUME task[h].pc # "idle", task'[h].act = task[h].act, task'[h].appr = task[h].appr,
             task'[h].pays = task[h].pays, task'[h].value = task[h].value, Active(h),
             task[h].act = "approve" => approval'[task[h].appr].share = approval[task[h].appr].share
      PROVE  CardKnown(h)' /\ Priced(h)'
  <2>1. CASE task[h].act = "approve"
    <3>1. task[h].appr \in Approvals /\ approval[task[h].appr].status # "none"
      BY <1>2, <2>1 DEF Requests, RequestOK, CardKnown
    <3>2. approval'[task[h].appr].status # "none"
      BY <3>1, CardsStay
    <3> QED BY <1>2, <3>2 DEF CardKnown, Priced
  <2>2. CASE task[h].act # "approve"
    BY <1>2, <2>2 DEF CardKnown, Priced
  <2> QED BY <2>1, <2>2
<1>3. CASE Enter(h)
  <2>1. PICK bps \in ShareBps \cup {None} :
          /\ approval' = IF bps = None THEN approval
                         ELSE [approval EXCEPT ![task[h].appr].share = bps]
          /\ task' = [task EXCEPT
               ![h].pc = NextAfterPrice(h, Price(h, IF task[h].act = "approve"
                                                    THEN approval'[task[h].appr].share ELSE None)),
               ![h].value = Price(h, IF task[h].act = "approve"
                                     THEN approval'[task[h].appr].share ELSE None)]
    BY <1>3 DEF Enter
  <2>2. /\ task'[h].act = task[h].act /\ task'[h].appr = task[h].appr /\ task'[h].pays = task[h].pays
        /\ task'[h].value = Price(h, IF task[h].act = "approve"
                                     THEN approval'[task[h].appr].share ELSE None)
    BY <2>1 DEF TypeOK, Task
  <2>3. task[h].pc = "queued"
    BY <1>3 DEF Enter
  <2>4. CASE task[h].act = "approve"
    <3>1. task[h].appr \in Approvals /\ approval[task[h].appr].status # "none"
      BY <2>3, <2>4 DEF Requests, RequestOK, CardKnown
    <3>2. approval'[task[h].appr].status # "none"
      BY <3>1, CardsStay
    <3> QED BY <2>2, <2>4, <3>2 DEF CardKnown, Priced, Price
  <2>5. CASE task[h].act # "approve"
    BY <2>2, <2>5 DEF CardKnown, Priced
  <2> QED BY <2>4, <2>5
<1>4. ASSUME NEW a \in Approvals, DecideApprove(h, a) PROVE CardKnown(h)' /\ Priced(h)'
  <2>1. /\ task'[h].act = task[h].act /\ task'[h].appr = a /\ task'[h].pays = task[h].pays
        /\ task'[h].value = task[h].value /\ task[h].pc = "decide"
    BY <1>4 DEF DecideApprove, TypeOK, Task
  <2>2. approval' = [approval EXCEPT ![a] = [@ EXCEPT !.status = "approved", !.of = task[h].pays]]
    BY <1>4 DEF DecideApprove
  <2>3. approval'[a].status = "approved" /\ approval'[a].share = approval[a].share
    BY <2>2 DEF TypeOK, ApprovalRow
  <2>4. task[h].act = "approve" => a = task[h].appr
    BY <1>4 DEF DecideApprove
  <2> QED BY <2>1, <2>3, <2>4 DEF CardKnown, Priced, Active
<1>5. CASE \/ Fundable(h) \/ Claim(h) \/ SettleAttempt(h) \/ Replay(h) \/ DecideRepay(h)
           \/ (\E t \in Txs : Arm(h, t)) \/ \E e \in Events : WriteRow(h, e)
  <2>1. Active(h) /\ task[h].pc # "idle" /\ UNCHANGED approval
    BY <1>5 DEF Fundable, Claim, SettleAttempt, Runs, Replay, DecideRepay, Arm, WriteRow, Active
  <2>2. ASSUME NEW p, Goto(h, p)
        PROVE  /\ task'[h].act = task[h].act /\ task'[h].appr = task[h].appr
               /\ task'[h].pays = task[h].pays /\ task'[h].value = task[h].value
    BY <2>2 DEF Goto, TypeOK, Task
  <2>3. ASSUME Fundable(h) \/ Claim(h) \/ SettleAttempt(h) \/ \E e \in Events : WriteRow(h, e)
        PROVE  \E p : Goto(h, p)
    BY <2>3 DEF Fundable, Claim, SettleAttempt, WriteRow
  <2>4. ASSUME NEW p, NEW t, task' = [task EXCEPT ![h].pc = p, ![h].tx = t]
        PROVE  /\ task'[h].act = task[h].act /\ task'[h].appr = task[h].appr
               /\ task'[h].pays = task[h].pays /\ task'[h].value = task[h].value
    BY <2>4 DEF TypeOK, Task
  <2>5. ASSUME NEW p, NEW r, task' = [task EXCEPT ![h].pc = p, ![h].ref = r]
        PROVE  /\ task'[h].act = task[h].act /\ task'[h].appr = task[h].appr
               /\ task'[h].pays = task[h].pays /\ task'[h].value = task[h].value
    BY <2>5 DEF TypeOK, Task
  <2>6. ASSUME Replay(h) \/ \E t \in Txs : Arm(h, t)
        PROVE  \E p, t : task' = [task EXCEPT ![h].pc = p, ![h].tx = t]
    BY <2>6 DEF Replay, Arm
  <2>7. ASSUME DecideRepay(h)
        PROVE  \E p, r : task' = [task EXCEPT ![h].pc = p, ![h].ref = r]
    BY <2>7 DEF DecideRepay
  <2> QED BY <1>2, <1>5, <2>1, <2>2, <2>3, <2>4, <2>5, <2>6, <2>7
<1>6. ASSUME Leave(h) PROVE task'[h].pc = "idle"
  BY <1>6 DEF Leave, TypeOK, Idle
<1>7. CASE \/ TurnAway(h) \/ ShareAlreadySet(h) \/ NotFundable(h) \/ AlreadyDecided(h)
           \/ Unresolved(h) \/ PrepareFails(h) \/ BroadcastFails(h) \/ SettleSubject(h) \/ MarkRepaid(h)
  BY <1>1, <1>6, <1>7 DEF TurnAway, ShareAlreadySet, NotFundable, AlreadyDecided, Unresolved,
     PrepareFails, BroadcastFails, Throw, SettleSubject, MarkRepaid
<1> QED BY <1>3, <1>4, <1>5, <1>7 DEF Advance

\* Every card and every price stays as it should be, whoever moves.
LEMMA CardsStep ==
  ASSUME TypeOK, Requests, OneAtATime, Rows, Cards, Next
  PROVE  Cards'
<1> SUFFICES ASSUME NEW h \in Handlers PROVE CardKnown(h)' /\ Priced(h)'
  BY DEF Cards
<1> USE DEF db
<1>1. CardKnown(h) /\ Priced(h)
  BY DEF Cards
<1>2. ASSUME Advance(h) PROVE CardKnown(h)' /\ Priced(h)'
  BY <1>1, <1>2, CardsAdvance
<1>3. ASSUME task'[h] = task[h], ~ Active(h) \/ \A k \in Handlers : ~ Advance(k)
      PROVE  CardKnown(h)' /\ Priced(h)'
  <2>1. CASE task[h].pc # "idle" /\ task[h].act = "approve"
    <3>1. task[h].appr \in Approvals /\ approval[task[h].appr].status # "none"
      BY <1>1, <2>1 DEF Requests, RequestOK, CardKnown
    <3> QED BY <1>1, <1>3, <3>1, CardsStay DEF CardKnown, Priced, Active
  <2>2. CASE ~ (task[h].pc # "idle" /\ task[h].act = "approve")
    BY <1>3, <2>2 DEF CardKnown, Priced, Active
  <2> QED BY <2>1, <2>2
<1>4. ASSUME NEW k \in Handlers, StartRequest(k) PROVE CardKnown(h)' /\ Priced(h)'
  <2>1. UNCHANGED approval
    BY <1>4, StartWritesNothing
  <2>2. CASE h # k
    <3>1. task'[h] = task[h]
      BY <1>4, <2>2, StartQueues
    <3> QED BY <1>1, <2>1, <3>1 DEF CardKnown, Priced, Active
  <2>3. CASE h = k
    <3>1. task'[h].pc = "queued"
      BY <1>4, <2>3, StartQueues
    <3>2. ASSUME NEW a \in Approvals, StartApprove(h, a) PROVE approval[task'[h].appr].status # "none"
      <4>1. task'[h].appr = a
        BY <3>2 DEF StartApprove, Enqueue, TypeOK, Idle
      <4> QED BY <3>2, <4>1 DEF StartApprove
    <3>3. ASSUME NEW s \in Subjects, StartDirect(h, s) PROVE task'[h].act = "direct"
      BY <3>3 DEF StartDirect, Enqueue, TypeOK, Idle
    <3>4. ASSUME NEW e \in Events, StartRepay(h, e) PROVE task'[h].act = "repay"
      BY <3>4 DEF StartRepay, Enqueue, TypeOK, Idle
    <3> QED BY <1>4, <2>1, <2>3, <3>1, <3>2, <3>3, <3>4 DEF StartRequest, CardKnown, Priced, Active
  <2> QED BY <2>2, <2>3
<1>5. ASSUME NEW k \in Handlers, k # h, Advance(k) PROVE CardKnown(h)' /\ Priced(h)'
  <2>1. Head(lock) = k /\ task'[h] = task[h]
    BY <1>5, AdvanceMovesHead DEF HeadMoves
  <2>2. ~ Active(h)
    BY <1>5, <2>1, OnlyOne
  <2> QED BY <1>3, <2>1, <2>2
<1>6. CASE Background /\ \A k \in Handlers : ~ Advance(k)
  BY <1>3, <1>6, BackgroundLeavesRequests
<1>7. CASE Crash
  BY <1>7 DEF Crash, CardKnown, Priced, Active, Idle
<1> QED BY <1>2, <1>4, <1>5, <1>6, <1>7, WhoMoves

\* What an approval signs anew is at its card's price, whole or shared.
THEOREM NewMoneyIsAtTheCardsPrice ==
  ASSUME ~ TornWriteOff
  PROVE  Spec => SignedAtTheCardsPrice
<1> DEFINE Signed == \A h \in Handlers, t \in Txs :
       /\ task[h].act = "approve" /\ task[h].pc = "prepare"
       /\ tx[t].state = "none" /\ tx'[t].state # "none"
       => tx'[t].value = ApplyShare(Full[task[h].pays], approval[task[h].appr].share)
<1>1. Init => Cards
  BY DEF Init, Cards, CardKnown, Priced, Active, Idle
<1>2. IInv /\ Cards /\ [Next]_vars => Cards'
  <2>1. ASSUME IInv, Cards, Next PROVE Cards'
    BY <2>1, CardsStep DEF IInv
  <2>2. ASSUME Cards, UNCHANGED vars PROVE Cards'
    BY <2>2 DEF Cards, CardKnown, Priced, Active, vars
  <2> QED BY <2>1, <2>2
<1>3. IInv /\ Cards /\ Next => Signed
  <2> SUFFICES ASSUME IInv, Cards, Next, NEW h \in Handlers, NEW t \in Txs,
                      task[h].act = "approve", task[h].pc = "prepare",
                      tx[t].state = "none", tx'[t].state # "none"
               PROVE  tx'[t].value = ApplyShare(Full[task[h].pays], approval[task[h].appr].share)
    OBVIOUS
  <2>1. PICK k \in Handlers, u \in Txs : Arm(k, u)
    <3>1. ASSUME NEW u \in Txs, Reach(u) \/ Include(u) PROVE tx'[t].state = "none"
      BY <3>1 DEF Reach, Include, IInv, TypeOK, Transaction
    <3> QED BY <3>1, WhoWritesTxs
  <2>2. k = h
    <3>1. Active(k) /\ Active(h)
      BY <2>1 DEF Arm, Active
    <3> QED BY <3>1 DEF IInv, OneAtATime
  <2>3. tx'[t].value = task[h].value
    BY <2>1, <2>2 DEF Arm, IInv, TypeOK, Transaction
  <2> QED BY <2>3 DEF Cards, Priced, Active
<1>4. IInv /\ Cards /\ [Next]_vars => [Signed]_vars
  BY <1>3
<1> HIDE DEF Signed
<1>5. Spec => [][Signed]_vars
  BY <1>1, <1>2, <1>4, Invariant, PTL DEF Spec
<1> QED BY <1>5 DEF Signed, SignedAtTheCardsPrice

-----------------------------------------------------------------------------
(* ServerPayout implements PayOnce: every step of the payout machinery is  *)
(* a step of the promise it makes about each piece of work, or none.       *)
(* First, the transaction each piece of work currently has.                *)

\* A step that builds nothing and writes nothing off.
CurKept ==
  \A t \in Txs : /\ Cur(t)' <=> Cur(t)
                 /\ tx'[t].ref = tx[t].ref /\ tx'[t].pays = tx[t].pays

FailedKept ==
  \A e \in Events : /\ event'[e].status = "failed" <=> event[e].status = "failed"
                    /\ event[e].status = "failed" => event'[e].hash = event[e].hash

\* The chain moves a transaction on, and never back to where none was built.
LEMMA ChainKeepsCur ==
  ASSUME TypeOK, FailedKept, UNCHANGED tx \/ \E t \in Txs : Reach(t) \/ Include(t)
  PROVE  CurKept
<1>1. \A t \in Txs : WrittenOff(t)' <=> WrittenOff(t)
  BY DEF FailedKept, WrittenOff
<1>2. \A t \in Txs : /\ tx'[t].state # "none" <=> tx[t].state # "none"
                     /\ tx'[t].ref = tx[t].ref /\ tx'[t].pays = tx[t].pays
  <2>1. ASSUME NEW u \in Txs, Reach(u)
        PROVE  \A t \in Txs : /\ tx'[t].state # "none" <=> tx[t].state # "none"
                              /\ tx'[t].ref = tx[t].ref /\ tx'[t].pays = tx[t].pays
    BY <2>1 DEF Reach, TypeOK, Transaction
  <2>2. ASSUME NEW u \in Txs, Include(u)
        PROVE  \A t \in Txs : /\ tx'[t].state # "none" <=> tx[t].state # "none"
                              /\ tx'[t].ref = tx[t].ref /\ tx'[t].pays = tx[t].pays
    <3>1. PICK outcome \in {"executed", "rejected"} : tx' = [tx EXCEPT ![u].state = outcome]
      BY <2>2 DEF Include
    <3>2. tx[u].state = "pool"
      BY <2>2 DEF Include
    <3> QED BY <3>1, <3>2 DEF TypeOK, Transaction
  <2> QED BY <2>1, <2>2
<1> QED BY <1>1, <1>2 DEF CurKept, Cur

\* A step builds one transaction, writes one off, or does neither.
LEMMA CurMoves ==
  ASSUME TypeOK, Sweeping, Next
  PROVE  \/ CurKept
         \/ \E h \in Handlers, t \in Txs : Arm(h, t)
         \/ WriteOffRow
<1>1. UNCHANGED event => FailedKept
  BY DEF FailedKept
<1>2. ASSUME NEW h \in Handlers, NEW f \in Events, WriteRow(h, f) PROVE FailedKept
  BY <1>2 DEF WriteRow, FreeEvents, TypeOK, FailedKept
<1>3. ASSUME NEW h \in Handlers, MarkRepaid(h) PROVE FailedKept
  BY <1>3 DEF MarkRepaid, TypeOK, EventRow, FailedKept
<1>4. Confirm => FailedKept
  BY DEF Confirm, Sweeping, TypeOK, EventRow, FailedKept
<1>5. WriteOffKey => FailedKept
  BY DEF WriteOffKey, TypeOK, EventRow, FailedKept
<1>6. FailedKept \/ WriteOffRow
  BY <1>1, <1>2, <1>3, <1>4, <1>5, WhoWritesEvents
<1> QED BY <1>6, ChainKeepsCur, WhoWritesTxs

\* Building one: the work had none, and nothing else changes.
LEMMA CurArmed ==
  ASSUME IInv, Backed, NEW h \in Handlers, NEW t \in Txs, Arm(h, t)
  PROVE  /\ Cur(t)' /\ ~ Cur(t)
         /\ tx'[t].ref = task[h].ref /\ tx'[t].pays = task[h].ref /\ task[h].ref \in Subjects
         /\ \A u \in Txs : Cur(u) => tx[u].ref # task[h].ref
         /\ \A u \in Txs : u # t => tx'[u] = tx[u] /\ (Cur(u)' <=> Cur(u))
<1> USE DEF IInv
<1>1. task[h].pc = "prepare" /\ tx[t].state = "none" /\ UNCHANGED event
  BY DEF Arm, FreeTxs
<1>2. task[h].ref \in Subjects /\ task[h].pays = task[h].ref
  BY <1>1, PayingRef DEF Paying
<1>3. attempt[task[h].ref].status \in {"preparing", "settled"} /\ \A e \in Events : event[e].ref # task[h].ref
  BY <1>1 DEF Payer, PayerOK
<1>4. tx'[t].state = "held" /\ tx'[t].ref = task[h].ref /\ tx'[t].pays = task[h].ref
  BY <1>2 DEF Arm, TypeOK
<1>5. \A u \in Txs : u # t => tx'[u] = tx[u]
  BY DEF Arm, TypeOK
<1>6. ~ WrittenOff(t)
  BY <1>1 DEF WrittenOff, Rows, RowOK
<1>7. \A u \in Txs : WrittenOff(u)' <=> WrittenOff(u)
  BY <1>1 DEF WrittenOff
<1>8. \A u \in Txs : Cur(u) => tx[u].ref # task[h].ref
  BY <1>3 DEF Backed, InFlight
<1> QED BY <1>1, <1>2, <1>4, <1>5, <1>6, <1>7, <1>8 DEF Cur

\* Writing one off: it is the one its work had, and the only one to go.
LEMMA CurWrittenOff ==
  ASSUME IInv, Lone, RowsNameCur, WriteOffRow
  PROVE  /\ UNCHANGED <<attempt, tx, task>>
         /\ sweep.ev \in Events /\ event[sweep.ev].status = "pending"
         /\ event[sweep.ev].hash \in Txs
         /\ tx[event[sweep.ev].hash].ref = event[sweep.ev].ref
         /\ tx[event[sweep.ev].hash].state = "rejected"
         /\ sweep'.step = "key" /\ sweep'.key = event[sweep.ev].ref /\ ~ WritingOff
         /\ \A e \in Events : e # sweep.ev => event'[e] = event[e]
         /\ event'[sweep.ev].status = "failed" /\ event'[sweep.ev].pays = event[sweep.ev].pays
         /\ \A t \in Txs : Cur(t)' <=> Cur(t) /\ t # event[sweep.ev].hash
         /\ \A t \in Txs : Cur(t)' => tx[t].ref # event[sweep.ev].ref
<1> USE DEF IInv
<1> DEFINE e == sweep.ev
<1>1. UNCHANGED <<attempt, tx, task>> /\ sweep.step = "rejected"
  BY DEF WriteOffRow
<1>2. e \in Events /\ event[e].status = "pending" /\ tx[event[e].hash].state = "rejected"
  BY <1>1 DEF Sweeping
<1>3. event[e].hash \in Txs /\ Cur(event[e].hash) /\ tx[event[e].hash].ref = event[e].ref
  BY <1>2 DEF Rows, RowOK, OnTheBooks, RowsNameCur
<1>4. sweep'.step = "key" /\ sweep'.key = event[e].ref /\ ~ WritingOff
  BY <1>1 DEF WriteOffRow, WritingOff, TypeOK, Sweep
<1>5. /\ event'[e].status = "failed" /\ event'[e].pays = event[e].pays
      /\ event'[e].hash = event[e].hash
      /\ \A f \in Events : f # e => event'[f] = event[f]
  BY <1>2 DEF WriteOffRow, TypeOK, EventRow
<1> HIDE DEF e
<1>6. \A t \in Txs : WrittenOff(t)' <=> WrittenOff(t) \/ t = event[e].hash
  BY <1>2, <1>5 DEF WrittenOff
<1>7. \A t \in Txs : Cur(t)' <=> Cur(t) /\ t # event[e].hash
  BY <1>1, <1>6 DEF Cur
<1>8. \A t \in Txs : Cur(t)' => tx[t].ref # event[e].ref
  BY <1>3, <1>7 DEF Lone
<1> QED BY <1>1, <1>2, <1>3, <1>4, <1>5, <1>7, <1>8 DEF e

-----------------------------------------------------------------------------
(* What a step leaves of rows, claims and broadcasts.                      *)

\* A piece of work keeps at most one transaction that is built and not written off.
LEMMA LoneStep ==
  ASSUME IInv, Backed, Lone, RowsNameCur, Next
  PROVE  Lone'
<1>1. CASE CurKept
  BY <1>1 DEF Lone, CurKept
<1>2. ASSUME NEW h \in Handlers, NEW t \in Txs, Arm(h, t) PROVE Lone'
  <2> DEFINE r == task[h].ref
  <2>1. /\ tx'[t].ref = r
        /\ \A u \in Txs : Cur(u) => tx[u].ref # r
        /\ \A u \in Txs : u # t => tx'[u] = tx[u] /\ (Cur(u)' <=> Cur(u))
    BY <1>2, CurArmed
  <2> HIDE DEF r
  <2> QED BY <2>1 DEF Lone
<1>3. CASE WriteOffRow
  BY <1>3, CurWrittenOff DEF Lone
<1> QED BY <1>1, <1>2, <1>3, CurMoves DEF IInv

\* A row on the books names the transaction its work currently has.
LEMMA RowsNameCurStep ==
  ASSUME IInv, Backed, Lone, RowsNameCur, PayersNameCur, Next
  PROVE  RowsNameCur'
<1> USE DEF IInv
<1>1. CASE WriteOffRow
  <2>1. \A f \in Events : OnTheBooks(f)' =>
          f # sweep.ev /\ event'[f] = event[f] /\ OnTheBooks(f) /\ event[f].hash # event[sweep.ev].hash
    <3> SUFFICES ASSUME NEW f \in Events, OnTheBooks(f)'
                 PROVE  f # sweep.ev /\ event'[f] = event[f] /\ OnTheBooks(f)
                        /\ event[f].hash # event[sweep.ev].hash
      OBVIOUS
    <3>1. f # sweep.ev /\ event'[f] = event[f] /\ OnTheBooks(f)
      BY <1>1, CurWrittenOff DEF OnTheBooks
    <3>2. event[f].ref # event[sweep.ev].ref
      BY <1>1, <3>1, CurWrittenOff, ServerPayoutAssumption
      DEF Rows, RowOK, OnTheBooks, ServerPayoutAssumption
    <3> QED BY <1>1, <3>1, <3>2, CurWrittenOff DEF RowsNameCur
  <2>2. \A f \in Events : OnTheBooks(f) => event[f].hash \in Txs
    BY DEF Rows, RowOK
  <2> QED BY <1>1, <2>1, <2>2, CurWrittenOff DEF RowsNameCur
<1>2. ASSUME NEW h \in Handlers, NEW t \in Txs, Arm(h, t) PROVE RowsNameCur'
  <2>1. UNCHANGED event
    BY <1>2 DEF Arm
  <2>2. \A f \in Events : OnTheBooks(f) => event[f].hash \in Txs /\ event[f].hash # t
    BY <1>2, CurArmed DEF Rows, RowOK, RowsNameCur
  <2>3. \A u \in Txs : u # t => tx'[u] = tx[u] /\ (Cur(u)' <=> Cur(u))
    BY <1>2, CurArmed
  <2> QED BY <2>1, <2>2, <2>3 DEF RowsNameCur, OnTheBooks
<1>3. ASSUME CurKept, NEW h \in Handlers, NEW f \in Events, WriteRow(h, f) PROVE RowsNameCur'
  <2>1. /\ event'[f].ref = task[h].ref /\ event'[f].hash = task[h].tx
        /\ \A e \in Events : e # f => event'[e] = event[e]
    BY <1>3 DEF WriteRow, TypeOK
  <2>2. task[h].tx \in Txs /\ Cur(task[h].tx) /\ tx[task[h].tx].ref = task[h].ref
    BY <1>3 DEF WriteRow, PayersNameCur, Payer, PayerOK
  <2>3. \A e \in Events : OnTheBooks(e) => event[e].hash \in Txs
    BY DEF Rows, RowOK
  <2> QED BY <1>3, <2>1, <2>2, <2>3 DEF RowsNameCur, CurKept, OnTheBooks
<1>4. ASSUME CurKept, \A e \in Events : /\ OnTheBooks(e)' => OnTheBooks(e)
                                        /\ event'[e].ref = event[e].ref /\ event'[e].hash = event[e].hash
      PROVE  RowsNameCur'
  <2>1. \A e \in Events : OnTheBooks(e) => event[e].hash \in Txs
    BY DEF Rows, RowOK
  <2> QED BY <1>4, <2>1 DEF RowsNameCur, CurKept
<1>5. ASSUME NEW h \in Handlers, MarkRepaid(h)
      PROVE  \A e \in Events : /\ OnTheBooks(e)' => OnTheBooks(e)
                               /\ event'[e].ref = event[e].ref /\ event'[e].hash = event[e].hash
  BY <1>5 DEF MarkRepaid, OnTheBooks, TypeOK, EventRow
<1>6. ASSUME Confirm
      PROVE  \A e \in Events : /\ OnTheBooks(e)' => OnTheBooks(e)
                               /\ event'[e].ref = event[e].ref /\ event'[e].hash = event[e].hash
  BY <1>6 DEF Confirm, OnTheBooks, TypeOK, EventRow, Sweeping
<1>7. ASSUME WriteOffKey
      PROVE  \A e \in Events : /\ OnTheBooks(e)' => OnTheBooks(e)
                               /\ event'[e].ref = event[e].ref /\ event'[e].hash = event[e].hash
  BY <1>7 DEF WriteOffKey, OnTheBooks, TypeOK, EventRow
<1>8. ASSUME UNCHANGED event
      PROVE  \A e \in Events : /\ OnTheBooks(e)' => OnTheBooks(e)
                               /\ event'[e].ref = event[e].ref /\ event'[e].hash = event[e].hash
  BY <1>8 DEF OnTheBooks
<1> QED
  BY <1>1, <1>2, <1>3, <1>4, <1>5, <1>6, <1>7, <1>8, CurMoves, WhoWritesEvents

\* A claim is in flight or not, and names what it names, except where a
\* transaction is built, a row settles it or a write-off drops it.
LEMMA ClaimsMove ==
  ASSUME TypeOK, Next
  PROVE  \/ \A r \in Refs : /\ InFlight(r)' <=> InFlight(r)
                            /\ InFlight(r) => attempt'[r].bytes = attempt[r].bytes
         \/ \E h \in Handlers, t \in Txs : Arm(h, t)
         \/ \E h \in Handlers : SettleAttempt(h)
         \/ WriteOffClaim
<1> DEFINE Same == \A r \in Refs : /\ InFlight(r)' <=> InFlight(r)
                                   /\ InFlight(r) => attempt'[r].bytes = attempt[r].bytes
<1>1. UNCHANGED attempt => Same
  BY DEF InFlight
<1>2. ASSUME NEW h \in Handlers, Claim(h) PROVE Same
  BY <1>2 DEF Claim, InFlight, NoAttempt, TypeOK, AttemptRow
<1>3. ASSUME NEW h \in Handlers, PrepareFails(h) PROVE Same
  BY <1>3 DEF PrepareFails, InFlight, NoAttempt, TypeOK, AttemptRow
<1> HIDE DEF Same
<1>4. Same \/ (\E h \in Handlers, t \in Txs : Arm(h, t)) \/ (\E h \in Handlers : SettleAttempt(h))
           \/ WriteOffClaim
  BY <1>1, <1>2, <1>3, WhoWritesAttempts
<1> QED BY <1>4 DEF Same

\* A request comes to the wire by building a transaction or by taking one over.
LEMMA WhoWires ==
  ASSUME TypeOK, OneAtATime, Next, NEW h \in Handlers, task'[h].pc = "wire"
  PROVE  task'[h] = task[h] \/ Replay(h) \/ \E t \in Txs : Arm(h, t)
<1> USE DEF db
<1>1. ASSUME NEW k \in Handlers, StartRequest(k) PROVE task'[h] = task[h]
  BY <1>1, StartQueues
<1>2. ASSUME NEW k \in Handlers, k # h, Advance(k) PROVE task'[h] = task[h]
  BY <1>2, AdvanceMovesHead DEF HeadMoves
<1>3. CASE Advance(h)
  <2>1. ASSUME Leave(h) PROVE FALSE
    BY <2>1 DEF Leave, Idle, TypeOK
  <2>2. ASSUME NEW p, Goto(h, p) PROVE p = "wire"
    BY <2>2 DEF Goto, TypeOK, Task
  <2>3. ~ TurnAway(h) /\ ~ ShareAlreadySet(h) /\ ~ NotFundable(h) /\ ~ AlreadyDecided(h)
    BY <2>1 DEF TurnAway, ShareAlreadySet, NotFundable, AlreadyDecided
  <2>4. ~ Unresolved(h) /\ ~ PrepareFails(h) /\ ~ BroadcastFails(h) /\ ~ SettleSubject(h) /\ ~ MarkRepaid(h)
    BY <2>1 DEF Unresolved, PrepareFails, BroadcastFails, Throw, SettleSubject, MarkRepaid
  <2>5. ~ Fundable(h) /\ ~ Claim(h) /\ (\A e \in Events : ~ WriteRow(h, e)) /\ ~ SettleAttempt(h)
    BY <2>2 DEF Fundable, Claim, WriteRow, SettleAttempt
  <2>6. ~ Enter(h)
    BY DEF Enter, NextAfterPrice, TypeOK, Task
  <2>7. \A a \in Approvals : ~ DecideApprove(h, a)
    BY DEF DecideApprove, AfterLedgerCheck, TypeOK, Task
  <2>8. ~ DecideRepay(h)
    BY DEF DecideRepay, AfterLedgerCheck, TypeOK, Task
  <2> QED BY <1>3, <2>3, <2>4, <2>5, <2>6, <2>7, <2>8 DEF Advance
<1>4. CASE Background
  BY <1>4, BackgroundLeavesRequests
<1>5. CASE Crash
  BY <1>5 DEF Crash, Idle
<1> QED BY <1>1, <1>2, <1>3, <1>4, <1>5, WhoMoves

\* A row takes a key when it is written and gives it up when it is written off.
LEMMA RefsMove ==
  ASSUME TypeOK, Next
  PROVE  \/ \A e \in Events : event'[e].ref = event[e].ref
         \/ \E h \in Handlers, f \in Events :
              WriteRow(h, f) /\ \A e \in Events : e # f => event'[e].ref = event[e].ref
         \/ WriteOffRow
<1>1. ASSUME NEW h \in Handlers, NEW f \in Events, WriteRow(h, f)
      PROVE  \A e \in Events : e # f => event'[e].ref = event[e].ref
  BY <1>1 DEF WriteRow, TypeOK
<1>2. ASSUME NEW h \in Handlers, MarkRepaid(h) PROVE \A e \in Events : event'[e].ref = event[e].ref
  BY <1>2 DEF MarkRepaid, TypeOK, EventRow
<1>3. Confirm => \A e \in Events : event'[e].ref = event[e].ref
  BY DEF Confirm, TypeOK, EventRow
<1>4. WriteOffKey => \A e \in Events : event'[e].ref = event[e].ref
  BY DEF WriteOffKey, TypeOK, EventRow
<1> QED BY <1>1, <1>2, <1>3, <1>4, WhoWritesEvents

\* A write-off under way is finished, or waits for the chain alone.
LEMMA WritingOffMoves ==
  ASSUME IInv, ~ TornWriteOff, Next, WritingOff, ~ WriteOffClaim
  PROVE  WritingOff' /\ sweep'.key = sweep.key /\ UNCHANGED <<attempt, task>>
         /\ UNCHANGED cpu
<1> USE DEF IInv
<1>1. CASE WriteOffKey
  BY <1>1 DEF WriteOffKey, WritingOff, TypeOK, Sweep
<1>2. CASE ~ WriteOffKey
  <2>1. PICK t \in Txs : Reach(t) \/ Include(t)
    BY <1>2, WriteOffUndisturbed
  <2> QED BY <2>1 DEF Reach, Include, db, WritingOff
<1> QED BY <1>1, <1>2

-----------------------------------------------------------------------------
(* The strengthening is inductive.                                         *)

\* Such a transaction stays behind a row or a claim in flight.
LEMMA BackedStep ==
  ASSUME IInv, Backed, Lone, RowsNameCur, NoneIsWrittenOff, Next
  PROVE  Backed'
<1> USE DEF IInv
<1>1. CASE WriteOffRow
  <2>1. \A t \in Txs : Cur(t)' => Cur(t) /\ tx[t].ref # event[sweep.ev].ref /\ UNCHANGED <<tx, attempt>>
    BY <1>1, CurWrittenOff
  <2>2. \A e \in Events : e # sweep.ev => event'[e] = event[e]
    BY <1>1, CurWrittenOff
  <2> QED BY <2>1, <2>2 DEF Backed, InFlight
<1>2. ASSUME NEW h \in Handlers, NEW t \in Txs, Arm(h, t) PROVE Backed'
  <2> DEFINE r == task[h].ref
  <2>1. /\ tx'[t].ref = r /\ tx'[t].pays = r /\ r \in Subjects
        /\ \A u \in Txs : Cur(u) => tx[u].ref # r
        /\ \A u \in Txs : u # t => tx'[u] = tx[u] /\ (Cur(u)' <=> Cur(u))
    BY <1>2, CurArmed
  <2>2. attempt[r].status \in {"preparing", "settled"}
    BY <1>2 DEF Arm, Payer, PayerOK
  <2>3. /\ attempt'[r].status = "in_flight" /\ UNCHANGED event
        /\ \A s \in Refs : s # r => attempt'[s] = attempt[s]
    BY <1>2, <2>1, <2>2 DEF Arm, TypeOK, AttemptRow, Refs
  <2> HIDE DEF r
  <2>4. ASSUME NEW u \in Txs, Cur(u)', u # t
        PROVE  /\ tx'[u] = tx[u] /\ tx[u].ref \in Subjects /\ tx[u].pays = tx[u].ref
               /\ InFlight(tx[u].ref)' \/ \E e \in Events : event'[e].ref = tx[u].ref
    BY <2>1, <2>3, <2>4 DEF Backed, InFlight, Refs
  <2> QED BY <2>1, <2>3, <2>4 DEF Backed, InFlight
<1>3. ASSUME CurKept,
             \A t \in Txs : Cur(t) =>
               \/ attempt'[tx[t].ref].status = "in_flight"
               \/ \E e \in Events : event'[e].ref = tx[t].ref
      PROVE  Backed'
  BY <1>3 DEF Backed, CurKept, InFlight
<1>4. ASSUME NEW r \in Subjects, InFlight(r) \/ \E e \in Events : event[e].ref = r,
             ~ WriteOffRow, \A h \in Handlers, t \in Txs : ~ Arm(h, t),
             ~ (WriteOffClaim /\ r = sweep.key)
      PROVE  attempt'[r].status = "in_flight" \/ \E e \in Events : event'[e].ref = r
  <2>1. ASSUME NEW e \in Events, event[e].ref = r PROVE \E f \in Events : event'[f].ref = r
    <3>1. ASSUME NEW h \in Handlers, NEW f \in Events, WriteRow(h, f) PROVE e # f
      BY <2>1, <3>1, ServerPayoutAssumption
      DEF WriteRow, FreeEvents, Rows, RowOK, ServerPayoutAssumption
    <3> QED BY <1>4, <2>1, <3>1, RefsMove
  <2>2. CASE InFlight(r)
    <3>1. ASSUME NEW h \in Handlers, SettleAttempt(h)
          PROVE  InFlight(r)' \/ \E e \in Events : event[e].ref = r
      <4>1. task[h].pc = "settle" /\ task[h].ref \in Refs
        BY <3>1, PayingRef DEF SettleAttempt, Runs, Paying
      <4>2. CASE r = task[h].ref
        BY <4>1, <4>2 DEF Payer, PayerOK
      <4>3. CASE r # task[h].ref
        BY <2>2, <3>1, <4>3 DEF SettleAttempt, InFlight, TypeOK, Refs
      <4> QED BY <4>2, <4>3
    <3>2. ASSUME WriteOffClaim PROVE InFlight(r)'
      BY <1>4, <2>2, <3>2 DEF WriteOffClaim, InFlight, TypeOK, Refs
    <3>3. r \in Refs
      BY DEF Refs
    <3> QED BY <1>4, <2>1, <2>2, <3>1, <3>2, <3>3, ClaimsMove DEF InFlight
  <2> QED BY <1>4, <2>1, <2>2
<1>5. CASE CurKept /\ ~ WriteOffRow /\ \A h \in Handlers, t \in Txs : ~ Arm(h, t)
  <2>1. ASSUME NEW t \in Txs, Cur(t)
        PROVE  attempt'[tx[t].ref].status = "in_flight" \/ \E e \in Events : event'[e].ref = tx[t].ref
    <3>1. /\ tx[t].ref \in Subjects
          /\ InFlight(tx[t].ref) \/ \E e \in Events : event[e].ref = tx[t].ref
      BY <2>1 DEF Backed
    <3>2. ~ (WriteOffClaim /\ tx[t].ref = sweep.key)
      BY <2>1 DEF WriteOffClaim, NoneIsWrittenOff, WritingOff
    <3> QED BY <1>4, <1>5, <3>1, <3>2
  <2> QED BY <1>3, <1>5, <2>1
<1> QED BY <1>1, <1>2, <1>5, CurMoves

\* A write-off under way leaves its work without a transaction.
LEMMA NoneIsWrittenOffStep ==
  ASSUME IInv, ~ TornWriteOff, Backed, Lone, RowsNameCur, NoneIsWrittenOff, Next
  PROVE  NoneIsWrittenOff'
<1> USE DEF IInv
<1>1. CASE WriteOffRow
  BY <1>1, CurWrittenOff DEF NoneIsWrittenOff
<1>2. ASSUME WritingOff' PROVE WriteOffRow \/ WritingOff
  <2>1. UNCHANGED sweep => WritingOff
    BY <1>2 DEF WritingOff
  <2>2. \A h \in Handlers, e \in Events : WriteRow(h, e) => UNCHANGED sweep
    BY DEF WriteRow
  <2>3. \A h \in Handlers : SettleAttempt(h) => UNCHANGED sweep
    BY DEF SettleAttempt
  <2>4. \A e \in Events : ~ AskReceipt(e)
    BY <1>2 DEF AskReceipt, Receipt, WritingOff
  <2>5. ~ Crash /\ ~ Confirm /\ ~ KeepWaiting /\ ~ WriteOffClaim
    BY <1>2 DEF Crash, Confirm, KeepWaiting, WriteOffClaim, NoSweep, WritingOff
  <2>6. WriteOffKey => WritingOff
    BY DEF WriteOffKey, WritingOff
  <2> QED BY <2>1, <2>2, <2>3, <2>4, <2>5, <2>6, WhoSweeps DEF ActOnReceipt
<1>3. CASE WritingOff /\ ~ WriteOffClaim
  <2>1. WritingOff' /\ sweep'.key = sweep.key /\ UNCHANGED <<attempt, task>>
    BY <1>3, WritingOffMoves
  <2>2. cpu = "sweeper" /\ ~ Free
    BY <1>3, NoneIsNotSweeper DEF Sweeping, Free
  <2>3. CurKept
    BY <2>2, CurMoves DEF Arm, WriteOffRow
  <2> QED BY <1>3, <2>1, <2>3 DEF NoneIsWrittenOff, CurKept
<1>4. CASE WriteOffClaim
  BY <1>4 DEF WriteOffClaim, NoSweep, NoneIsWrittenOff, WritingOff
<1> QED BY <1>1, <1>2, <1>3, <1>4 DEF NoneIsWrittenOff

\* A claim in flight that is not being dropped names the transaction its work has.
LEMMA ClaimsNameCurStep ==
  ASSUME IInv, ~ TornWriteOff, Backed, Lone, RowsNameCur, ClaimsNameCur, Next
  PROVE  ClaimsNameCur'
<1> USE DEF IInv
<1>1. SUFFICES ASSUME NEW r \in Refs, attempt'[r].status = "in_flight", attempt'[r].bytes # None,
                      ~ (WritingOff' /\ sweep'.key = r)
               PROVE  \E t \in Txs : attempt'[r].bytes = t /\ Cur(t)' /\ tx'[t].ref = r
  BY DEF ClaimsNameCur, InFlight, Cur, WrittenOff
<1>2. CASE WriteOffRow
  <2>1. InFlight(r) /\ ~ WritingOff /\ attempt'[r] = attempt[r] /\ UNCHANGED tx
    BY <1>1, <1>2, CurWrittenOff DEF InFlight
  <2>2. Cur(attempt[r].bytes) /\ tx[attempt[r].bytes].ref = r /\ attempt[r].bytes \in Txs
    BY <1>1, <2>1 DEF ClaimsNameCur, TypeOK, AttemptRow
  <2>3. r # event[sweep.ev].ref
    BY <1>1, <1>2, CurWrittenOff DEF WritingOff
  <2>4. attempt[r].bytes # event[sweep.ev].hash
    BY <1>2, <2>2, <2>3, CurWrittenOff
  <2>5. attempt'[r].bytes = attempt[r].bytes
    BY <2>1
  <2>6. \A t \in Txs : Cur(t)' <=> Cur(t) /\ t # event[sweep.ev].hash
    BY <1>2, CurWrittenOff
  <2>7. Cur(attempt[r].bytes) /\ attempt[r].bytes \in Txs
    BY <2>2
  <2> QED BY <2>1, <2>2, <2>4, <2>5, <2>6, <2>7
<1>3. ASSUME NEW h \in Handlers, NEW u \in Txs, Arm(h, u)
      PROVE  \E t \in Txs : attempt'[r].bytes = t /\ Cur(t)' /\ tx'[t].ref = r
  <2>1. task[h].ref \in Refs /\ attempt[task[h].ref].status \in {"preparing", "settled"}
    BY <1>3, PayingRef DEF Arm, Payer, PayerOK, Paying
  <2>2. /\ attempt'[task[h].ref].bytes \in {None, u}
        /\ \A s \in Refs : s # task[h].ref => attempt'[s] = attempt[s]
        /\ ~ WritingOff /\ UNCHANGED sweep
    BY <1>3, <2>1, NoneIsNotSweeper DEF Arm, TypeOK, AttemptRow, Free, Sweeping
  <2>3. CASE r = task[h].ref
    <3>1. attempt'[r].bytes = u
      BY <1>1, <2>2, <2>3
    <3> QED BY <1>3, <2>3, <3>1, CurArmed
  <2>4. CASE r # task[h].ref
    <3>1. attempt'[r] = attempt[r] /\ InFlight(r)
      BY <1>1, <2>2, <2>4 DEF InFlight
    <3>2. Cur(attempt[r].bytes) /\ tx[attempt[r].bytes].ref = r /\ attempt[r].bytes \in Txs
      BY <1>1, <2>2, <3>1 DEF ClaimsNameCur, TypeOK, AttemptRow
    <3>3. \A v \in Txs : v # u => tx'[v] = tx[v] /\ (Cur(v)' <=> Cur(v))
      BY <1>3, CurArmed
    <3>4. attempt[r].bytes # u
      BY <1>3, <3>2, CurArmed
    <3> QED BY <3>1, <3>2, <3>3, <3>4
  <2> QED BY <2>3, <2>4
<1>4. CASE CurKept /\ ~ WriteOffRow /\ \A h \in Handlers, t \in Txs : ~ Arm(h, t)
  <2>1. ASSUME InFlight(r), attempt'[r].bytes = attempt[r].bytes, ~ (WritingOff /\ sweep.key = r)
        PROVE  \E t \in Txs : attempt'[r].bytes = t /\ Cur(t)' /\ tx'[t].ref = r
    <3>1. Cur(attempt[r].bytes) /\ tx[attempt[r].bytes].ref = r /\ attempt[r].bytes \in Txs
      BY <1>1, <2>1 DEF ClaimsNameCur, TypeOK, AttemptRow
    <3> QED BY <1>4, <2>1, <3>1 DEF CurKept
  <2>2. CASE WriteOffClaim
    BY <1>1, <2>1, <2>2 DEF WriteOffClaim, TypeOK, NoAttempt, InFlight
  <2>3. CASE ~ WriteOffClaim
    <3>1. ~ (WritingOff /\ sweep.key = r)
      BY <1>1, <2>3, WritingOffMoves
    <3>2. ASSUME NEW h \in Handlers, SettleAttempt(h)
          PROVE  InFlight(r) /\ attempt'[r].bytes = attempt[r].bytes
      <4>1. task[h].ref \in Refs
        BY <3>2, PayingRef DEF SettleAttempt, Runs, Paying
      <4>2. attempt'[task[h].ref].status # "in_flight"
        BY <3>2, <4>1 DEF SettleAttempt, TypeOK, AttemptRow
      <4> QED BY <1>1, <3>2, <4>2 DEF SettleAttempt, TypeOK, InFlight
    <3>3. InFlight(r) /\ attempt'[r].bytes = attempt[r].bytes
      BY <1>1, <1>4, <2>3, <3>2, ClaimsMove DEF InFlight
    <3> QED BY <2>1, <3>1, <3>3
  <2> QED BY <2>2, <2>3
<1> QED BY <1>2, <1>3, <1>4, CurMoves

\* A request at the wire sends the transaction its work has.
LEMMA PayersNameCurStep ==
  ASSUME IInv, ~ TornWriteOff, Backed, Lone, RowsNameCur, ClaimsNameCur, PayersNameCur, Next, Sweeping'
  PROVE  PayersNameCur'
<1> USE DEF IInv
<1>1. SUFFICES ASSUME NEW h \in Handlers, task'[h].pc = "wire"
               PROVE  \E t \in Txs : task'[h].tx = t /\ Cur(t)' /\ tx'[t].ref = task'[h].ref
  BY DEF PayersNameCur, Cur, WrittenOff
<1>2. ASSUME NEW u \in Txs, Arm(h, u) PROVE \E t \in Txs : task'[h].tx = t /\ Cur(t)' /\ tx'[t].ref = task'[h].ref
  <2>1. task'[h].tx = u /\ task'[h].ref = task[h].ref
    BY <1>2 DEF Arm, TypeOK, Task
  <2>2. Cur(u)' /\ tx'[u].ref = task[h].ref
    BY <1>2, CurArmed
  <2> QED BY <2>1, <2>2
<1>3. CASE Replay(h)
  <2>1. task[h].ref \in Refs /\ UNCHANGED <<event, tx>> /\ ~ WritingOff
    BY <1>3, PayingRef, NoneIsNotSweeper DEF Replay, Paying, db, Free, Sweeping
  <2>2. Cur(attempt[task[h].ref].bytes) /\ tx[attempt[task[h].ref].bytes].ref = task[h].ref
    BY <1>3, <2>1 DEF Replay, ClaimsNameCur, InFlight
  <2>3. task'[h].tx = attempt[task[h].ref].bytes /\ task'[h].ref = task[h].ref
    BY <1>3 DEF Replay, TypeOK, Task
  <2>4. attempt[task[h].ref].bytes \in Txs
    BY <1>3, <2>1 DEF Replay, TypeOK, AttemptRow
  <2>5. CurKept
    BY <2>1, ChainKeepsCur DEF FailedKept
  <2> QED BY <2>2, <2>3, <2>4, <2>5 DEF CurKept
<1>4. CASE task'[h] = task[h]
  <2>1. /\ task[h].tx \in Txs /\ task[h].pc = "wire"
        /\ Cur(task[h].tx) /\ tx[task[h].tx].ref = task[h].ref
    BY <1>1, <1>4 DEF PayersNameCur, Payer, PayerOK
  <2>2. CASE CurKept
    BY <1>4, <2>1, <2>2 DEF CurKept
  <2>3. ASSUME NEW k \in Handlers, NEW u \in Txs, Arm(k, u)
        PROVE  \E t \in Txs : task'[h].tx = t /\ Cur(t)' /\ tx'[t].ref = task'[h].ref
    <3>1. task[h].tx # u
      BY <2>1, <2>3, CurArmed
    <3>2. \A v \in Txs : v # u => tx'[v] = tx[v] /\ (Cur(v)' <=> Cur(v))
      BY <2>3, CurArmed
    <3> QED BY <1>4, <2>1, <3>1, <3>2
  <2>4. CASE WriteOffRow
    <3>1. WritingOff' /\ sweep'.key = event[sweep.ev].ref /\ UNCHANGED tx
      BY <2>4, CurWrittenOff DEF WritingOff
    <3>2. task[h].ref # event[sweep.ev].ref
      BY <1>1, <1>4, <3>1 DEF Sweeping, Paying
    <3>3. task[h].tx # event[sweep.ev].hash
      BY <2>1, <2>4, <3>2, CurWrittenOff
    <3>4. \A t \in Txs : Cur(t)' <=> Cur(t) /\ t # event[sweep.ev].hash
      BY <2>4, CurWrittenOff
    <3> QED BY <1>4, <2>1, <3>1, <3>3, <3>4
  <2> QED BY <2>2, <2>3, <2>4, CurMoves
<1> QED BY <1>1, <1>2, <1>3, <1>4, WhoWires

\* At the start nothing is built, and every table is empty.
LEMMA RInvInit == Init => RInv
<1> SUFFICES ASSUME Init PROVE RInv
  OBVIOUS
<1>1. \A t \in Txs : ~ Cur(t)
  BY DEF Init, NoTx, Cur
<1>2. Backed /\ Lone /\ NoneIsWrittenOff
  BY <1>1 DEF Backed, Lone, NoneIsWrittenOff
<1>3. RowsNameCur
  BY DEF Init, NoEvent, RowsNameCur, OnTheBooks
<1>4. ClaimsNameCur
  BY DEF Init, NoAttempt, ClaimsNameCur, InFlight
<1>5. PayersNameCur
  BY DEF Init, Idle, PayersNameCur
<1> QED BY <1>2, <1>3, <1>4, <1>5, InvInit DEF RInv

\* Every step keeps the strengthened invariant.
LEMMA RInvStep ==
  ASSUME ~ TornWriteOff
  PROVE  RInv /\ [Next]_vars => RInv'
<1>1. ASSUME RInv, Next PROVE RInv'
  <2>1. IInv'
    BY <1>1, InvStep DEF RInv
  <2>2. Sweeping'
    BY <2>1 DEF IInv
  <2> QED
    BY <1>1, <2>1, <2>2, LoneStep, RowsNameCurStep, BackedStep, NoneIsWrittenOffStep,
       ClaimsNameCurStep, PayersNameCurStep DEF RInv
<1>2. ASSUME RInv, UNCHANGED vars PROVE RInv'
  <2> USE <1>2 DEF RInv, vars
  <2>1. IInv'
    BY InvStutters
  <2>2. Backed' /\ Lone' /\ NoneIsWrittenOff'
    BY DEF Backed, Lone, NoneIsWrittenOff, Cur, WrittenOff, InFlight, WritingOff
  <2>3. RowsNameCur' /\ ClaimsNameCur' /\ PayersNameCur'
    BY DEF RowsNameCur, ClaimsNameCur, PayersNameCur, Cur, WrittenOff, InFlight, OnTheBooks, WritingOff
  <2> QED BY <2>1, <2>2, <2>3
<1> QED BY <1>1, <1>2

\* Beside IInv: each piece of work has one transaction at most that is built
\* and not written off, and rows, claims and broadcasts name that one.
THEOREM CurrentInvariant ==
  ASSUME ~ TornWriteOff
  PROVE  Spec => []RInv
  BY RInvInit, RInvStep, PTL DEF Spec

-----------------------------------------------------------------------------
(* Reading the promise off this state.                                     *)

Stage(t) ==
  CASE tx[t].state = "executed" -> "paid"
    [] tx[t].state = "rejected" -> "bounced"
    [] OTHER -> "moving"

MoneyRead ==
  \A s \in Subjects :
    /\ (\A t \in Txs : Cur(t) => tx[t].ref # s) => MoneyOf(s) = "owed"
    /\ \A t \in Txs : Cur(t) /\ tx[t].ref = s => MoneyOf(s) = Stage(t)

RowRead ==
  \A s \in Subjects :
    /\ (\A e \in Events : OnTheBooks(e) => event[e].pays # s) => RowOf(s) = "none"
    /\ \A e \in Events : OnTheBooks(e) /\ event[e].pays = s => RowOf(s) = event[e].status

\* A set of one element has one element, and CHOOSE finds it.
LEMMA Singled ==
  ASSUME NEW S, NEW x \in S, \A y \in S : y = x
  PROVE  S # {} /\ ~ (Cardinality(S) > 1) /\ (CHOOSE y \in S : TRUE) = x
<1>1. S = {x}
  OBVIOUS
<1>2. Cardinality({x}) = 1
  BY FS_Singleton
<1> QED BY <1>1, <1>2

\* The promise reads owed where there is no current transaction, and else its stage.
LEMMA MoneyReads == Backed /\ Lone => MoneyRead
<1> SUFFICES ASSUME Backed, Lone, NEW s \in Subjects
             PROVE  /\ (\A t \in Txs : Cur(t) => tx[t].ref # s) => MoneyOf(s) = "owed"
                    /\ \A t \in Txs : Cur(t) /\ tx[t].ref = s => MoneyOf(s) = Stage(t)
  BY DEF MoneyRead
<1>1. Current(s) = {t \in Txs : Cur(t) /\ tx[t].ref = s}
  BY DEF Current, Cur, Backed
<1>2. ASSUME \A t \in Txs : Cur(t) => tx[t].ref # s PROVE MoneyOf(s) = "owed"
  <2>1. Current(s) = {}
    BY <1>1, <1>2
  <2> QED BY <2>1 DEF MoneyOf
<1>3. ASSUME NEW t \in Txs, Cur(t), tx[t].ref = s PROVE MoneyOf(s) = Stage(t)
  <2>1. t \in Current(s) /\ \A u \in Current(s) : u = t
    BY <1>1, <1>3 DEF Lone
  <2>2. Current(s) # {} /\ ~ (Cardinality(Current(s)) > 1) /\ (CHOOSE u \in Current(s) : TRUE) = t
    BY <2>1, Singled
  <2> QED BY <2>2 DEF MoneyOf, Stage
<1> QED BY <1>2, <1>3

\* The promise reads none where no row stands, and else the status of the one that does.
LEMMA RowReads == Rows => RowRead
<1> SUFFICES ASSUME Rows, NEW s \in Subjects
             PROVE  /\ (\A e \in Events : OnTheBooks(e) => event[e].pays # s) => RowOf(s) = "none"
                    /\ \A e \in Events : OnTheBooks(e) /\ event[e].pays = s => RowOf(s) = event[e].status
  BY DEF RowRead
<1>1. Standing(s) = {e \in Events : OnTheBooks(e) /\ event[e].pays = s}
  BY DEF Standing, OnTheBooks
<1>2. ASSUME \A e \in Events : OnTheBooks(e) => event[e].pays # s PROVE RowOf(s) = "none"
  <2>1. Standing(s) = {}
    BY <1>1, <1>2
  <2> QED BY <2>1 DEF RowOf
<1>3. ASSUME NEW e \in Events, OnTheBooks(e), event[e].pays = s PROVE RowOf(s) = event[e].status
  <2>1. e \in Standing(s) /\ \A f \in Standing(s) : f = e
    BY <1>1, <1>3, ServerPayoutAssumption DEF Rows, RowOK, ServerPayoutAssumption
  <2>2. Standing(s) # {} /\ ~ (Cardinality(Standing(s)) > 1) /\ (CHOOSE f \in Standing(s) : TRUE) = e
    BY <2>1, Singled
  <2> QED BY <2>2 DEF RowOf
<1> QED BY <1>2, <1>3

\* What does not touch a work's transaction leaves what the promise says of it.
LEMMA MoneySame ==
  ASSUME MoneyRead, MoneyRead', NEW s \in Subjects,
         \A t \in Txs : Cur(t)' /\ tx'[t].ref = s <=> Cur(t) /\ tx[t].ref = s,
         \A t \in Txs : Cur(t) /\ tx[t].ref = s => Stage(t)' = Stage(t)
  PROVE  MoneyOf(s)' = MoneyOf(s)
<1>1. CASE \E t \in Txs : Cur(t) /\ tx[t].ref = s
  <2>1. PICK t \in Txs : Cur(t) /\ tx[t].ref = s
    BY <1>1
  <2>2. MoneyOf(s) = Stage(t)
    BY <2>1 DEF MoneyRead
  <2>3. MoneyOf(s)' = Stage(t)'
    BY <2>1 DEF MoneyRead
  <2> QED BY <2>1, <2>2, <2>3
<1>2. CASE \A t \in Txs : Cur(t) => tx[t].ref # s
  <2>1. MoneyOf(s) = "owed"
    BY <1>2 DEF MoneyRead
  <2>2. MoneyOf(s)' = "owed"
    BY <1>2 DEF MoneyRead
  <2> QED BY <2>1, <2>2
<1> QED BY <1>1, <1>2

\* What does not touch a work's row leaves what the promise says of it.
LEMMA RowSame ==
  ASSUME RowRead, RowRead', NEW s \in Subjects,
         \A e \in Events : OnTheBooks(e)' /\ event'[e].pays = s <=> OnTheBooks(e) /\ event[e].pays = s,
         \A e \in Events : OnTheBooks(e) /\ event[e].pays = s => event'[e].status = event[e].status
  PROVE  RowOf(s)' = RowOf(s)
<1>1. CASE \E e \in Events : OnTheBooks(e) /\ event[e].pays = s
  <2>1. PICK e \in Events : OnTheBooks(e) /\ event[e].pays = s
    BY <1>1
  <2>2. RowOf(s) = event[e].status
    BY <2>1 DEF RowRead
  <2>3. RowOf(s)' = event'[e].status
    BY <2>1 DEF RowRead
  <2> QED BY <2>1, <2>2, <2>3
<1>2. CASE \A e \in Events : OnTheBooks(e) => event[e].pays # s
  <2>1. RowOf(s) = "none"
    BY <1>2 DEF RowRead
  <2>2. RowOf(s)' = "none"
    BY <1>2 DEF RowRead
  <2> QED BY <2>1, <2>2
<1> QED BY <1>1, <1>2

-----------------------------------------------------------------------------
(* Each step of ServerPayout, as a step of PayOnce.                        *)

\* The promise says of every other work, and of every row, what it said.
OthersKeepMoney(w) == \A s \in Subjects : s # w => MoneyOf(s)' = MoneyOf(s)
OthersKeepRow(w) == \A s \in Subjects : s # w => RowOf(s)' = RowOf(s)
MoneyKeeps == \A s \in Subjects : MoneyOf(s)' = MoneyOf(s)
RowKeeps == \A s \in Subjects : RowOf(s)' = RowOf(s)

\* A work that had nothing gets its transaction: Send.
LEMMA SendOf ==
  ASSUME NEW w \in Subjects, MoneyOf(w) = "owed", RowOf(w) = "none", MoneyOf(w)' = "moving",
         OthersKeepMoney(w), RowKeeps
  PROVE  Promise!Next
<1>1. Promise!Send(w)
  BY DEF Promise!Send, OthersKeepMoney, RowKeeps
<1> QED BY <1>1 DEF Promise!Next

\* The chain includes the transaction, with or without effect: Arrive.
LEMMA ArriveOf ==
  ASSUME NEW w \in Subjects, MoneyOf(w) = "moving", MoneyOf(w)' \in {"paid", "bounced"},
         OthersKeepMoney(w), RowKeeps
  PROVE  Promise!Next
<1>1. Promise!Arrive(w)
  BY DEF Promise!Arrive, OthersKeepMoney, RowKeeps
<1> QED BY <1>1 DEF Promise!Next

\* The ledger takes the payment down: Record.
LEMMA RecordOf ==
  ASSUME NEW w \in Subjects, MoneyOf(w) # "owed", RowOf(w) = "none", RowOf(w)' = "pending",
         MoneyKeeps, OthersKeepRow(w)
  PROVE  Promise!Next
<1>1. Promise!Record(w)
  BY DEF Promise!Record, MoneyKeeps, OthersKeepRow
<1> QED BY <1>1 DEF Promise!Next

\* The ledger calls settled what the chain executed: Confirm.
LEMMA ConfirmOf ==
  ASSUME NEW w \in Subjects, MoneyOf(w) = "paid", RowOf(w) = "pending", RowOf(w)' = "done",
         MoneyKeeps, OthersKeepRow(w)
  PROVE  Promise!Next
<1>1. Promise!Confirm(w)
  BY DEF Promise!Confirm, MoneyKeeps, OthersKeepRow
<1> QED BY <1>1 DEF Promise!Next

\* Transaction and row of a refused payment go in one step: WriteOff.
LEMMA WriteOffOf ==
  ASSUME NEW w \in Subjects, MoneyOf(w) = "bounced", RowOf(w) = "pending",
         MoneyOf(w)' = "owed", RowOf(w)' = "none", OthersKeepMoney(w), OthersKeepRow(w)
  PROVE  Promise!Next
<1>1. Promise!WriteOff(w)
  BY DEF Promise!WriteOff, OthersKeepMoney, OthersKeepRow
<1> QED BY <1>1 DEF Promise!Next

\* A step that changes neither reading is a stutter of the promise.
LEMMA NothingOf ==
  ASSUME MoneyKeeps, RowKeeps
  PROVE  UNCHANGED <<[s \in Subjects |-> MoneyOf(s)], [s \in Subjects |-> RowOf(s)]>>
  BY DEF MoneyKeeps, RowKeeps

\* The readings hold wherever the invariant does ...
LEMMA ReadsAlways == RInv => MoneyRead /\ RowRead
  BY MoneyReads, RowReads DEF RInv, IInv

\* ... so at both ends of a step.
LEMMA ReadsHere ==
  ASSUME RInv, RInv'
  PROVE  MoneyRead /\ MoneyRead' /\ RowRead /\ RowRead'
  BY ReadsAlways, PTL

\* A step that writes no row leaves the promise's ledger alone.
LEMMA RowUntouched ==
  ASSUME RInv, RInv', UNCHANGED event
  PROVE  RowKeeps
  BY ReadsHere, RowSame DEF RowKeeps, OnTheBooks

\* A step that touches no transaction leaves the promise's money alone.
LEMMA MoneyUntouched ==
  ASSUME RInv, RInv', CurKept, UNCHANGED tx
  PROVE  MoneyKeeps
<1>1. \A t \in Txs : Stage(t)' = Stage(t)
  BY DEF Stage
<1>2. \A t \in Txs : Cur(t)' <=> Cur(t)
  BY DEF CurKept
<1> QED BY <1>1, <1>2, ReadsHere, MoneySame DEF MoneyKeeps

\* Building a transaction is a Send.
LEMMA ArmRefines ==
  ASSUME RInv, RInv', NEW h \in Handlers, NEW t \in Txs, Arm(h, t)
  PROVE  Promise!Next
<1> USE DEF RInv, IInv
<1>1. PICK w \in Subjects : w = task[h].ref
  BY CurArmed
<1>2. /\ Cur(t)' /\ ~ Cur(t) /\ tx'[t].ref = w
      /\ \A u \in Txs : Cur(u) => tx[u].ref # w
      /\ \A u \in Txs : u # t => tx'[u] = tx[u] /\ (Cur(u)' <=> Cur(u))
  BY <1>1, CurArmed
<1>3. tx'[t].state = "held" /\ UNCHANGED event
  BY DEF Arm, TypeOK
<1>4. \A e \in Events : OnTheBooks(e) => event[e].pays # w
  BY <1>1 DEF Arm, Payer, PayerOK, Rows, RowOK
<1>5. MoneyOf(w) = "owed" /\ RowOf(w) = "none"
  BY <1>2, <1>4, ReadsHere DEF MoneyRead, RowRead
<1>6. MoneyOf(w)' = "moving"
  <2>1. MoneyOf(w)' = Stage(t)'
    BY <1>2, ReadsHere DEF MoneyRead
  <2> QED BY <1>3, <2>1 DEF Stage
<1>7. OthersKeepMoney(w)
  <2> SUFFICES ASSUME NEW s \in Subjects, s # w PROVE MoneyOf(s)' = MoneyOf(s)
    BY DEF OthersKeepMoney
  <2>1. \A u \in Txs : Cur(u)' /\ tx'[u].ref = s <=> Cur(u) /\ tx[u].ref = s
    BY <1>2
  <2>2. \A u \in Txs : Cur(u) /\ tx[u].ref = s => Stage(u)' = Stage(u)
    BY <1>2 DEF Stage
  <2> QED BY <2>1, <2>2, ReadsHere, MoneySame
<1> QED BY <1>3, <1>5, <1>6, <1>7, SendOf, RowUntouched

\* A block that includes one is an Arrive.
LEMMA ArriveRefines ==
  ASSUME RInv, RInv', NEW t \in Txs, Include(t)
  PROVE  Promise!Next
<1> USE DEF RInv, IInv
<1>1. PICK outcome \in {"executed", "rejected"} : tx' = [tx EXCEPT ![t].state = outcome]
  BY DEF Include
<1>2. tx[t].state = "pool" /\ UNCHANGED event
  BY DEF Include, db
<1>3. Cur(t)
  BY <1>2 DEF Cur, WrittenOff, Rows, RowOK
<1>4. PICK w \in Subjects : w = tx[t].ref
  BY <1>3 DEF Backed
<1>5. CurKept
  BY <1>2, ChainKeepsCur DEF FailedKept
<1>6. tx'[t].state = outcome /\ \A u \in Txs : u # t => tx'[u] = tx[u]
  BY <1>1 DEF TypeOK, Transaction
<1>7. MoneyOf(w) = "moving"
  <2>1. MoneyOf(w) = Stage(t)
    BY <1>3, <1>4, ReadsHere DEF MoneyRead
  <2> QED BY <1>2, <2>1 DEF Stage
<1>8. MoneyOf(w)' \in {"paid", "bounced"}
  <2>1. MoneyOf(w)' = Stage(t)'
    BY <1>3, <1>4, <1>5, ReadsHere DEF MoneyRead, CurKept
  <2> QED BY <1>6, <2>1 DEF Stage
<1>9. OthersKeepMoney(w)
  <2> SUFFICES ASSUME NEW s \in Subjects, s # w PROVE MoneyOf(s)' = MoneyOf(s)
    BY DEF OthersKeepMoney
  <2>1. \A u \in Txs : Cur(u)' /\ tx'[u].ref = s <=> Cur(u) /\ tx[u].ref = s
    BY <1>5 DEF CurKept
  <2>2. \A u \in Txs : Cur(u) /\ tx[u].ref = s => Stage(u)' = Stage(u)
    BY <1>4, <1>6 DEF Stage
  <2> QED BY <2>1, <2>2, ReadsHere, MoneySame
<1> QED BY <1>2, <1>7, <1>8, <1>9, ArriveOf, RowUntouched

\* Handing bytes to a node changes nothing the promise speaks of.
LEMMA ReachRefines ==
  ASSUME RInv, RInv', NEW t \in Txs, Reach(t)
  PROVE  MoneyKeeps /\ RowKeeps
<1> USE DEF RInv, IInv
<1>1. tx[t].state = "held" /\ tx'[t].state = "pool" /\ UNCHANGED event
      /\ \A u \in Txs : u # t => tx'[u] = tx[u]
  BY DEF Reach, db, TypeOK, Transaction
<1>2. CurKept
  BY <1>1, ChainKeepsCur DEF FailedKept
<1>3. \A u \in Txs : Stage(u)' = Stage(u)
  BY <1>1 DEF Stage
<1>4. \A s \in Subjects, u \in Txs : Cur(u)' /\ tx'[u].ref = s <=> Cur(u) /\ tx[u].ref = s
  BY <1>2 DEF CurKept
<1>5. MoneyKeeps
  BY <1>3, <1>4, ReadsHere, MoneySame DEF MoneyKeeps
<1> QED BY <1>1, <1>5, RowUntouched

\* Writing the ledger row is a Record.
LEMMA RecordRefines ==
  ASSUME RInv, RInv', NEW h \in Handlers, NEW f \in Events, WriteRow(h, f)
  PROVE  Promise!Next
<1> USE DEF RInv, IInv
<1>1. task[h].ref \in Subjects /\ task[h].pays = task[h].ref /\ task[h].pc = "wire" /\ UNCHANGED tx
  BY PayingRef DEF WriteRow, Paying
<1>2. PICK w \in Subjects : w = task[h].ref
  BY <1>1
<1>3. /\ event[f].status = "none" /\ event'[f].status = "pending" /\ event'[f].pays = w
      /\ \A e \in Events : e # f => event'[e] = event[e]
  BY <1>1, <1>2 DEF WriteRow, FreeEvents, TypeOK
<1>4. task[h].tx \in Txs /\ Cur(task[h].tx) /\ tx[task[h].tx].ref = w
  BY <1>1, <1>2 DEF PayersNameCur, Payer, PayerOK
<1>5. MoneyOf(w) # "owed"
  <2>1. MoneyOf(w) = Stage(task[h].tx)
    BY <1>4, ReadsHere DEF MoneyRead
  <2> QED BY <2>1 DEF Stage
<1>6. \A e \in Events : OnTheBooks(e) => event[e].pays # w
  BY <1>1, <1>2 DEF Payer, PayerOK, Rows, RowOK
<1>7. RowOf(w) = "none"
  BY <1>6, ReadsHere DEF RowRead
<1>8. RowOf(w)' = "pending"
  <2>1. OnTheBooks(f)'
    BY <1>3 DEF OnTheBooks
  <2> QED BY <1>3, <2>1, ReadsHere DEF RowRead
<1>9. OthersKeepRow(w)
  BY <1>3, ReadsHere, RowSame DEF OthersKeepRow, OnTheBooks
<1>10. CurKept
  BY <1>1, <1>3, ChainKeepsCur DEF FailedKept
<1> QED BY <1>1, <1>5, <1>7, <1>8, <1>9, <1>10, MoneyUntouched, RecordOf

\* Confirming it from a receipt is a Confirm.
LEMMA ConfirmRefines ==
  ASSUME RInv, RInv', Confirm
  PROVE  Promise!Next
<1> USE DEF RInv, IInv
<1>1. PICK e \in Events : e = sweep.ev
  BY DEF Confirm, Sweeping
<1>2. event[e].status = "pending" /\ tx[event[e].hash].state = "executed" /\ UNCHANGED tx
  BY <1>1 DEF Confirm, Sweeping
<1>3. PICK w \in Subjects : w = event[e].pays
  BY <1>2 DEF Rows, RowOK, OnTheBooks
<1>4. OnTheBooks(e) /\ event[e].hash \in Txs /\ Cur(event[e].hash) /\ tx[event[e].hash].ref = w
  BY <1>2, <1>3 DEF Rows, RowOK, OnTheBooks, RowsNameCur
<1>5. /\ event'[e].status = "done" /\ event'[e].pays = w
      /\ \A g \in Events : g # e => event'[g] = event[g]
  BY <1>1, <1>3 DEF Confirm, TypeOK, EventRow
<1>6. MoneyOf(w) = "paid"
  <2>1. MoneyOf(w) = Stage(event[e].hash)
    BY <1>4, ReadsHere DEF MoneyRead
  <2> QED BY <1>2, <2>1 DEF Stage
<1>7. RowOf(w) = "pending"
  BY <1>2, <1>3, <1>4, ReadsHere DEF RowRead
<1>8. RowOf(w)' = "done"
  <2>1. OnTheBooks(e)'
    BY <1>5 DEF OnTheBooks
  <2> QED BY <1>5, <2>1, ReadsHere DEF RowRead
<1>9. OthersKeepRow(w)
  BY <1>3, <1>5, ReadsHere, RowSame DEF OthersKeepRow, OnTheBooks
<1>10. CurKept
  BY <1>2, <1>5, ChainKeepsCur DEF FailedKept
<1> QED BY <1>2, <1>6, <1>7, <1>8, <1>9, <1>10, MoneyUntouched, ConfirmOf

\* The first write of a write-off is a WriteOff; the other two are stutters.
LEMMA WriteOffRefines ==
  ASSUME RInv, RInv', WriteOffRow
  PROVE  Promise!Next
<1> USE DEF RInv, IInv
<1>1. PICK e \in Events : e = sweep.ev
  BY CurWrittenOff
<1>2. /\ event[e].status = "pending" /\ event[e].hash \in Txs /\ tx[event[e].hash].state = "rejected"
      /\ tx[event[e].hash].ref = event[e].ref /\ UNCHANGED tx
      /\ event'[e].status = "failed"
      /\ \A g \in Events : g # e => event'[g] = event[g]
  BY <1>1, CurWrittenOff
<1>3. PICK w \in Subjects : w = event[e].pays /\ w = event[e].ref
  BY <1>2 DEF Rows, RowOK, OnTheBooks
<1>4. OnTheBooks(e) /\ Cur(event[e].hash)
  BY <1>2 DEF OnTheBooks, RowsNameCur
<1>5. /\ \A t \in Txs : Cur(t)' <=> Cur(t) /\ t # event[e].hash
      /\ \A t \in Txs : Cur(t)' => tx[t].ref # w
  BY <1>1, <1>3, CurWrittenOff
<1>6. MoneyOf(w) = "bounced"
  <2>1. MoneyOf(w) = Stage(event[e].hash)
    BY <1>2, <1>3, <1>4, ReadsHere DEF MoneyRead
  <2> QED BY <1>2, <2>1 DEF Stage
<1>7. RowOf(w) = "pending"
  BY <1>2, <1>3, <1>4, ReadsHere DEF RowRead
<1>8. MoneyOf(w)' = "owed"
  BY <1>2, <1>5, ReadsHere DEF MoneyRead
<1>9. \A g \in Events : OnTheBooks(g) /\ event[g].pays = w => g = e
  BY <1>3, ServerPayoutAssumption DEF Rows, RowOK, ServerPayoutAssumption
<1>10. \A g \in Events : OnTheBooks(g)' => event'[g].pays # w
  BY <1>2, <1>9 DEF OnTheBooks
<1>11. RowOf(w)' = "none"
  BY <1>10, ReadsHere DEF RowRead
<1>12. OthersKeepMoney(w)
  <2> SUFFICES ASSUME NEW s \in Subjects, s # w PROVE MoneyOf(s)' = MoneyOf(s)
    BY DEF OthersKeepMoney
  <2>1. \A u \in Txs : Cur(u)' /\ tx'[u].ref = s <=> Cur(u) /\ tx[u].ref = s
    BY <1>2, <1>3, <1>5
  <2>2. \A u \in Txs : Stage(u)' = Stage(u)
    BY <1>2 DEF Stage
  <2> QED BY <2>1, <2>2, ReadsHere, MoneySame
<1>13. OthersKeepRow(w)
  <2> SUFFICES ASSUME NEW s \in Subjects, s # w PROVE RowOf(s)' = RowOf(s)
    BY DEF OthersKeepRow
  <2>1. \A g \in Events : OnTheBooks(g)' /\ event'[g].pays = s <=> OnTheBooks(g) /\ event[g].pays = s
    BY <1>2, <1>3 DEF OnTheBooks
  <2>2. \A g \in Events : OnTheBooks(g) /\ event[g].pays = s => event'[g].status = event[g].status
    BY <1>2, <1>3
  <2> QED BY <2>1, <2>2, ReadsHere, RowSame
<1> QED BY <1>6, <1>7, <1>8, <1>11, <1>12, <1>13, WriteOffOf

\* The two writes around a row that leave its status, its work and its key.
LEMMA QuietWritesRefine ==
  ASSUME RInv, RInv', WriteOffKey \/ \E h \in Handlers : MarkRepaid(h)
  PROVE  MoneyKeeps /\ RowKeeps
<1> USE DEF RInv, IInv
<1>1. /\ UNCHANGED tx
      /\ \A e \in Events : /\ event'[e].status = event[e].status /\ event'[e].pays = event[e].pays
                           /\ event'[e].hash = event[e].hash
  <2>1. CASE WriteOffKey
    BY <2>1 DEF WriteOffKey, TypeOK, EventRow
  <2>2. ASSUME NEW h \in Handlers, MarkRepaid(h)
        PROVE  /\ UNCHANGED tx
               /\ \A e \in Events : /\ event'[e].status = event[e].status /\ event'[e].pays = event[e].pays
                                    /\ event'[e].hash = event[e].hash
    BY <2>2 DEF MarkRepaid, TypeOK, EventRow
  <2> QED BY <2>1, <2>2
<1>2. CurKept
  BY <1>1, ChainKeepsCur DEF FailedKept
<1>3. MoneyKeeps
  BY <1>1, <1>2, MoneyUntouched
<1>4. RowKeeps
  BY <1>1, ReadsHere, RowSame DEF RowKeeps, OnTheBooks
<1> QED BY <1>3, <1>4

\* Every step is one of the promise's, or changes neither reading.
LEMMA StepRefines ==
  ASSUME RInv, RInv', Next
  PROVE  Promise!Next \/ (MoneyKeeps /\ RowKeeps)
<1>1. CASE UNCHANGED <<tx, event>>
  <2>1. CurKept
    BY <1>1, ChainKeepsCur DEF FailedKept, RInv, IInv
  <2> QED BY <1>1, <2>1, MoneyUntouched, RowUntouched
<1>2. ASSUME NEW h \in Handlers, NEW t \in Txs, Arm(h, t) PROVE Promise!Next
  BY <1>2, ArmRefines
<1>3. ASSUME NEW t \in Txs, Include(t) PROVE Promise!Next
  BY <1>3, ArriveRefines
<1>4. ASSUME NEW t \in Txs, Reach(t) PROVE MoneyKeeps /\ RowKeeps
  BY <1>4, ReachRefines
<1>5. ASSUME NEW h \in Handlers, NEW e \in Events, WriteRow(h, e) PROVE Promise!Next
  BY <1>5, RecordRefines
<1> QED
  BY <1>1, <1>2, <1>3, <1>4, <1>5, ConfirmRefines, WriteOffRefines, QuietWritesRefine,
     WhoWritesEvents, WhoWritesTxs

\* At the start everything is owed and nothing recorded.
LEMMA InitRefines == Init => Promise!Init
<1> SUFFICES ASSUME Init, NEW s \in Subjects PROVE MoneyOf(s) = "owed" /\ RowOf(s) = "none"
  BY DEF Promise!Init
<1>1. Current(s) = {}
  BY DEF Init, NoTx, Current
<1>2. Standing(s) = {}
  BY DEF Init, NoEvent, Standing
<1> QED BY <1>1, <1>2 DEF MoneyOf, RowOf

\* The payout machinery keeps its promise: one transaction at a time for each
\* piece of work, another only after the chain refused the one before it and the
\* ledger wrote it off, and a row settled only when its transaction executed.
THEOREM PayoutsPayOnce ==
  ASSUME ~ TornWriteOff
  PROVE  Spec => PaysOnce
<1> DEFINE P == <<[s \in Subjects |-> MoneyOf(s)], [s \in Subjects |-> RowOf(s)]>>
<1>1. ASSUME RInv, RInv', [Next]_vars PROVE [Promise!Next]_P
  <2>1. CASE Next
    BY <1>1, <2>1, StepRefines, NothingOf
  <2>2. CASE UNCHANGED vars
    <3>1. MoneyKeeps
      BY <1>1, <2>2, ChainKeepsCur, MoneyUntouched DEF vars, FailedKept, RInv, IInv
    <3>2. RowKeeps
      BY <1>1, <2>2, RowUntouched DEF vars
    <3> QED BY <3>1, <3>2, NothingOf
  <2> QED BY <1>1, <2>1, <2>2
<1>2. RInv /\ RInv' /\ [Next]_vars => [Promise!Next]_P
  BY <1>1
<1> QED BY <1>2, InitRefines, CurrentInvariant, PTL DEF Spec, PaysOnce, Promise!Spec
=============================================================================
