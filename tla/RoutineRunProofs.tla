-------------------------- MODULE RoutineRunProofs --------------------------
(***************************************************************************)
(* Proofs about RoutineRun, for every routine, every number of requests,   *)
(* cards and edits.                                                        *)
(***************************************************************************)
EXTENDS RoutineRunInvariant, FiniteSetTheorems, TLAPS

-----------------------------------------------------------------------------
(* Types.                                                                  *)

ReqRow == [pc : {"idle", "read", "priced", "paying", "settling"},
           kind : Kinds \cup {None}, of : Steps \cup Nat \cup {None},
           saw : StepStatus \cup CardStatus \cup {None},
           sawRun : RunStatus \cup {None}, value : Amounts]

\* What a run is worth is an amount.
LEMMA WorthIsAmount == TypeOK => Worth \in Amounts
  BY DEF TypeOK, Worth, Amounts, Done

\* The step a request names gets its new status, if the run still has it.
LEMMA Written ==
  ASSUME task \in [Steps -> StepStatus], NEW s, NEW status \in StepStatus
  PROVE  Write(s, status) \in [Steps -> StepStatus]
  BY DEF Write

\* Ending a run, or not, leaves a board and cards.
LEMMA RunCompleted ==
  ASSUME TypeOK, NEW rows \in [Steps -> StepStatus], NEW endRun, CompleteRun(rows, endRun)
  PROVE  /\ task' \in [Steps -> StepStatus] /\ run' \in {run, "done_pending"}
         /\ cards' = cards \/ (Pending = {} /\ cards' = Append(cards, "pending"))
         /\ run' = "done_pending" => run = "done_pending" \/ cards' # cards \/ Pending # {}
<1>1. Passed(rows) \in [Steps -> StepStatus]
  BY DEF Passed, StepStatus, OverStatus
<1>2. "pending" \in CardStatus /\ cards \in Seq(CardStatus)
  BY DEF CardStatus, TypeOK
<1> QED BY <1>1, <1>2 DEF CompleteRun, TypeOK

\* A request answered is idle, and the others stay.
LEMMA Answered ==
  ASSUME TypeOK, NEW r \in Requests, Answer(r)
  PROVE  /\ req' \in [Requests -> ReqRow] /\ req'[r] = Idle
         /\ \A q \in Requests \ {r} : req'[q] = req[q]
<1>1. Idle \in ReqRow
  BY DEF Idle, ReqRow, Amounts
<1> QED BY <1>1 DEF Answer, TypeOK, ReqRow

\* How a step changes the cards of a run.
CardsGo ==
  \/ cards' = cards
  \/ Pending = {} /\ cards' = Append(cards, "pending")
  \/ \E c \in DOMAIN cards, status \in {"approved", "rejected"} :
        cards[c] = "pending" /\ cards' = [cards EXCEPT ![c] = status]
  \/ Pending = {} /\ \E c \in DOMAIN cards : cards' = [cards EXCEPT ![c] = "pending"]

\* Cards are added and never taken away, and two of them never wait.
LEMMA CardsStay ==
  ASSUME TypeOK, OneWaits, CardsGo
  PROVE  cards' \in Seq(CardStatus) /\ DOMAIN cards \subseteq DOMAIN cards' /\ OneWaits'
<1>1. cards \in Seq(CardStatus)
  BY DEF TypeOK
<1>2. CASE cards' = cards
  BY <1>1, <1>2 DEF OneWaits, Pending
<1>3. CASE Pending = {} /\ cards' = Append(cards, "pending")
  <2>1. cards' \in Seq(CardStatus) /\ DOMAIN cards' = DOMAIN cards \cup {Len(cards) + 1}
    BY <1>1, <1>3 DEF CardStatus
  <2>2. \A c \in DOMAIN cards : cards'[c] = cards[c] /\ cards[c] # "pending"
    BY <1>1, <1>3 DEF Pending
  <2> QED BY <2>1, <2>2 DEF OneWaits, Pending
<1>4. ASSUME NEW c \in DOMAIN cards, NEW status \in CardStatus, cards' = [cards EXCEPT ![c] = status],
             (cards[c] = "pending" /\ status # "pending") \/ Pending = {}
      PROVE  cards' \in Seq(CardStatus) /\ DOMAIN cards \subseteq DOMAIN cards' /\ OneWaits'
  <2>1. cards' \in Seq(CardStatus) /\ DOMAIN cards' = DOMAIN cards
    BY <1>1, <1>4
  <2>2. \A d \in DOMAIN cards : cards'[d] = IF d = c THEN status ELSE cards[d]
    BY <1>1, <1>4
  <2> QED BY <1>4, <2>1, <2>2 DEF OneWaits, Pending
<1> QED BY <1>2, <1>3, <1>4 DEF CardsGo, CardStatus

\* What the rest of a step of a request about a run may do.
RowsGo(r) ==
  /\ task' \in [Steps -> StepStatus] /\ run' \in RunStatus /\ CardsGo
  /\ req'[r] \in ReqRow /\ req' = [req EXCEPT ![r] = req'[r]]
  /\ UNCHANGED <<active, price, past>>

MoneyGoes(r) ==
  \/ UNCHANGED money
  \/ /\ Paying(r) /\ paid' = Armed(req[r].value)
     /\ stuck' \in BOOLEAN /\ (stuck /\ paid # None => stuck')

\* Deciding a card ends the approve or sends it on to pay.
LEMMA Decided ==
  ASSUME TypeOK, NEW r \in Requests, NEW value \in Amounts, Decide(r, value),
         req[r].of \in DOMAIN cards, cards[req[r].of] = "pending"
  PROVE  /\ run' \in {run, "approved"} /\ CardsGo
         /\ req'[r] \in ReqRow /\ req' = [req EXCEPT ![r] = req'[r]]
         /\ \/ value = {} /\ run' = "approved" /\ req'[r] = Idle
            \/ value # {} /\ run' = run /\ req'[r] = [req[r] EXCEPT !.pc = "paying", !.value = value]
<1>1. CardsGo
  BY DEF Decide, CardsGo
<1>2. CASE value = {}
  BY <1>1, <1>2, Answered DEF Decide, Answer, TypeOK
<1>3. CASE value # {}
  <2>1. req' = [req EXCEPT ![r].pc = "paying", ![r].value = value] /\ run' = run
    BY <1>3 DEF Decide
  <2>2. req \in [Requests -> ReqRow]
    BY DEF TypeOK, ReqRow
  <2>3. [req[r] EXCEPT !.pc = "paying", !.value = value] \in ReqRow
    BY <2>2 DEF ReqRow
  <2> QED BY <1>1, <1>3, <2>1, <2>2, <2>3
<1> QED BY <1>2, <1>3

\* A request that only answers.
LEMMA AnswersOnly ==
  ASSUME TypeOK, NEW r \in Requests, Answer(r)
  PROVE  req'[r] = Idle /\ req'[r] \in ReqRow /\ req' = [req EXCEPT ![r] = req'[r]]
<1>1. Idle \in ReqRow
  BY DEF Idle, ReqRow, Amounts
<1> QED BY <1>1 DEF Answer, TypeOK

\* What a step of a request writes, table by table; only an approve that pays may make a
\* payment land.
LEMMA WorkRows ==
  ASSUME TypeOK, RequestsOK, NEW r \in Requests, Work(r)
  PROVE  RowsGo(r) /\ MoneyGoes(r)
<1> USE DEF money, past, MoneyGoes
<1>1. /\ task \in [Steps -> StepStatus] /\ run \in RunStatus /\ req \in [Requests -> ReqRow]
      /\ cards \in Seq(CardStatus) /\ "done_pending" \in RunStatus /\ "approved" \in RunStatus
      /\ "in_progress" \in RunStatus /\ {"running", "done", "skipped"} \subseteq StepStatus
      /\ RequestOK(r) /\ Worth \in Amounts
  BY WorthIsAmount DEF TypeOK, ReqRow, RunStatus, StepStatus, OpenStatus, OverStatus, RequestsOK
<1>2. ASSUME NEW rows \in [Steps -> StepStatus], NEW endRun, CompleteRun(rows, endRun)
      PROVE  task' \in [Steps -> StepStatus] /\ run' \in RunStatus /\ CardsGo
  BY <1>1, <1>2, RunCompleted DEF CardsGo
<1>3. Answer(r) => req'[r] \in ReqRow /\ req' = [req EXCEPT ![r] = req'[r]]
  BY AnswersOnly
<1>a. CASE Refuse(r)
  BY <1>1, <1>3, <1>a DEF Refuse, RowsGo, CardsGo, board
<1>b. CASE StartStep(r)
  <2>1. Write(req[r].of, "running") \in [Steps -> StepStatus]
    BY <1>1, Written
  <2> QED BY <1>1, <1>3, <1>b, <2>1 DEF StartStep, RowsGo, CardsGo
<1>c. CASE FinishStep(r)
  <2>1. Write(req[r].of, "done") \in [Steps -> StepStatus]
    BY <1>1, Written
  <2> QED BY <1>2, <1>3, <1>c, <2>1 DEF FinishStep, RowsGo
<1>d. CASE SkipStep(r)
  <2>1. Write(req[r].of, "skipped") \in [Steps -> StepStatus]
    BY <1>1, Written
  <2> QED BY <1>1, <1>2, <1>3, <1>d, <2>1 DEF SkipStep, RowsGo
<1>e. CASE OpenChest(r)
  BY <1>1, <1>2, <1>3, <1>e DEF OpenChest, RowsGo
<1>f. CASE Reject(r)
  <2>1. req[r].of \in DOMAIN cards
    BY <1>1, <1>f DEF Reject, Halfway, RequestOK, CardKinds
  <2>2. CardsGo /\ task' = task /\ run' \in {run, "in_progress"}
    BY <1>f, <2>1 DEF Reject, CardsGo, board
  <2> QED BY <1>1, <1>3, <1>f, <2>2 DEF Reject, RowsGo
<1>g. CASE PriceCard(r)
  <2>1. req[r].of \in DOMAIN cards
    BY <1>1, <1>g DEF PriceCard, Halfway, RequestOK, CardKinds
  <2>2. CASE cards[req[r].of] # "pending"
    BY <1>1, <1>3, <1>g, <2>2 DEF PriceCard, RowsGo, CardsGo
  <2>3. CASE cards[req[r].of] = "pending" /\ (Worth = {} \/ PayoutMayHaveLanded)
    <3>1. Decide(r, Worth) /\ task' = task /\ UNCHANGED <<active, price, money, past>>
      BY <1>g, <2>3 DEF PriceCard
    <3> QED BY <1>1, <2>1, <2>3, <3>1, Decided DEF RowsGo
  <2>4. CASE cards[req[r].of] = "pending" /\ ~ (Worth = {} \/ PayoutMayHaveLanded)
    <3>1. req' = [req EXCEPT ![r].pc = "priced", ![r].value = Worth]
      BY <1>g, <2>4 DEF PriceCard
    <3>2. [req[r] EXCEPT !.pc = "priced", !.value = Worth] \in ReqRow
      BY <1>1 DEF ReqRow
    <3> QED BY <1>1, <1>g, <2>4, <3>1, <3>2 DEF PriceCard, RowsGo, CardsGo
  <2> QED BY <2>2, <2>3, <2>4
<1>h. CASE NoFunds(r)
  BY <1>1, <1>3, <1>h DEF NoFunds, RowsGo, CardsGo, board
<1>i. CASE DecideCard(r)
  <2>1. req[r].of \in DOMAIN cards /\ req[r].value \in Amounts
    BY <1>1, <1>i DEF DecideCard, RequestOK, HoldsLock, ReqRow
  <2>2. CASE cards[req[r].of] = "pending"
    BY <1>1, <1>i, <2>1, <2>2, Decided DEF DecideCard, RowsGo
  <2>3. CASE cards[req[r].of] # "pending"
    BY <1>1, <1>3, <1>i, <2>3 DEF DecideCard, RowsGo, CardsGo
  <2> QED BY <2>2, <2>3
<1>j. CASE Pay(r)
  <2>1. req' = [req EXCEPT ![r].pc = "settling"] /\ [req[r] EXCEPT !.pc = "settling"] \in ReqRow
    BY <1>1, <1>j DEF Pay, ReqRow
  <2> QED BY <1>1, <1>j, <2>1 DEF Pay, RowsGo, CardsGo, board, Paying, MoneyGoes, TypeOK
<1>k. CASE PayFails(r)
  <2>1. req[r].of \in DOMAIN cards
    BY <1>1, <1>k DEF PayFails, RequestOK, HoldsLock
  <2>2. MoneyGoes(r)
    BY <1>1, <1>k DEF PayFails, LeftUnsettled, MoneyGoes, Paying, Armed
  <2>3. CardsGo
    BY <1>k, <2>1 DEF PayFails, CardsGo
  <2> QED BY <1>1, <1>3, <1>k, <2>2, <2>3 DEF PayFails, RowsGo
<1>l. CASE Settle(r)
  BY <1>1, <1>3, <1>l DEF Settle, RowsGo, CardsGo
<1> QED BY <1>a, <1>b, <1>c, <1>d, <1>e, <1>f, <1>g, <1>h, <1>i, <1>j, <1>k, <1>l DEF Work

-----------------------------------------------------------------------------
(* Where a step leaves a request.                                          *)

\* Its card is decided and it goes on to pay value.
PaysNow(r, value) ==
  /\ req'[r] = [req[r] EXCEPT !.pc = "paying", !.value = value]
  /\ cards[req[r].of] = "pending" /\ cards' = [cards EXCEPT ![req[r].of] = "approved"]
  /\ run' = run

Moves(r) ==
  \/ req'[r] = Idle
  \/ /\ req[r].pc = "read" /\ req[r].kind = "approve" /\ ~ Locked /\ UNCHANGED <<board, money>>
     /\ req'[r] = [req[r] EXCEPT !.pc = "priced", !.value = Worth]
  \/ /\ req[r].pc = "read" /\ req[r].kind = "approve" /\ ~ Locked /\ UNCHANGED <<task, money>>
     /\ PaysNow(r, Worth)
  \/ /\ req[r].pc = "priced" /\ UNCHANGED <<task, money>> /\ PaysNow(r, req[r].value)
  \/ /\ req[r].pc = "paying" /\ UNCHANGED board /\ paid' = Armed(req[r].value)
     /\ req'[r] = [req[r] EXCEPT !.pc = "settling"]

\* A request that works on answers, or holds the lock.
LEMMA WorkMoves ==
  ASSUME TypeOK, RequestsOK, NEW r \in Requests, Work(r)
  PROVE  Moves(r)
<1> USE DEF money
<1>1. Answer(r) => req'[r] = Idle
  BY AnswersOnly
<1>2. req \in [Requests -> ReqRow] /\ RequestOK(r) /\ Worth \in Amounts
  BY WorthIsAmount DEF TypeOK, ReqRow, RequestsOK
<1>3. ASSUME NEW value \in Amounts, Decide(r, value), req[r].of \in DOMAIN cards, cards[req[r].of] = "pending"
      PROVE  req'[r] = Idle \/ PaysNow(r, value)
  BY <1>3, Decided DEF PaysNow, Decide
<1>a. CASE Refuse(r) \/ StartStep(r) \/ FinishStep(r) \/ SkipStep(r) \/ OpenChest(r)
  BY <1>1, <1>a DEF Refuse, StartStep, FinishStep, SkipStep, OpenChest, Moves
<1>b. CASE Reject(r) \/ NoFunds(r) \/ PayFails(r) \/ Settle(r)
  BY <1>1, <1>b DEF Reject, NoFunds, PayFails, Settle, Moves
<1>c. CASE PriceCard(r)
  <2>1. req[r].pc = "read" /\ req[r].kind = "approve" /\ ~ Locked /\ UNCHANGED <<task, money>>
    BY <1>c DEF PriceCard, Halfway
  <2>2. req[r].of \in DOMAIN cards
    BY <1>2, <2>1 DEF RequestOK, CardKinds
  <2>3. \/ Answer(r)
        \/ Decide(r, Worth) /\ cards[req[r].of] = "pending"
        \/ req' = [req EXCEPT ![r].pc = "priced", ![r].value = Worth] /\ UNCHANGED <<run, cards>>
    BY <1>c DEF PriceCard
  <2> QED BY <1>1, <1>2, <1>3, <2>1, <2>2, <2>3 DEF Moves, board
<1>d. CASE DecideCard(r)
  <2>1. req[r].pc = "priced" /\ UNCHANGED <<task, money>> /\ req[r].value \in Amounts
    BY <1>2, <1>d DEF DecideCard, ReqRow
  <2>2. req[r].of \in DOMAIN cards
    BY <1>2, <2>1 DEF RequestOK, HoldsLock
  <2>3. Answer(r) \/ (Decide(r, req[r].value) /\ cards[req[r].of] = "pending")
    BY <1>d DEF DecideCard
  <2> QED BY <1>1, <1>3, <2>1, <2>2, <2>3 DEF Moves
<1>e. CASE Pay(r)
  BY <1>2, <1>e DEF Pay, Moves
<1> QED BY <1>a, <1>b, <1>c, <1>d, <1>e DEF Work

\* A request that arrives reads, and does nothing else.
LEMMA AskReads ==
  ASSUME TypeOK, NEW r \in Requests, Ask(r)
  PROVE  /\ UNCHANGED <<active, price, board, money, past>>
         /\ req[r].pc = "idle" /\ req' = [req EXCEPT ![r] = req'[r]] /\ req'[r] \in ReqRow
         /\ req'[r].pc = "read" /\ req'[r].sawRun = run
         /\ \/ req'[r].kind \in StepKinds /\ req'[r].of \in Steps
            \/ req'[r].kind = "chest"
            \/ req'[r].kind \in CardKinds /\ req'[r].of \in DOMAIN cards
<1> USE DEF money, past
<1>1. /\ req \in [Requests -> ReqRow] /\ run \in RunStatus /\ task \in [Steps -> StepStatus]
      /\ cards \in Seq(CardStatus)
  BY DEF TypeOK, ReqRow
<1>2. ASSUME NEW kind \in Kinds, NEW of \in Steps \cup Nat \cup {None},
             NEW saw \in StepStatus \cup CardStatus \cup {None}, Read(r, kind, of, saw)
      PROVE  /\ UNCHANGED <<active, price, board, money, past>>
             /\ req[r].pc = "idle" /\ req' = [req EXCEPT ![r] = req'[r]] /\ req'[r] \in ReqRow
             /\ req'[r].pc = "read" /\ req'[r].sawRun = run /\ req'[r].kind = kind /\ req'[r].of = of
  <2>1. [pc |-> "read", kind |-> kind, of |-> of, saw |-> saw, sawRun |-> run, value |-> {}] \in ReqRow
    BY <1>1 DEF ReqRow, Amounts
  <2> QED BY <1>1, <1>2, <2>1 DEF Read
<1>3. ASSUME NEW kind \in StepKinds, NEW s \in Steps, AskStep(r, kind, s)
      PROVE  Read(r, kind, s, task[s]) /\ task[s] \in StepStatus /\ kind \in Kinds
  BY <1>1, <1>3 DEF AskStep, Kinds
<1>4. ASSUME NEW kind \in CardKinds, NEW c \in DOMAIN cards, Read(r, kind, c, cards[c])
      PROVE  cards[c] \in CardStatus /\ kind \in Kinds /\ c \in Nat
  BY <1>1, <1>4 DEF Kinds
<1>5. CASE \E kind \in StepKinds, s \in Steps : AskStep(r, kind, s)
  BY <1>2, <1>3, <1>5
<1>6. CASE AskChest(r)
  BY <1>2, <1>6 DEF AskChest, Kinds
<1>7. CASE \E kind \in CardKinds : AskCard(r, kind)
  <2>1. PICK kind \in CardKinds, c \in DOMAIN cards : Read(r, kind, c, cards[c])
    BY <1>7 DEF AskCard
  <2> QED BY <1>2, <1>4, <2>1
<1> QED BY <1>5, <1>6, <1>7 DEF Ask

-----------------------------------------------------------------------------
(* A handed-in run is in somebody's hands.                                 *)

\* One approve at a time holds the family's lock.
LEMMA OneStaysAlone ==
  ASSUME TypeOK, RequestsOK, OneApproves, [Next]_vars
  PROVE  OneApproves'
<1> USE DEF money, past
<1>1. TypeOK /\ RequestsOK /\ req \in [Requests -> ReqRow]
  BY DEF TypeOK, ReqRow
<1>2. ASSUME NEW r \in Requests, Work(r) PROVE OneApproves'
  <2>1. req' = [req EXCEPT ![r] = req'[r]] /\ Moves(r)
    BY <1>1, <1>2, WorkRows, WorkMoves DEF RowsGo
  <2>2. HoldsLock(r)' => HoldsLock(r) \/ ~ Locked
    BY <1>1, <2>1 DEF Moves, HoldsLock, Idle, ReqRow
  <2>3. ~ Locked => \A q \in Requests : ~ HoldsLock(q)
    BY DEF Locked, HoldsLock
  <2>4. \A q \in Requests \ {r} : HoldsLock(q)' => HoldsLock(q)
    BY <1>1, <2>1 DEF HoldsLock
  <2> QED BY <2>2, <2>3, <2>4 DEF OneApproves
<1>3. ASSUME NEW r \in Requests, Ask(r) PROVE OneApproves'
  <2>1. req' = [req EXCEPT ![r] = req'[r]] /\ req'[r].pc = "read"
    BY <1>1, <1>3, AskReads
  <2>2. \A q \in Requests : HoldsLock(q)' => HoldsLock(q)
    BY <1>1, <2>1 DEF HoldsLock
  <2> QED BY <2>2 DEF OneApproves
<1>4. req' = req => OneApproves'
  BY DEF OneApproves, HoldsLock
<1>5. Crash => OneApproves'
  BY DEF Crash, Idle, OneApproves, HoldsLock
<1> QED BY <1>2, <1>3, <1>4, <1>5 DEF Next, Edit, ReadBoard, vars

\* What an approve decided stays decided, where nobody may take it up again.
LEMMA WorkKeepsDecided ==
  ASSUME CardInv, NEW r \in Requests, Work(r)
  PROVE  DecidedStay' /\ (stuck => stuck')
<1> USE DEF money, past
<1>1. /\ TypeOK /\ RequestsOK /\ DecidedStay /\ OneApproves /\ req \in [Requests -> ReqRow]
      /\ cards \in Seq(CardStatus) /\ cut \subseteq DOMAIN cards
      /\ RowsGo(r) /\ MoneyGoes(r) /\ Moves(r) /\ cut' = cut
  BY WorkRows, WorkMoves DEF CardInv, TypeOK, ReqRow, RowsGo
<1>2. /\ stuck => stuck' /\ paid # None /\ paid' # None
      /\ \A q \in Requests \ {r} : req'[q] = req[q]
  BY <1>1, RoutineRunAssumption DEF MoneyGoes, DecidedStay, Armed, RowsGo
<1>3. \A q \in Requests : Paying(q) => q = r \/ ~ HoldsLock(r)
  BY <1>1 DEF OneApproves, HoldsLock, Paying
\* Cards that read approved stay so, but for the one a failed payment brings back.
<1>4. CASE \A c \in DOMAIN cards : cards[c] = "approved" => c \in DOMAIN cards' /\ cards'[c] = "approved"
  <2>1. \A q \in Requests \ {r} : Paying(q)' => cards'[req'[q].of] = "approved" /\ req'[q].of \notin cut'
    BY <1>1, <1>2, <1>4 DEF DecidedStay, Paying, RequestsOK, RequestOK, HoldsLock
  <2>2. Paying(r)' => cards'[req'[r].of] = "approved" /\ req'[r].of \notin cut'
    <3>1. CASE req'[r] = Idle
      BY <3>1 DEF Idle, Paying
    <3>2. ASSUME NEW value, PaysNow(r, value), req[r].of \in DOMAIN cards
          PROVE  cards'[req'[r].of] = "approved" /\ req'[r].of \notin cut'
      <4>1. req'[r].of = req[r].of
        BY <1>1, <3>2 DEF PaysNow, ReqRow
      <4> QED BY <1>1, <3>2, <4>1 DEF PaysNow, DecidedStay
    <3>3. CASE req'[r].pc = "settling" /\ req[r].pc = "paying" /\ req'[r].of = req[r].of
      BY <1>1, <1>4, <3>3 DEF DecidedStay, Paying, RequestsOK, RequestOK, HoldsLock
    <3>4. req[r] \in ReqRow
      BY <1>1
    <3>5. req[r].pc = "read" /\ req[r].kind = "approve" => req[r].of \in DOMAIN cards
      BY <1>1 DEF RequestsOK, RequestOK, CardKinds
    <3>6. req[r].pc = "priced" => req[r].of \in DOMAIN cards
      BY <1>1 DEF RequestsOK, RequestOK, HoldsLock
    <3>7. req'[r] = [req[r] EXCEPT !.pc = "priced", !.value = Worth] => ~ Paying(r)'
      BY <3>4 DEF ReqRow, Paying
    <3>8. req'[r] = [req[r] EXCEPT !.pc = "settling"] => req'[r].pc = "settling" /\ req'[r].of = req[r].of
      BY <3>4 DEF ReqRow
    <3> QED BY <1>1, <3>1, <3>2, <3>3, <3>5, <3>6, <3>7, <3>8 DEF Moves
  <2>3. \A c \in cut' : cards'[c] = "approved"
    BY <1>1, <1>4 DEF DecidedStay
  <2>4. stuck' => paid' # None /\ \E c \in DOMAIN cards' : cards'[c] = "approved"
    <3>1. CASE stuck
      BY <1>1, <1>2, <1>4, <3>1 DEF DecidedStay
    <3>2. CASE stuck' /\ ~ stuck
      <4>1. Paying(r) /\ paid' = Armed(req[r].value)
        BY <1>1, <3>2 DEF MoneyGoes
      <4>2. req[r].of \in DOMAIN cards /\ cards[req[r].of] = "approved"
        BY <1>1, <4>1 DEF DecidedStay, RequestsOK, RequestOK, HoldsLock, Paying
      <4>3. paid' # None
        BY <1>1, <4>1, RoutineRunAssumption DEF Armed, ReqRow, Amounts
      <4> QED BY <1>4, <4>2, <4>3
    <3> QED BY <3>1, <3>2
  <2> QED BY <1>2, <2>1, <2>2, <2>3, <2>4 DEF DecidedStay
<1>5. CASE /\ req[r].pc = "paying" /\ ~ stuck' /\ req'[r] = Idle
           /\ cards' = [cards EXCEPT ![req[r].of] = "pending"]
  <2>1. \A q \in Requests : ~ Paying(q)'
    BY <1>2, <1>3, <1>5 DEF Paying, HoldsLock, Idle
  <2>2. req[r].of \notin cut
    BY <1>1, <1>5 DEF DecidedStay, Paying
  <2> QED BY <1>1, <1>2, <1>5, <2>1, <2>2 DEF DecidedStay
<1>6. \/ \A c \in DOMAIN cards : cards[c] = "approved" => c \in DOMAIN cards' /\ cards'[c] = "approved"
      \/ PayFails(r) /\ ~ stuck' /\ cards' = [cards EXCEPT ![req[r].of] = "pending"]
  <2>1. CASE PayFails(r)
    BY <2>1 DEF PayFails, PayoutRetryIsSafe
  <2>2. CASE Reject(r)
    BY <1>1, <2>2 DEF Reject, board
  <2>3. ASSUME NEW rows, NEW endRun, CompleteRun(rows, endRun)
        PROVE  \A c \in DOMAIN cards : cards[c] = "approved" => c \in DOMAIN cards' /\ cards'[c] = "approved"
    BY <1>1, <2>3 DEF CompleteRun
  <2>4. CASE FinishStep(r) \/ SkipStep(r) \/ OpenChest(r)
    BY <2>3, <2>4 DEF FinishStep, SkipStep, OpenChest
  <2>5. CASE PriceCard(r) \/ DecideCard(r)
    <3>1. cards' = cards \/ cards' = [cards EXCEPT ![req[r].of] = "approved"]
      BY <2>5 DEF PriceCard, DecideCard, Decide
    <3> QED BY <1>1, <3>1
  <2>6. CASE Refuse(r) \/ StartStep(r) \/ NoFunds(r) \/ Pay(r) \/ Settle(r)
    BY <2>6 DEF Refuse, StartStep, NoFunds, Pay, Settle, board
  <2> QED BY <2>1, <2>2, <2>4, <2>5, <2>6 DEF Work
<1>7. PayFails(r) => req[r].pc = "paying" /\ req'[r] = Idle
  BY <1>1, AnswersOnly DEF PayFails
<1> QED BY <1>4, <1>5, <1>6, <1>7

\* A request leaves the run with a card that waits, with itself on the way to pay, or with a
\* payment that must not be made again.
LEMMA WorkInHands ==
  ASSUME CardInv, NEW r \in Requests, Work(r)
  PROVE  InHands'
<1>1. /\ TypeOK /\ RequestsOK /\ InHands /\ req \in [Requests -> ReqRow] /\ cards \in Seq(CardStatus)
      /\ req' = [req EXCEPT ![r] = req'[r]] /\ CardsGo /\ cut' = cut /\ (stuck => stuck')
  BY WorkRows, WorkKeepsDecided DEF CardInv, TypeOK, ReqRow, RowsGo, past
<1>2. CASE run' = run /\ cards' = cards /\ (Paying(r) => Paying(r)')
  BY <1>1, <1>2 DEF InHands, Pending, Paying
<1>3. CASE run' # "done_pending"
  BY <1>3 DEF InHands
<1>4. CASE Pending' # {}
  BY <1>4 DEF InHands
<1>5. CASE Paying(r)'
  BY <1>5 DEF InHands
<1>6. ASSUME NEW rows, NEW endRun, CompleteRun(rows, endRun), ~ Paying(r)
      PROVE  InHands'
  <2>1. CASE ~ Completes(rows, endRun)
    BY <1>2, <1>6, <2>1 DEF CompleteRun
  <2>2. CASE Pending # {}
    BY <1>1, <1>4, <1>6, <1>2, <2>2 DEF CompleteRun, Pending
  <2>3. CASE cards' = Append(cards, "pending")
    <3>1. Len(cards) + 1 \in DOMAIN cards' /\ cards'[Len(cards) + 1] = "pending"
      BY <1>1, <2>3
    <3> QED BY <1>4, <3>1 DEF Pending
  <2> QED BY <1>6, <2>1, <2>2, <2>3 DEF CompleteRun
<1>a. CASE Refuse(r) \/ NoFunds(r) \/ StartStep(r)
  BY <1>2, <1>a DEF Refuse, NoFunds, StartStep, board, Halfway, Paying
<1>b. CASE FinishStep(r) \/ SkipStep(r) \/ OpenChest(r)
  BY <1>6, <1>b DEF FinishStep, SkipStep, OpenChest, Halfway, Paying
<1>c. CASE Reject(r)
  BY <1>2, <1>3, <1>c DEF Reject, Halfway, Paying, board
<1>d. CASE PriceCard(r) \/ DecideCard(r)
  <2>1. req[r].of \in DOMAIN cards /\ ~ Paying(r) /\ req[r].value \in Amounts
    BY <1>1, <1>d DEF PriceCard, DecideCard, Halfway, RequestsOK, RequestOK, CardKinds, HoldsLock, Paying, ReqRow
  <2>2. \/ run' = run /\ cards' = cards
        \/ \E value \in Amounts : Decide(r, value) /\ cards[req[r].of] = "pending"
    BY <1>1, <1>d, <2>1, WorthIsAmount DEF PriceCard, DecideCard
  <2>3. ASSUME NEW value \in Amounts, Decide(r, value), cards[req[r].of] = "pending" PROVE InHands'
    BY <1>1, <1>3, <1>5, <2>1, <2>3, Decided DEF Paying, ReqRow
  <2> QED BY <1>2, <2>1, <2>2, <2>3
<1>e. CASE Pay(r)
  BY <1>1, <1>2, <1>e DEF Pay, board, Paying, ReqRow
<1>f. CASE PayFails(r)
  <2>1. req[r].of \in DOMAIN cards
    BY <1>1, <1>f DEF PayFails, RequestsOK, RequestOK, HoldsLock
  <2>2. CASE Pending = {} /\ ~ stuck'
    <3>1. req[r].of \in Pending'
      BY <1>1, <1>f, <2>1, <2>2 DEF PayFails, PayoutRetryIsSafe, Pending
    <3> QED BY <1>4, <3>1
  <2>4. CASE stuck'
    BY <2>4 DEF InHands
  <2>3. CASE Pending # {}
    BY <1>4, <1>f, <2>3 DEF PayFails, Pending
  <2> QED BY <2>2, <2>3, <2>4
<1>g. CASE Settle(r)
  BY <1>3, <1>g DEF Settle
<1> QED BY <1>a, <1>b, <1>c, <1>d, <1>e, <1>f, <1>g DEF Work

\* Every step keeps the cards in line, whoever overlaps and whatever is edited.
LEMMA CardStep == CardInv /\ [Next]_vars => CardInv'
<1> SUFFICES ASSUME CardInv, [Next]_vars PROVE CardInv'
  OBVIOUS
<1> USE DEF money, past
<1>1. /\ TypeOK /\ RequestsOK /\ OneWaits /\ OneApproves /\ DecidedStay /\ InHands
      /\ req \in [Requests -> ReqRow] /\ OneApproves'
  BY OneStaysAlone DEF CardInv, TypeOK, ReqRow
<1>2. ASSUME NEW r \in Requests, Work(r) PROVE CardInv'
  <2>1. RowsGo(r) /\ Moves(r) /\ MoneyGoes(r)
    BY <1>1, <1>2, WorkRows, WorkMoves
  <2>2. cards' \in Seq(CardStatus) /\ DOMAIN cards \subseteq DOMAIN cards' /\ OneWaits'
    BY <1>1, <2>1, CardsStay DEF RowsGo
  <2>3. TypeOK'
    BY <1>1, <2>1, <2>2 DEF TypeOK, RowsGo, MoneyGoes, ReqRow, Armed
  <2>4. ASSUME NEW q \in Requests PROVE RequestOK(q)'
    <3>1. CASE q # r
      <4>1. req'[q] = req[q] /\ RequestOK(q)
        BY <1>1, <2>1, <3>1 DEF RowsGo, RequestsOK
      <4> QED BY <2>2, <4>1 DEF RequestOK, HoldsLock
    <3>2. CASE q = r /\ req'[r] = Idle
      BY <3>2 DEF Idle, RequestOK, HoldsLock
    <3>3. CASE q = r /\ req'[r] # Idle
      <4>1. req'[r].pc # "read" /\ req'[r].of = req[r].of /\ req[r].of \in DOMAIN cards
        BY <1>1, <2>1, <3>3 DEF Moves, PaysNow, RequestsOK, RequestOK, HoldsLock, CardKinds, ReqRow
      <4> QED BY <2>2, <3>3, <4>1 DEF RequestOK
    <3> QED BY <3>1, <3>2, <3>3
  <2> QED BY <1>1, <1>2, <2>2, <2>3, <2>4, WorkInHands, WorkKeepsDecided DEF CardInv, RequestsOK
<1>3. ASSUME NEW r \in Requests, Ask(r) PROVE CardInv'
  <2>1. /\ UNCHANGED <<active, price, board, money, past>>
        /\ req[r].pc = "idle" /\ req' = [req EXCEPT ![r] = req'[r]] /\ req'[r] \in ReqRow
        /\ req'[r].pc = "read"
        /\ \/ req'[r].kind \in StepKinds /\ req'[r].of \in Steps
           \/ req'[r].kind = "chest"
           \/ req'[r].kind \in CardKinds /\ req'[r].of \in DOMAIN cards
    BY <1>1, <1>3, AskReads
  <2>2. TypeOK'
    BY <1>1, <2>1 DEF TypeOK, ReqRow, board
  <2>3. RequestsOK'
    BY <1>1, <2>1 DEF RequestsOK, RequestOK, HoldsLock, StepKinds, CardKinds, Kinds, board
  <2>4. OneWaits' /\ InHands' /\ DecidedStay'
    BY <1>1, <2>1 DEF OneWaits, InHands, DecidedStay, Pending, Paying, board
  <2> QED BY <1>1, <2>2, <2>3, <2>4 DEF CardInv
<1>4. CASE Edit
  <2>1. UNCHANGED <<board, money, cut, req, crashes>> /\ edits' = edits + 1 /\ edits < MaxEdits
    BY <1>4 DEF Edit
  <2>2. active' \subseteq Steps /\ price' \in [Steps -> Prices]
    BY <1>1, <1>4 DEF Edit, TypeOK
  <2>3. edits' \in 0 .. MaxEdits
    BY <1>1, <2>1, RoutineRunAssumption DEF TypeOK
  <2> QED BY <1>1, <2>1, <2>2, <2>3
          DEF CardInv, TypeOK, RequestsOK, RequestOK, HoldsLock, OneWaits, DecidedStay, InHands, Pending, Paying, board
<1>5. CASE ReadBoard
  <2>1. Reconciled \in [Steps -> StepStatus]
    BY <1>1 DEF Reconciled, TypeOK, StepStatus, OpenStatus
  <2> QED BY <1>1, <1>5, <2>1
          DEF ReadBoard, CardInv, TypeOK, RequestsOK, RequestOK, HoldsLock, OneWaits, DecidedStay, InHands, Pending, Paying
<1>6. CASE UNCHANGED vars
  BY <1>1, <1>6 DEF vars, board, CardInv, TypeOK, RequestsOK, RequestOK, HoldsLock, OneWaits, DecidedStay, InHands, Pending, Paying
<1>7. CASE Crash
  <2>1. /\ UNCHANGED <<active, price, board, edits>> /\ crashes' \in 0 .. MaxCrashes
        /\ \A r \in Requests : req'[r] = Idle
        /\ cut' = cut \cup {req[r].of : r \in {q \in Requests : Paying(q)}}
    BY <1>1, <1>7, RoutineRunAssumption DEF Crash, TypeOK, Paying
  <2>2. \/ UNCHANGED money
        \/ \E r \in Requests : Paying(r) /\ MoneyGoes(r) /\ paid = None /\ paid' = req[r].value
    BY <1>7 DEF Crash, LeftUnsettled, MoneyGoes, Paying, Armed
  <2>3. \A r \in Requests : Paying(r) => req[r].of \in DOMAIN cards /\ cards[req[r].of] = "approved"
    BY <1>1 DEF DecidedStay, RequestsOK, RequestOK, HoldsLock, Paying
  <2>4. TypeOK'
    <3>1. req' \in [Requests -> ReqRow]
      BY <1>7 DEF Crash, Idle, ReqRow, Amounts
    <3> QED BY <1>1, <2>1, <2>2, <2>3, <3>1 DEF TypeOK, MoneyGoes, ReqRow, board
  <2>5. DecidedStay'
    <3>1. \A r \in Requests : ~ Paying(r)'
      BY <2>1 DEF Paying, Idle
    <3>2. \A c \in cut' : cards'[c] = "approved"
      BY <1>1, <2>1, <2>3 DEF DecidedStay, board
    <3>3. stuck' => paid' # None /\ \E c \in DOMAIN cards' : cards'[c] = "approved"
      <4>1. CASE UNCHANGED money
        BY <1>1, <2>1, <4>1 DEF DecidedStay, board
      <4>2. ASSUME NEW r \in Requests, Paying(r), paid' = req[r].value
            PROVE  paid' # None /\ \E c \in DOMAIN cards' : cards'[c] = "approved"
        BY <1>1, <2>1, <2>3, <4>2, RoutineRunAssumption DEF ReqRow, Amounts, board
      <4> QED BY <2>2, <4>1, <4>2
    <3> QED BY <3>1, <3>2, <3>3 DEF DecidedStay
  <2>6. InHands'
    <3>1. CASE \E r \in Requests : Paying(r)
      BY <2>1, <3>1 DEF InHands
    <3>2. CASE ~ \E r \in Requests : Paying(r)
      BY <1>1, <2>1, <2>2, <3>2 DEF InHands, Pending, board
    <3> QED BY <3>1, <3>2
  <2>7. RequestsOK' /\ OneWaits'
    BY <1>1, <2>1 DEF RequestsOK, RequestOK, HoldsLock, Idle, OneWaits, Pending, board
  <2> QED BY <1>1, <2>4, <2>5, <2>6, <2>7 DEF CardInv
<1> QED BY <1>2, <1>3, <1>4, <1>5, <1>6, <1>7 DEF Next

\* The rows a run starts with are in line.
LEMMA CardInit == Init => CardInv
<1> SUFFICES ASSUME Init PROVE CardInv
  OBVIOUS
<1>1. /\ active \subseteq Steps /\ edits \in 0 .. MaxEdits /\ run = "in_progress" /\ run \in RunStatus
      /\ cards = <<>> /\ paid = None /\ stuck = FALSE /\ cut = {} /\ crashes \in 0 .. MaxCrashes
  BY RoutineRunAssumption DEF Init, RunStatus
<1>2. price \in [Steps -> Prices]
  <2>1. (CHOOSE p \in Prices : TRUE) \in Prices
    BY RoutineRunAssumption
  <2> QED BY <2>1 DEF Init
<1>3. task \in [Steps -> StepStatus]
  BY DEF Init, StepStatus, OpenStatus
<1>4. req \in [Requests -> ReqRow] /\ \A r \in Requests : req[r].pc = "idle"
  <2>1. Idle \in ReqRow /\ Idle.pc = "idle"
    BY DEF Idle, ReqRow, Amounts
  <2> QED BY <2>1 DEF Init
<1>5. TypeOK
  <2>1. cards \in Seq(CardStatus)
    BY <1>1
  <2>2. cut \subseteq DOMAIN cards /\ stuck \in BOOLEAN
    BY <1>1, Zenon
  <2> QED BY <1>1, <1>2, <1>3, <1>4, <2>1, <2>2 DEF TypeOK, ReqRow
<1>6. RequestsOK /\ OneWaits /\ OneApproves /\ DecidedStay /\ InHands
  BY <1>1, <1>4 DEF RequestsOK, RequestOK, HoldsLock, Paying, OneWaits, OneApproves, DecidedStay, InHands, Pending
<1> QED BY <1>5, <1>6 DEF CardInv

\* Whatever overlaps, is edited, fails or is sent back: the rows keep their types, a request
\* names what is there, one card waits at most, and a run handed in is in somebody's hands.
THEOREM CardInvariant == Spec => []CardInv
<1>1. Init => CardInv
  BY CardInit
<1>2. CardInv /\ [Next]_vars => CardInv'
  BY CardStep
<1> QED BY <1>1, <1>2, PTL DEF Spec

\* No run handed in is ever without a card that a screen shows, nor has it two, even where
\* the handlers of steps run inside one another (openApproval, completeRunIfFinished) -- but
\* for one whose payment may have landed and must not be made again, or whose approve was cut
\* short by a crash (decideAndApply).
THEOREM NoRunIsLost == Spec => []HandedInHasACard
<1>1. CardInv => HandedInHasACard
  <2> SUFFICES ASSUME CardInv PROVE HandedInHasACard
    OBVIOUS
  <2>1. Pending = {} \/ \E c \in Pending : Pending = {c}
    BY DEF CardInv, OneWaits
  <2>2. Cardinality(Pending) \in {0, 1}
    <3>1. CASE Pending = {}
      BY <3>1, FS_EmptySet
    <3>2. ASSUME NEW c \in Pending, Pending = {c} PROVE Cardinality(Pending) = 1
      BY <3>2, FS_Singleton
    <3> QED BY <2>1, <3>1, <3>2
  <2>3. stuck \/ cut # {} => \E c \in DOMAIN cards : Stranded(c)
    BY DEF CardInv, TypeOK, DecidedStay, Stranded
  <2> QED BY <2>2, <2>3 DEF CardInv, InHands, Paying, HandedInHasACard
<1> QED BY <1>1, CardInvariant, PTL

-----------------------------------------------------------------------------
(* Side quests.                                                            *)

\* A run that ends without the chest has no side quest open, so it gives none up.
LEMMA EndsByItself ==
  ASSUME NEW rows \in [Steps -> StepStatus], CompleteRun(rows, FALSE)
  PROVE  task' = rows
<1>1. Completes(rows, FALSE) => Passed(rows) = rows
  BY DEF Completes, Passed
<1> QED BY <1>1 DEF CompleteRun

\* A side quest is given up by a request to open the chest and by nothing else, even where
\* handlers run inside one another (the comment above completeRunIfFinished).
THEOREM SideQuestsStayTheKids == Spec => SideQuestIsNoTrap
<1> USE DEF money, past
<1> DEFINE GivenUp == (\E s \in Steps : task[s] # "passed" /\ task'[s] = "passed")
                        => \E r \in Requests : req[r].kind = "chest" /\ req'[r] = Idle
<1>1. ASSUME CardInv, [Next]_vars PROVE GivenUp
  <2>1. TypeOK /\ task \in [Steps -> StepStatus]
    BY <1>1 DEF CardInv, TypeOK
  <2>2. CASE task' = task
    BY <2>2
  <2>3. ASSUME NEW r \in Requests, Work(r), task' # task PROVE GivenUp
    <3>1. CASE StartStep(r)
      BY <2>1, <3>1 DEF StartStep, Write
    <3>2. ASSUME NEW rows \in [Steps -> StepStatus], CompleteRun(rows, FALSE),
                 \A s \in Steps : rows[s] \in {task[s], "done", "skipped"}
          PROVE  GivenUp
      BY <3>2, EndsByItself
    <3>3. CASE FinishStep(r)
      <4>1. Write(req[r].of, "done") \in [Steps -> StepStatus]
        BY <2>1, Written DEF StepStatus, OverStatus
      <4>2. \A s \in Steps : Write(req[r].of, "done")[s] \in {task[s], "done"}
        BY <2>1 DEF Write
      <4> QED BY <3>2, <3>3, <4>1, <4>2 DEF FinishStep
    <3>4. CASE SkipStep(r)
      <4>1. Write(req[r].of, "skipped") \in [Steps -> StepStatus]
        BY <2>1, Written DEF StepStatus, OverStatus
      <4>2. \A s \in Steps : Write(req[r].of, "skipped")[s] \in {task[s], "skipped"}
        BY <2>1 DEF Write
      <4> QED BY <2>1, <3>2, <3>4, <4>1, <4>2 DEF SkipStep
    <3>5. CASE OpenChest(r)
      BY <2>1, <3>5, AnswersOnly DEF OpenChest, Halfway
    <3> QED BY <2>3, <3>1, <3>3, <3>4, <3>5 DEF Work, Refuse, Reject, PriceCard, NoFunds, DecideCard,
            Pay, PayFails, Settle, board
  <2>4. CASE ReadBoard
    BY <2>1, <2>4 DEF ReadBoard, Reconciled
  <2>5. ASSUME NEW r \in Requests, Ask(r) PROVE task' = task
    BY <2>1, <2>5, AskReads DEF board
  <2>6. Edit \/ Crash \/ UNCHANGED vars => task' = task
    BY DEF Edit, Crash, vars, board
  <2> QED BY <1>1, <2>2, <2>3, <2>4, <2>5, <2>6 DEF Next
<1> QED BY <1>1, CardInvariant, PTL DEF Spec, SideQuestIsNoTrap

-----------------------------------------------------------------------------
(* The board does not move while its card waits.                           *)

\* Nobody edits what a step is worth.
FixedPrices == \A p, q \in Prices : p = q

\* A request about a step that overlaps nobody has nobody beside it.
LEMMA StepsAreAlone ==
  ASSUME Overlaps \subseteq CardKinds, NEW r \in Requests, Alone(r),
         NEW q \in Requests \ {r}, req[q].pc = "read"
  PROVE  req[q].kind \in CardKinds
  BY DEF Alone, Halved

\* With one price, an edit prices nothing anew.
LEMMA PricesStay ==
  ASSUME FixedPrices, TypeOK, Edit
  PROVE  price' = price
  BY DEF Edit, FixedPrices, TypeOK

\* A handed-in run keeps its steps: its board is not brought in line, and what was read of
\* the run before a write is still true of it.
LEMMA BoardFrozen ==
  ASSUME FixedPrices, CardInv, ReadsHold, [Next]_vars, run # "in_progress"
  PROVE  /\ task' = task /\ price' = price
         /\ (run' # run => run' = "approved" \/ (run' = "in_progress" /\ paid = None))
<1> USE DEF money, past
<1>1. TypeOK /\ RequestsOK /\ run \in RunStatus
  BY DEF CardInv, TypeOK
<1>2. ASSUME NEW r \in Requests, Work(r)
      PROVE  /\ task' = task /\ price' = price
             /\ (run' # run => run' = "approved" \/ (run' = "in_progress" /\ paid = None))
  <2>1. price' = price
    BY <1>1, <1>2, WorkRows DEF RowsGo
  <2>2. ASSUME req[r].pc = "read", req[r].kind \notin CardKinds PROVE Refused(r) /\ req[r].kind \in Kinds
    BY <1>1, <2>2 DEF ReadsHold, RequestsOK, RequestOK, Refused, RunSubmitted, Kinds, StepKinds, CardKinds
  <2>3. ~ (StartStep(r) \/ FinishStep(r) \/ SkipStep(r) \/ OpenChest(r))
    BY <2>2 DEF StartStep, FinishStep, SkipStep, OpenChest, Halfway, CardKinds
  <2>4. task' = task
    BY <1>2, <2>3 DEF Work, Refuse, Reject, PriceCard, NoFunds, DecideCard, Pay, PayFails, Settle, board
  <2>5. run' # run => run' = "approved" \/ (run' = "in_progress" /\ paid = None)
    BY <1>2, <2>3 DEF Work, Refuse, Reject, PriceCard, NoFunds, DecideCard, Decide, Pay, PayFails, Settle, board,
                     PayoutMayHaveLanded
  <2> QED BY <2>1, <2>4, <2>5
<1>3. ASSUME NEW r \in Requests, Ask(r) PROVE UNCHANGED <<task, price, run>>
  BY <1>1, <1>3, AskReads DEF board
<1>4. Edit => UNCHANGED <<task, price, run>>
  BY <1>1, PricesStay DEF Edit, board
<1>5. ~ ReadBoard
  BY DEF ReadBoard
<1>6. UNCHANGED vars \/ Crash => UNCHANGED <<task, price, run>>
  BY DEF vars, Crash, board
<1> QED BY <1>2, <1>3, <1>4, <1>5, <1>6 DEF Next

\* So it keeps its worth.
LEMMA WorthFrozen ==
  ASSUME FixedPrices, CardInv, ReadsHold, [Next]_vars, run # "in_progress"
  PROVE  Worth' = Worth
  BY BoardFrozen DEF Worth, Done

\* A step of a request keeps what the others read of the run.
LEMMA ReadsStayTrue ==
  ASSUME Overlaps \subseteq CardKinds, CardInv, ReadsHold, [Next]_vars
  PROVE  ReadsHold'
<1> USE DEF money, past
<1>1. TypeOK /\ RequestsOK /\ req \in [Requests -> ReqRow]
  BY DEF CardInv, TypeOK, ReqRow
<1>2. ASSUME NEW r \in Requests, Work(r) PROVE ReadsHold'
  <2>1. req' = [req EXCEPT ![r] = req'[r]] /\ Moves(r) /\ Alone(r)
    BY <1>1, <1>2, WorkRows, WorkMoves DEF RowsGo, Work, Refuse, StartStep, FinishStep, SkipStep, OpenChest, Reject,
       PriceCard, NoFunds, DecideCard, Pay, PayFails, Settle, Halfway
  <2>2. req'[r].pc # "read"
    <3>1. req[r] \in ReqRow /\ Idle.pc = "idle"
      BY <1>1 DEF Idle
    <3>2. \A value : /\ [req[r] EXCEPT !.pc = "priced", !.value = value].pc = "priced"
                     /\ [req[r] EXCEPT !.pc = "paying", !.value = value].pc = "paying"
                     /\ [req[r] EXCEPT !.pc = "settling"].pc = "settling"
      BY <3>1 DEF ReqRow
    <3>3. CASE req'[r] = Idle
      BY <3>1, <3>3
    <3>4. CASE req'[r] = [req[r] EXCEPT !.pc = "priced", !.value = Worth]
      BY <3>2, <3>4
    <3>5. ASSUME NEW value, PaysNow(r, value) PROVE req'[r].pc = "paying"
      BY <3>2, <3>5 DEF PaysNow
    <3>6. CASE req'[r] = [req[r] EXCEPT !.pc = "settling"]
      BY <3>2, <3>6
    <3> QED BY <2>1, <3>3, <3>4, <3>5, <3>6 DEF Moves
  <2>3. ASSUME NEW q \in Requests \ {r}, req[q].pc = "read" PROVE req[q].kind \in CardKinds
    BY <2>1, <2>3, StepsAreAlone
  <2> QED BY <1>1, <2>1, <2>2, <2>3 DEF ReadsHold
<1>3. ASSUME NEW r \in Requests, Ask(r) PROVE ReadsHold'
  BY <1>1, <1>3, AskReads DEF ReadsHold, board
<1>4. UNCHANGED <<run, req>> => ReadsHold'
  BY DEF ReadsHold
<1>5. Crash => ReadsHold'
  BY DEF Crash, Idle, ReadsHold
<1> QED BY <1>2, <1>3, <1>4, <1>5 DEF Next, Edit, ReadBoard, vars, board

-----------------------------------------------------------------------------
(* What is paid is what the run shows.                                     *)

\* A card waits only for a run that is handed in.
LEMMA CardsWaitStep ==
  ASSUME Overlaps \subseteq CardKinds, FixedPrices, PayInv, [Next]_vars
  PROVE  CardsWaitForRuns'
<1> USE DEF money, past
<1>1. TypeOK /\ RequestsOK /\ req \in [Requests -> ReqRow] /\ cards \in Seq(CardStatus)
  BY DEF PayInv, CardInv, TypeOK, ReqRow
<1>2. CASE run' = run /\ cards' = cards
  BY <1>2 DEF PayInv, CardsWaitForRuns, Pending
<1>3. CASE Pending' = {} \/ run' = "done_pending"
  BY <1>3 DEF CardsWaitForRuns
<1>4. ASSUME NEW rows, NEW endRun, CompleteRun(rows, endRun) PROVE CardsWaitForRuns'
  BY <1>2, <1>3, <1>4 DEF CompleteRun
<1>5. ASSUME NEW c \in DOMAIN cards, NEW status \in {"approved", "rejected"}, cards[c] = "pending",
             cards' = [cards EXCEPT ![c] = status]
      PROVE  Pending' = {}
  BY <1>1, <1>5 DEF PayInv, CardInv, OneWaits, Pending
<1>6. ASSUME NEW r \in Requests, Work(r) PROVE CardsWaitForRuns'
  <2>a. CASE Refuse(r) \/ NoFunds(r) \/ StartStep(r) \/ Pay(r)
    BY <1>2, <2>a DEF Refuse, NoFunds, StartStep, Pay, board
  <2>b. CASE FinishStep(r) \/ SkipStep(r) \/ OpenChest(r)
    BY <1>4, <2>b DEF FinishStep, SkipStep, OpenChest
  <2>c. CASE Reject(r)
    <3>1. req[r].of \in DOMAIN cards
      BY <1>1, <2>c DEF Reject, Halfway, RequestsOK, RequestOK, CardKinds
    <3> QED BY <1>2, <1>3, <1>5, <2>c, <3>1 DEF Reject, board
  <2>d. CASE PriceCard(r) \/ DecideCard(r)
    <3>1. req[r].of \in DOMAIN cards
      BY <1>1, <2>d DEF PriceCard, DecideCard, Halfway, RequestsOK, RequestOK, CardKinds, HoldsLock
    <3>2. \/ run' = run /\ cards' = cards
          \/ cards[req[r].of] = "pending" /\ cards' = [cards EXCEPT ![req[r].of] = "approved"]
      BY <2>d DEF PriceCard, DecideCard, Decide
    <3> QED BY <1>2, <1>3, <1>5, <3>1, <3>2
  <2>e. CASE PayFails(r)
    <3>1. run' = run /\ run = "done_pending"
      BY <2>e DEF PayFails, PayInv, ApproversOK, ApproverOK, Paying
    <3> QED BY <1>3, <3>1
  <2>f. CASE Settle(r)
    <3>1. Pending = {} /\ cards' = cards
      BY <2>f DEF Settle, PayInv, ApproversOK, ApproverOK, Paying
    <3> QED BY <1>3, <3>1 DEF Pending
  <2> QED BY <1>6, <2>a, <2>b, <2>c, <2>d, <2>e, <2>f DEF Work
<1>7. ASSUME NEW r \in Requests, Ask(r) PROVE CardsWaitForRuns'
  BY <1>1, <1>2, <1>7, AskReads DEF board
<1> QED BY <1>2, <1>6, <1>7 DEF Next, Edit, ReadBoard, Crash, vars, board

\* What may have landed stays what the run is worth, and keeps the run from being taken back.
LEMMA PaidStep ==
  ASSUME Overlaps \subseteq CardKinds, FixedPrices, PayInv, [Next]_vars
  PROVE  PaidIsWorth'
<1> USE DEF money, past
<1>1. TypeOK /\ RequestsOK /\ run \in RunStatus /\ CardInv /\ ReadsHold
  BY DEF PayInv, CardInv, TypeOK
<1>2. run # "in_progress" => Worth' = Worth
  BY <1>1, WorthFrozen
<1>3. run # "in_progress" => run' \in {run, "approved"} \/ paid = None
  BY <1>1, BoardFrozen
<1>4. CASE paid' = paid
  BY <1>1, <1>2, <1>3, <1>4 DEF PayInv, PaidIsWorth, RunStatus
<1>5. CASE paid' # paid
  <2>1. PICK r \in Requests : (Work(r) \/ Crash) /\ Paying(r) /\ paid' = Armed(req[r].value)
    <3>1. \A r \in Requests : Ask(r) => paid' = paid
      BY <1>1, AskReads
    <3>2. CASE Crash
      BY <1>5, <3>2 DEF Crash, LeftUnsettled, Armed, Paying
    <3>3. CASE ~ Crash
      <4>1. PICK r \in Requests : Work(r)
        BY <1>5, <3>1, <3>3 DEF Next, Edit, ReadBoard, vars
      <4> QED BY <1>1, <1>5, <4>1, WorkRows DEF MoneyGoes
    <3> QED BY <3>2, <3>3
  <2>2. paid = None /\ paid' = Worth /\ run = "done_pending"
    BY <1>5, <2>1 DEF PayInv, ApproversOK, ApproverOK, Armed
  <2>3. run' = run
    BY <1>5, <2>1 DEF Work, Refuse, StartStep, FinishStep, SkipStep, OpenChest, Reject, PriceCard, NoFunds, DecideCard,
       Pay, PayFails, Settle, Crash, board
  <2> QED BY <1>2, <2>2, <2>3 DEF PaidIsWorth
<1> QED BY <1>4, <1>5

\* An approve carries what the run is worth until it is answered.
LEMMA ApproversStep ==
  ASSUME Overlaps \subseteq CardKinds, FixedPrices, PayInv, [Next]_vars
  PROVE  ApproversOK'
<1> USE DEF money, past
<1>1. /\ TypeOK /\ RequestsOK /\ CardInv /\ ReadsHold /\ OneApproves /\ req \in [Requests -> ReqRow]
      /\ cards \in Seq(CardStatus) /\ run \in RunStatus /\ Worth \in Amounts
  BY WorthIsAmount DEF PayInv, CardInv, TypeOK, ReqRow
<1>2. run # "in_progress" => Worth' = Worth
  BY <1>1, WorthFrozen
<1>3. Pending # {} => run = "done_pending"
  BY DEF PayInv, CardsWaitForRuns
<1>4. \A q \in Requests : Paying(q) => run = "done_pending" /\ Pending = {}
  BY DEF PayInv, ApproversOK, ApproverOK
<1>5. ASSUME NEW q \in Requests, req'[q] = req[q], cards' = cards, run' = run, paid' = paid \/ paid' # None
      PROVE  ApproverOK(q)'
  <2>1. CASE req[q].pc = "priced" /\ cards[req[q].of] = "pending"
    <3>1. req[q].of \in Pending
      BY <1>1, <2>1 DEF RequestsOK, RequestOK, HoldsLock, Pending
    <3> QED BY <1>2, <1>3, <1>5, <2>1, <3>1 DEF PayInv, ApproversOK, ApproverOK, Paying
  <2>2. CASE ~ (req[q].pc = "priced" /\ cards[req[q].of] = "pending")
    BY <1>2, <1>4, <1>5, <2>2 DEF PayInv, ApproversOK, ApproverOK, Paying, Pending
  <2> QED BY <2>1, <2>2
\* A request that is not past its read has nothing to carry.
<1>6. ASSUME NEW q \in Requests, ~ HoldsLock(q)' PROVE ApproverOK(q)'
  BY <1>6 DEF ApproverOK, HoldsLock, Paying
<1>7. ASSUME NEW r \in Requests, Work(r), NEW q \in Requests \ {r}, HoldsLock(q) PROVE ApproverOK(q)'
  <2>1. req' = [req EXCEPT ![r] = req'[r]] /\ Alone(r) /\ req'[q] = req[q]
    BY <1>1, <1>7, WorkRows DEF RowsGo, Work, Refuse, StartStep, FinishStep, SkipStep, OpenChest, Reject,
       PriceCard, NoFunds, DecideCard, Pay, PayFails, Settle, Halfway
  <2>2. ~ HoldsLock(r) /\ Locked /\ req[q].of \in DOMAIN cards
    BY <1>1, <1>7 DEF OneApproves, Locked, HoldsLock, RequestsOK, RequestOK
  <2>3. paid' = paid
    BY <1>1, <1>7, <2>2, WorkRows DEF MoneyGoes, Paying, HoldsLock
  <2>4. CASE cards' = cards /\ run' = run
    BY <1>5, <2>1, <2>3, <2>4
  <2>5. ASSUME NEW rows, NEW endRun, CompleteRun(rows, endRun), run = "in_progress" PROVE ApproverOK(q)'
    <3>1. Pending = {} /\ ~ Paying(q) /\ cards[req[q].of] # "pending"
      BY <1>3, <1>4, <2>2, <2>5 DEF Pending
    <3>2. cards'[req[q].of] = cards[req[q].of]
      BY <1>1, <2>2, <2>5 DEF CompleteRun
    <3> QED BY <2>1, <3>1, <3>2 DEF ApproverOK, Paying
  <2>6. ASSUME req[r].pc = "read", req[r].kind \notin CardKinds, ~ Refused(r) PROVE run = "in_progress"
    BY <1>1, <2>6 DEF ReadsHold, RequestsOK, RequestOK, Refused, RunSubmitted, Kinds, StepKinds, CardKinds
  <2>7. CASE FinishStep(r) \/ SkipStep(r) \/ OpenChest(r)
    BY <2>5, <2>6, <2>7 DEF FinishStep, SkipStep, OpenChest, Halfway, CardKinds
  <2>8. CASE Reject(r)
    <3>1. req[r].of \in DOMAIN cards
      BY <1>1, <2>8 DEF Reject, Halfway, RequestsOK, RequestOK, CardKinds
    <3>2. CASE cards[req[r].of] = "pending" /\ cards' = [cards EXCEPT ![req[r].of] = "rejected"]
      <4>1. req[r].of \in Pending /\ ~ Paying(q)
        BY <1>4, <3>1, <3>2 DEF Pending
      <4>2. cards'[req[q].of] # "pending"
        BY <1>1, <2>2, <3>1, <3>2, <4>1 DEF CardInv, OneWaits, Pending
      <4> QED BY <2>1, <4>1, <4>2 DEF ApproverOK, Paying
    <3> QED BY <2>4, <2>8, <3>2 DEF Reject, board
  <2>9. CASE Refuse(r) \/ StartStep(r)
    BY <2>4, <2>9 DEF Refuse, StartStep, board
  <2> QED BY <1>7, <2>2, <2>7, <2>8, <2>9 DEF Work, PriceCard, NoFunds, DecideCard, Pay, PayFails, Settle, HoldsLock
<1>8. ASSUME NEW r \in Requests, Work(r) PROVE ApproverOK(r)'
  <2>1. Moves(r) /\ req[r] \in ReqRow
    BY <1>1, <1>8, WorkMoves
  <2>2. CASE req'[r] = Idle
    BY <1>6, <2>2 DEF Idle, HoldsLock
  <2>3. ASSUME NEW value \in Amounts, PaysNow(r, value), UNCHANGED <<task, money>>, value = Worth,
               req[r].of \in DOMAIN cards
        PROVE  ApproverOK(r)'
    <3>1. /\ req'[r].pc = "paying" /\ req'[r].value = value /\ req'[r].of = req[r].of
          /\ cards[req[r].of] = "pending" /\ cards' = [cards EXCEPT ![req[r].of] = "approved"] /\ run' = run
      BY <2>1, <2>3 DEF PaysNow, ReqRow
    <3>2. run = "done_pending" /\ Pending' = {} /\ cards'[req[r].of] = "approved"
      BY <1>1, <1>3, <2>3, <3>1 DEF CardInv, OneWaits, Pending
    <3> QED BY <1>2, <2>3, <3>1, <3>2 DEF ApproverOK, Paying
  <2>4. CASE /\ req[r].pc = "read" /\ req[r].kind = "approve" /\ UNCHANGED <<board, money>>
             /\ req'[r] = [req[r] EXCEPT !.pc = "priced", !.value = Worth]
    <3>1. req'[r].pc = "priced" /\ req'[r].value = Worth /\ req'[r].of = req[r].of
      BY <2>1, <2>4 DEF ReqRow
    <3>2. cards[req[r].of] = "pending" => run = "done_pending"
      BY <1>1, <1>3, <2>4 DEF RequestsOK, RequestOK, CardKinds, Pending
    <3> QED BY <1>2, <2>4, <3>1, <3>2 DEF ApproverOK, Paying, board
  <2>5. CASE req[r].pc = "read" /\ req[r].kind = "approve" /\ UNCHANGED <<task, money>> /\ PaysNow(r, Worth)
    BY <1>1, <2>3, <2>5 DEF RequestsOK, RequestOK, CardKinds
  <2>6. CASE req[r].pc = "priced" /\ UNCHANGED <<task, money>> /\ PaysNow(r, req[r].value)
    BY <1>1, <2>1, <2>3, <2>6 DEF RequestsOK, RequestOK, HoldsLock, PaysNow, PayInv, ApproversOK, ApproverOK, ReqRow
  <2>7. CASE /\ req[r].pc = "paying" /\ UNCHANGED board /\ paid' = Armed(req[r].value)
             /\ req'[r] = [req[r] EXCEPT !.pc = "settling"]
    <3>1. req'[r].pc = "settling" /\ req'[r].value = req[r].value /\ req'[r].of = req[r].of
      BY <2>1, <2>7 DEF ReqRow
    <3>2. paid' # None
      BY <2>1, <2>7, RoutineRunAssumption DEF Armed, ReqRow, Amounts
    <3> QED BY <1>2, <2>7, <3>1, <3>2 DEF PayInv, ApproversOK, ApproverOK, Paying, Pending, board
  <2> QED BY <2>1, <2>2, <2>4, <2>5, <2>6, <2>7 DEF Moves
<1>9. ASSUME NEW r \in Requests, Work(r) PROVE ApproversOK'
  <2>1. \A q \in Requests \ {r} : req'[q] = req[q]
    BY <1>1, <1>9, WorkRows DEF RowsGo
  <2>2. \A q \in Requests \ {r} : ~ HoldsLock(q) => ~ HoldsLock(q)'
    BY <2>1 DEF HoldsLock
  <2> QED BY <1>6, <1>7, <1>8, <1>9, <2>2 DEF ApproversOK
<1>10. ASSUME NEW r \in Requests, Ask(r) PROVE ApproversOK'
  <2>1. req' = [req EXCEPT ![r] = req'[r]] /\ req'[r].pc = "read" /\ UNCHANGED <<board, money>>
    BY <1>1, <1>10, AskReads
  <2>2. ~ HoldsLock(r)' /\ \A q \in Requests \ {r} : req'[q] = req[q]
    BY <1>1, <2>1 DEF HoldsLock
  <2> QED BY <1>5, <1>6, <2>1, <2>2 DEF ApproversOK, board
<1>11. UNCHANGED <<run, cards, paid, req>> => ApproversOK'
  BY <1>5 DEF ApproversOK
<1>12. Crash => ApproversOK'
  BY <1>6 DEF Crash, Idle, HoldsLock, ApproversOK
<1> QED BY <1>9, <1>10, <1>11, <1>12 DEF Next, Edit, ReadBoard, vars, board

\* A run becomes approved when its payment is settled, or when there is nothing to pay.
LEMMA ApprovedStep ==
  ASSUME Overlaps \subseteq CardKinds, FixedPrices, PayInv, [Next]_vars
  PROVE  PaidForWhatIsDone'
<1> USE DEF money, past
<1>1. /\ TypeOK /\ RequestsOK /\ CardInv /\ ReadsHold /\ PaidIsWorth' /\ req \in [Requests -> ReqRow]
      /\ Worth \in Amounts
  BY PaidStep, WorthIsAmount DEF PayInv, CardInv, TypeOK, ReqRow
<1>2. run # "in_progress" => Worth' = Worth
  BY <1>1, WorthFrozen
<1>3. SUFFICES ASSUME run' = "approved", paid' = None PROVE Worth' = {}
  BY <1>1 DEF PaidForWhatIsDone, PaidIsWorth
<1>4. paid = None
  <2>1. ASSUME NEW r \in Requests, Work(r) PROVE paid = None
    <3>1. Paying(r) => req[r].value # None /\ req[r].value \in Amounts
      BY <1>1, RoutineRunAssumption DEF ReqRow, Amounts
    <3> QED BY <1>1, <1>3, <2>1, <3>1, WorkRows DEF MoneyGoes, Armed
  <2>2. \A r \in Requests : Ask(r) => paid' = paid
    BY <1>1, AskReads
  <2>3. Crash => paid = None
    BY <1>1, <1>3, RoutineRunAssumption DEF Crash, LeftUnsettled, ReqRow, Amounts
  <2> QED BY <1>3, <2>1, <2>2, <2>3 DEF Next, Edit, ReadBoard, vars
<1>5. CASE run = "approved"
  BY <1>2, <1>4, <1>5 DEF PayInv, PaidForWhatIsDone
<1>6. CASE run # "approved"
  <2>1. PICK r \in Requests : Work(r)
    <3>1. \A r \in Requests : Ask(r) => run' = run
      BY <1>1, AskReads DEF board
    <3> QED BY <1>3, <1>6, <3>1 DEF Next, Edit, ReadBoard, Crash, vars, board
  <2>2. ~ Settle(r)
    BY <1>4 DEF Settle, PayInv, ApproversOK, ApproverOK
  <2>3. (PriceCard(r) /\ Decide(r, Worth)) \/ (DecideCard(r) /\ Decide(r, req[r].value))
    BY <1>3, <1>6, <2>1, <2>2 DEF Work, Refuse, StartStep, FinishStep, SkipStep, OpenChest, CompleteRun, Reject, PriceCard,
       NoFunds, DecideCard, Pay, PayFails, board
  <2>4. cards[req[r].of] = "pending" /\ req[r].of \in DOMAIN cards
    BY <1>1, <1>3, <1>6, <2>3 DEF PriceCard, DecideCard, Halfway, RequestsOK, RequestOK, HoldsLock, CardKinds
  <2>5. run = "done_pending"
    BY <2>4 DEF PayInv, CardsWaitForRuns, Pending
  <2>6. \E value \in {Worth} : Decide(r, value)
    BY <2>3, <2>4 DEF DecideCard, PayInv, ApproversOK, ApproverOK
  <2> QED BY <1>2, <1>3, <1>6, <2>5, <2>6 DEF Decide
<1> QED BY <1>5, <1>6

\* It holds of a run that just began.
LEMMA PayInit == Init => PayInv
<1> SUFFICES ASSUME Init PROVE PayInv
  OBVIOUS
<1>1. CardInv /\ run = "in_progress" /\ cards = <<>> /\ paid = None
  BY CardInit DEF Init
<1>2. \A r \in Requests : req[r].pc = "idle"
  BY DEF Init, Idle
<1> QED BY <1>1, <1>2 DEF PayInv, ReadsHold, CardsWaitForRuns, ApproversOK, ApproverOK, PaidIsWorth,
        PaidForWhatIsDone, HoldsLock, Paying, Pending

\* As long as a request about a step overlaps nobody, and nobody edits a price: one approve
\* at a time, carrying what the run is worth, and a board that stands still under it.
THEOREM PayInvariant ==
  ASSUME Overlaps \subseteq CardKinds, FixedPrices
  PROVE  Spec => []PayInv
<1>1. Init => PayInv
  BY PayInit
<1>2. PayInv /\ [Next]_vars => PayInv'
  <2> SUFFICES ASSUME PayInv, [Next]_vars PROVE PayInv'
    OBVIOUS
  <2>1. CardInv' /\ ReadsHold'
    BY CardStep, ReadsStayTrue DEF PayInv
  <2>2. CardsWaitForRuns' /\ ApproversOK' /\ PaidIsWorth' /\ PaidForWhatIsDone'
    BY CardsWaitStep, ApproversStep, PaidStep, ApprovedStep
  <2> QED BY <2>1, <2>2 DEF PayInv
<1> QED BY <1>1, <1>2, PTL DEF Spec

\* An approved run was paid for exactly what reads done on it, however often it was sent
\* back, redone, and paid again after a failure whose bytes may have landed.
THEOREM ApprovedMeansPaid ==
  ASSUME Overlaps \subseteq CardKinds, FixedPrices
  PROVE  Spec => []PaidForWhatIsDone
<1>1. PayInv => PaidForWhatIsDone
  BY DEF PayInv
<1> QED BY <1>1, PayInvariant, PTL

\* A step that writes what a run's steps are worth, while it waits for its approval, is one of
\* a request which had read the run before it was handed in.
LEMMA OnlyEarlyReadsWrite ==
  ASSUME CardInv, NEW r \in Requests, Work(r), run = "done_pending", Done(task') # Done(task)
  PROVE  ReadTooEarly(r) /\ req'[r] = Idle
<1>1. TypeOK /\ RequestsOK /\ task \in [Steps -> StepStatus] /\ req \in [Requests -> ReqRow]
  BY DEF CardInv, TypeOK, ReqRow
<1>2. Answer(r) => req'[r] = Idle
  BY <1>1, AnswersOnly
<1>3. ASSUME req[r].pc = "read", req[r].kind \in StepKinds, ~ Refused(r) PROVE req[r].sawRun = "in_progress"
  BY <1>3 DEF Refused, RunSubmitted, StepKinds, CardKinds
<1>4. ASSUME StartStep(r) \/ FinishStep(r) \/ SkipStep(r)
      PROVE  Answer(r) /\ req[r].pc = "read" /\ req[r].kind \in StepKinds /\ ~ Refused(r)
  BY <1>4 DEF StartStep, FinishStep, SkipStep, Halfway, StepKinds
<1>5. OpenChest(r) => Done(task') = Done(task)
  BY <1>1 DEF OpenChest, CompleteRun, Passed, OpenSide, OpenStatus, Done
<1>6. \/ Refuse(r) \/ Reject(r) \/ PriceCard(r) \/ NoFunds(r) \/ DecideCard(r)
      \/ Pay(r) \/ PayFails(r) \/ Settle(r)
      => task' = task
  BY DEF Refuse, Reject, PriceCard, NoFunds, DecideCard, Pay, PayFails, Settle, board
<1> QED BY <1>2, <1>3, <1>4, <1>5, <1>6 DEF Work, ReadTooEarly

\* While a run waits for its approval, what approving it pays moves with an edited price or by
\* a request about a step that read the run before it was handed in, and by nothing else
\* (runSubmitted, and todayRun's reconcileRun only while the run is open).
THEOREM WaitingRunsAreFrozen == Spec => FrozenInTheQueue
<1> DEFINE Frozen == run = "done_pending" /\ run' = "done_pending" /\ Worth' # Worth
                       => price' # price \/ \E r \in Requests : ReadTooEarly(r) /\ req'[r] = Idle
<1>1. CardInv /\ [Next]_vars => Frozen
  <2> SUFFICES ASSUME CardInv, [Next]_vars, run = "done_pending", Worth' # Worth, price' = price
               PROVE  \E r \in Requests : ReadTooEarly(r) /\ req'[r] = Idle
    OBVIOUS
  <2>1. Done(task') # Done(task)
    BY DEF Worth, Done
  <2>2. CardInv /\ TypeOK
    BY DEF CardInv
  <2>3. task' # task
    BY <2>1
  <2>4. ~ ReadBoard
    BY DEF ReadBoard
  <2>5. \A r \in Requests : Ask(r) => task' = task
    BY <2>2, AskReads DEF board
  <2>6. PICK r \in Requests : Work(r)
    BY <2>3, <2>4, <2>5 DEF Next, Edit, Crash, vars, board
  <2> QED BY <2>1, <2>6, OnlyEarlyReadsWrite
<1>2. CardInv /\ [Next]_vars => [Frozen]_vars
  BY <1>1
<1> HIDE DEF Frozen
<1>3. Spec => [][Frozen]_vars
  BY <1>2, CardInvariant, PTL DEF Spec
<1> QED BY <1>3 DEF Frozen, FrozenInTheQueue
=============================================================================
