------------------------------ MODULE RoutineRun ------------------------------
(***************************************************************************)
(* One routine run on the server, from its first step to its payment: the  *)
(* kid starts and finishes steps, a grown-up excuses some and edits the    *)
(* routine meanwhile, the run is handed in, and a grown-up approves it or  *)
(* sends it back.                                                          *)
(*                                                                         *)
(* Every handler READS its rows, then awaits (a token's digest, a body, a  *)
(* PIN's verification), then decides on what it read and WRITES.  Overlaps *)
(* names the handlers between whose halves other requests may run.         *)
(*                                                                         *)
(* How a payment stays exactly-once is ServerPayout's subject: here it is  *)
(* one amount, fixed by the first attempt that may reach a node.           *)
(*                                                                         *)
(* Sources: src/src/routes/routines.ts, src/src/routes/approvals.ts,       *)
(* src/src/repo-routines.ts, src/src/repo-approvals.ts.                    *)
(***************************************************************************)
EXTENDS RunRules, Integers, Sequences, FiniteSets

CONSTANTS
  Retired,   \* steps the routine does not have yet: a parent adds them later
  Requests,  \* requests that can be in progress at once
  Overlaps,  \* kinds of handler that others may run inside of
  Prices,    \* what a step can be worth; one price only: nobody edits it
  MaxCards,  \* bound: approval rows of this run
  MaxEdits,  \* bound: edits of the routine
  MaxCrashes, \* bound: crashes of the server
  None

StepKinds == {"start", "done", "skip"}
CardKinds == {"approve", "reject"}
Kinds == StepKinds \cup CardKinds \cup {"chest"}

ASSUME RoutineRunAssumption ==
  /\ Retired \subseteq Steps
  /\ Overlaps \subseteq Kinds
  /\ Prices # {} /\ Prices \subseteq Nat
  /\ MaxCards \in Nat /\ MaxEdits \in Nat /\ MaxCrashes \in Nat
  /\ \A amount \in SUBSET (Steps \X Prices) : amount # None

VARIABLES
  active,  \* routine_tasks.active = 1
  price,   \* routine_tasks.reward_luna
  task,    \* task_runs.status
  run,     \* routine_runs.status
  cards,   \* approvals.status of this run's rows, oldest first
  paid,    \* what the payout under this run's key carries, once it may land
  stuck,   \* that payout is in flight and its wallet did not hand its bytes back
  cut,     \* cards whose approve a crash ended after it had decided them
  req,     \* the requests in progress
  edits,   \* edits so far (bound)
  crashes  \* crashes so far (bound)

vars == <<active, price, task, run, cards, paid, stuck, cut, req, edits, crashes>>
board == <<task, run, cards>>
money == <<paid, stuck>>
past == <<cut, edits, crashes>>

\* What the run pays if approved now: runRewardLuna, kept as its summands.
Worth == {<<s, price[s]>> : s \in Done(task)}

Pending == {c \in DOMAIN cards : cards[c] = "pending"}
Idle == [pc |-> "idle", kind |-> None, of |-> None, saw |-> None,
         sawRun |-> None, value |-> {}]

\* Between the halves of a handler that does not overlap.
Halved(r) == req[r].pc = "read" /\ req[r].kind \notin Overlaps

\* Nobody else is.
Alone(r) == \A q \in Requests \ {r} : ~ Halved(q)

Answer(r) == req' = [req EXCEPT ![r] = Idle]
Halfway(r, kind) == req[r].pc = "read" /\ req[r].kind = kind /\ Alone(r)

-----------------------------------------------------------------------------
Init ==
  /\ active = Steps \ Retired
  /\ price \in [Steps -> {CHOOSE p \in Prices : TRUE}]
  /\ task = [s \in Steps |-> IF s \in Retired THEN "absent" ELSE "pending"]
  /\ run = "in_progress"
  /\ cards = <<>>
  /\ paid = None /\ stuck = FALSE
  /\ cut = {}
  /\ req = [r \in Requests |-> Idle]
  /\ edits = 0 /\ crashes = 0

-----------------------------------------------------------------------------
(* The first half of every handler: its rows are read, nothing is decided. *)

Read(r, kind, of, saw) ==
  /\ req[r].pc = "idle"
  /\ Alone(r)
  /\ req' = [req EXCEPT ![r] = [pc |-> "read", kind |-> kind, of |-> of,
                                 saw |-> saw, sawRun |-> run, value |-> {}]]
  /\ UNCHANGED <<active, price, board, money, past>>

AskStep(r, kind, s) == task[s] # "absent" /\ Read(r, kind, s, task[s])
AskChest(r) == Read(r, "chest", None, None)
AskCard(r, kind) ==
  /\ kind = "reject" => Len(cards) < MaxCards  \* a run sent back comes again
  /\ \E c \in DOMAIN cards : Read(r, kind, c, cards[c])

\* The handler answers 4xx on what it read.
Refused(r) ==
  LET q == req[r] IN
  CASE q.kind \in {"start", "done"} ->
         RunSubmitted(q.sawRun) \/ TaskFinished(q.saw)
    [] q.kind = "skip" -> RunSubmitted(q.sawRun)
    [] q.kind = "chest" -> RunSubmitted(q.sawRun) \/ ~ Completes(task, TRUE)
    [] q.kind \in CardKinds -> q.saw # "pending"

Refuse(r) ==
  /\ req[r].pc = "read" /\ Alone(r)
  /\ Refused(r)
  /\ Answer(r)
  /\ UNCHANGED <<active, price, board, money, past>>

-----------------------------------------------------------------------------
(* The second half.                                                        *)

\* completeRunIfFinished, on the rows as they are NOW; openApproval answers
\* with the card already waiting, if there is one.
CompleteRun(rows, endRun) ==
  IF Completes(rows, endRun)
  THEN /\ task' = Passed(rows)
       /\ run' = "done_pending"
       /\ IF Pending # {} THEN UNCHANGED cards
          ELSE /\ Len(cards) < MaxCards
               /\ cards' = Append(cards, "pending")
  ELSE /\ task' = rows
       /\ UNCHANGED <<run, cards>>

\* An UPDATE of a row that reconcileRun deleted meanwhile changes nothing.
Write(s, status) ==
  IF task[s] = "absent" THEN task ELSE [task EXCEPT ![s] = status]

StartStep(r) ==
  /\ Halfway(r, "start") /\ ~ Refused(r)
  /\ task' = IF req[r].saw = "running" THEN task ELSE Write(req[r].of, "running")
  /\ Answer(r)
  /\ UNCHANGED <<active, price, run, cards, money, past>>

FinishStep(r) ==
  /\ Halfway(r, "done") /\ ~ Refused(r)
  /\ CompleteRun(Write(req[r].of, "done"), FALSE)
  /\ Answer(r)
  /\ UNCHANGED <<active, price, money, past>>

SkipStep(r) ==
  /\ Halfway(r, "skip") /\ ~ Refused(r)
  /\ CompleteRun(IF req[r].saw = "skipped" THEN task
                 ELSE Write(req[r].of, "skipped"), FALSE)
  /\ Answer(r)
  /\ UNCHANGED <<active, price, money, past>>

OpenChest(r) ==
  /\ Halfway(r, "chest") /\ ~ Refused(r)
  /\ CompleteRun(task, TRUE)
  /\ Answer(r)
  /\ UNCHANGED <<active, price, money, past>>

NeverLanded == FALSE  \* slip: a payment is no reason to refuse a reject

PayoutMayHaveLanded == paid # None

Reject(r) ==
  /\ Halfway(r, "reject") /\ ~ Refused(r)
  /\ IF PayoutMayHaveLanded \/ cards[req[r].of] # "pending"
     THEN UNCHANGED board
     ELSE /\ cards' = [cards EXCEPT ![req[r].of] = "rejected"]
          /\ run' = "in_progress"
          /\ UNCHANGED task
  /\ Answer(r)
  /\ UNCHANGED <<active, price, money, past>>

-----------------------------------------------------------------------------
(* Approve: under the family spend lock the amount is read, the funds are  *)
(* looked up (an await, unless nothing new is to be funded), the card is   *)
(* decided, the money moves (an await), and the run is settled.            *)

Locked == \E q \in Requests : req[q].pc \in {"priced", "paying", "settling"}

\* decideApproval and, when there is nothing to pay, the rest in one stretch.
Decide(r, value) ==
  LET c == req[r].of IN
  /\ cards' = [cards EXCEPT ![c] = "approved"]
  /\ IF value = {}
     THEN run' = "approved" /\ Answer(r)
     ELSE /\ req' = [req EXCEPT ![r].pc = "paying", ![r].value = value]
          /\ UNCHANGED run

PriceCard(r) ==
  /\ Halfway(r, "approve") /\ ~ Refused(r)
  /\ ~ Locked
  /\ IF cards[req[r].of] # "pending" THEN Answer(r) /\ UNCHANGED <<run, cards>>
     ELSE IF Worth = {} \/ PayoutMayHaveLanded THEN Decide(r, Worth)
     ELSE /\ req' = [req EXCEPT ![r].pc = "priced", ![r].value = Worth]
          /\ UNCHANGED <<run, cards>>
  /\ UNCHANGED <<active, price, task, money, past>>

\* checkPayable says no: the card stays in the queue.
NoFunds(r) ==
  /\ req[r].pc = "priced" /\ Alone(r)
  /\ Answer(r)
  /\ UNCHANGED <<active, price, board, money, past>>

DecideCard(r) ==
  /\ req[r].pc = "priced" /\ Alone(r)
  /\ IF cards[req[r].of] = "pending" THEN Decide(r, req[r].value)
     ELSE Answer(r) /\ UNCHANGED <<run, cards>>
  /\ UNCHANGED <<active, price, task, money, past>>

\* The first attempt that may reach a node fixes what the key pays.
Armed(value) == IF paid = None THEN value ELSE paid

PayoutRetryIsSafe == ~ stuck

Pay(r) ==
  /\ req[r].pc = "paying" /\ Alone(r)
  /\ PayoutRetryIsSafe
  /\ paid' = Armed(req[r].value)
  /\ req' = [req EXCEPT ![r].pc = "settling"]
  /\ UNCHANGED <<active, price, board, stuck, past>>

\* payKidEarn ends before its row is written: nothing had been armed, or the attempt had
\* crossed the wire, by a wallet that hands its bytes back or by one that does not.
LeftUnsettled(value) ==
  \/ UNCHANGED money
  \/ paid = None /\ paid' = value /\ stuck' \in BOOLEAN

\* Slip: the card stays decided.
PayFailsForGood(r) ==
  /\ req[r].pc = "paying" /\ Alone(r)
  /\ LeftUnsettled(req[r].value)
  /\ Answer(r)
  /\ UNCHANGED <<active, price, board, past>>

\* It threw.  The card goes back in the queue if the attempt may be made again, and no
\* other card of this run is waiting already (a unique index); else it stays decided.
PayFails(r) ==
  LET c == req[r].of IN
  /\ req[r].pc = "paying" /\ Alone(r)
  /\ LeftUnsettled(req[r].value)
  /\ cards' = IF PayoutRetryIsSafe' /\ Pending = {} THEN [cards EXCEPT ![c] = "pending"] ELSE cards
  /\ Answer(r)
  /\ UNCHANGED <<active, price, task, run, past>>

Settle(r) ==
  /\ req[r].pc = "settling" /\ Alone(r)
  /\ run' = "approved"
  /\ Answer(r)
  /\ UNCHANGED <<active, price, task, cards, money, past>>

-----------------------------------------------------------------------------
(* A grown-up edits the routine, and the tablet reads its board.           *)

Edit ==
  /\ edits < MaxEdits
  /\ \A r \in Requests : ~ Halved(r)
  /\ edits' = edits + 1
  /\ \/ \E s \in Steps :
          /\ active' = IF s \in active THEN active \ {s} ELSE active \cup {s}
          /\ UNCHANGED price
     \/ \E s \in Steps, p \in Prices :
          /\ price[s] # p
          /\ price' = [price EXCEPT ![s] = p]
          /\ UNCHANGED active
  /\ UNCHANGED <<board, money, cut, req, crashes>>

\* Slip: adds what is new and leaves what was retired.
OnlyAdded == [s \in Steps |->
  IF s \in active /\ task[s] = "absent" THEN "pending" ELSE task[s]]

\* reconcileRun: steps no longer asked for and never finished are dropped,
\* steps the run has no row for are added.
Reconciled == [s \in Steps |->
  IF s \notin active /\ task[s] \in OpenStatus THEN "absent"
  ELSE IF s \in active /\ task[s] = "absent" THEN "pending" ELSE task[s]]

ReadBoard ==
  /\ run = "in_progress"
  /\ Reconciled # task
  /\ \A r \in Requests : ~ Halved(r)
  /\ task' = Reconciled
  /\ UNCHANGED <<active, price, run, cards, money, req, past>>

-----------------------------------------------------------------------------
\* The process dies and restarts, at some await: every request is gone, and an approve
\* between deciding its card and settling the run leaves both as they are.
Crash ==
  /\ crashes < MaxCrashes /\ crashes' = crashes + 1
  /\ \E r \in Requests : req[r].pc # "idle"
  /\ \/ UNCHANGED money
     \/ \E r \in Requests : req[r].pc = "paying" /\ LeftUnsettled(req[r].value)
  /\ cut' = cut \cup {req[r].of : r \in {q \in Requests : req[q].pc \in {"paying", "settling"}}}
  /\ req' = [r \in Requests |-> Idle]
  /\ UNCHANGED <<active, price, board, edits>>

-----------------------------------------------------------------------------
Work(r) ==
  \/ Refuse(r) \/ StartStep(r) \/ FinishStep(r) \/ SkipStep(r) \/ OpenChest(r)
  \/ Reject(r) \/ PriceCard(r) \/ NoFunds(r) \/ DecideCard(r)
  \/ Pay(r) \/ PayFails(r) \/ Settle(r)

Ask(r) ==
  \/ \E kind \in StepKinds, s \in Steps : AskStep(r, kind, s)
  \/ AskChest(r)
  \/ \E kind \in CardKinds : AskCard(r, kind)

Next == (\E r \in Requests : Ask(r) \/ Work(r)) \/ Edit \/ ReadBoard \/ Crash

\* A request in progress goes on; the tablet polls its board, between other
\* requests if not inside them; and the kid,
\* given the chance again and again, finishes the required steps the board
\* shows (it skips retired ones) and opens the chest once it is offered.
Fairness ==
  /\ \A r \in Requests : WF_vars(Work(r))
  /\ SF_vars(ReadBoard)
  /\ \A s \in Steps : SF_vars(
       s \in active \cap OpenRequired(task) /\ \E r \in Requests : AskStep(r, "done", s))
  /\ SF_vars(Completes(task, TRUE) /\ \E r \in Requests : AskChest(r))

Spec == Init /\ [][Next]_vars /\ Fairness

-----------------------------------------------------------------------------
(* Properties.                                                             *)

\* "No task changes once the run is in the queue": while a run waits for its
\* approval, what approving it pays does not move
\* (routine-payout-freeze.test.ts, and the comment above runSubmitted).  Two things
\* move it: an edit of what a step is worth (runRewardLuna reads the routine),
\* and a step's handler that had read the run before it was handed in.
ReadTooEarly(r) ==
  req[r].pc = "read" /\ req[r].kind \in StepKinds /\ req[r].sawRun = "in_progress"

FrozenInTheQueue ==
  [][run = "done_pending" /\ run' = "done_pending" /\ Worth' # Worth
       => price' # price \/ \E r \in Requests : ReadTooEarly(r) /\ req'[r] = Idle]_vars

\* A decided card nobody will look at again: its payment may have landed and must not
\* be made again ("It stays decided instead", approvals.ts), or a crash cut its approve.
Stranded(c) == cards[c] = "approved" /\ (stuck \/ c \in cut)

\* A run handed in is in somebody's hands: one card of it, and no second, waits
\* in the queue, or a grown-up's approve is on its way.  Otherwise no screen
\* shows it, and then only because its card is stranded.
HandedInHasACard ==
  /\ Cardinality(Pending) <= 1
  /\ run = "done_pending" =>
       \/ Pending # {}
       \/ \E r \in Requests : req[r].pc \in {"paying", "settling"}
       \/ \E c \in DOMAIN cards : Stranded(c)

\* Whatever was approved, sent back, redone and paid again after a failure,
\* an approved run was paid for exactly the steps that read done.
PaidForWhatIsDone ==
  run = "approved" => Worth = IF paid = None THEN {} ELSE paid

\* A side quest stays the kid's to take until the kid ends the run: it is
\* given up by the chest and by nothing else (the comment above
\* completeRunIfFinished).
SideQuestIsNoTrap ==
  [][(\E s \in Steps : task[s] # "passed" /\ task'[s] = "passed")
       => \E r \in Requests : req[r].kind = "chest" /\ req'[r] = Idle]_vars

\* A day can always be finished: whatever a grown-up retires or adds while
\* the run is open, a kid who does the steps shown gets it handed in
\* ("UNFINISHABLE, AND THEREFORE UNPAID", the comment above reconcileRun).
EveryDayIsHandedIn == run = "in_progress" ~> run # "in_progress"
=============================================================================
