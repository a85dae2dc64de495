# Nimiq Kids: a verification project

Nimiq Kids is a family's chore economy: a kid finishes jobs, a grown-up
approves them, and approval moves real NIM to the kid. This directory holds
TLA+ models of the parts of it where a wrong interleaving, a lost answer or a
crash costs somebody money or a day's work, the TLC configurations that check
them, and TLAPS proofs of the safety properties those check.

All paths below are relative to the repository root unless they start with a
module's name. `src/src/wallet/kid-wallet.ts` is the server's wallet, and so on.

## 1. The system

One Bun process serves a kid's tablet, the parents' phones and a kiosk. It
keeps SQLite tables (`schema.sql`) and talks to a Nimiq node. JavaScript runs a
handler without interruption from one `await` to the next; requests interleave
at the awaits (a token's digest, a PIN's verification, a body, an RPC call).
SQLite writes are autocommitted one by one, so a crash can fall between two of
them even where no request can.

| component | state it keeps | operations | talks to |
|---|---|---|---|
| server-signed payout | `approvals`, `payout_attempts`, `wallet_events`, `wallet_state`, the lock's queue | hand in, approve (two routes), reject (two routes), repay, receipt sweep | node; the family spend lock |
| parent-signed payout | the intent columns of `payout_attempts` | mint, re-mint, relay, settle | the parent's wallet, node |
| kid netting | `kid_debits` | buy on debt, honour, give back, reserve, settle | payouts, Treasure Box |
| routine runs | `routine_tasks`, `routine_runs`, `task_runs`, `approvals` | start, done, skip, chest, reconcile, approve, reject | tablet, payouts |
| kid outbox | `localStorage "kid.outbox"`, the flush in flight | queue, paint, flush | the routes of runs and chores |
| kid sends, stakes, cashlinks | `send_requests`, `wallet_events` | ask, approve, execute, settle | node, the child spend lock |
| a kid's account | `children.account_index`, `address`, `address_source`, `derived_address`, the high-water mark, character sets, challenges | provision, pick, register (one or a batch), reset, migrate, boot under parent custody | node, the parent's wallet, payouts |
| Treasure Box, stickers, store | `kid_purchases`, packs, placements | buy, coupon, refund | debits or a charge, the child spend lock, the screen lock |
| screen lock | windows, sittings, overrides, `screen_usage`, devices | compute state and `until`, override, clear, report usage | runs, Treasure Box, kiosk stream |
| budget, top-up | ledger sums, deposits | check, top up | node |
| practices, goals, savings, progress, stars | their rows | log, climb, save | approvals |
| families, members, pairing, auth | tokens, members, codes | pair, invite, authorise | every route |
| demo families, media, onboarding, shell, locales, scripts | - | - | - |

### What is hard, and what correct means

* **Payouts.** The node may take a transaction and lose the answer; the process
  may die between arming a claim, broadcasting, writing the ledger row and
  settling; two grown-ups may approve, reject and repay at once; a written-off
  payout may be paid again. Correct: the work is paid by one transaction, money
  that may still move is never invisible to the guards, a chore is never turned
  down beside its payment, the ledger credits it once, and whoever waits for
  the spend lock is answered.
* **Parent-signed payouts.** The signature arrives minutes later, in another
  request, possibly after the intent expired and was minted again, possibly
  twice. Correct: one signed transaction at most can pay, a purchase on debt is
  taken out of one payout, debts stay covered.
* **Runs.** A run is money: approving it pays the steps that read done. Three
  routes, an editing parent and a failed payment move those rows. Correct: what
  a waiting run pays does not move, an approved run was paid for what reads
  done, and every day can be handed in.
* **Outbox.** A tap without network is posted later, perhaps twice, to a board
  that moved on. Correct: no promised tap is forgotten, none posted late pays
  for what was excused, the painted board does not lie, the queue drains.
* **The kid's money.** Purchases, sends and stakes await a node between the
  check and the payment, one kid's requests queue for one lock, and a fault can
  fall anywhere. Correct: nothing is spent that is not there, a debt always has
  NIM behind it, nobody is charged for nothing, nobody gets goods and money.
* **The screen.** The tablet acts alone on its last answer until the moment
  that answer names. Correct: the answer stays true until then; a grown-up's
  word is not outrun by a kid's purchase, and a purchase is not eaten by it.
* **The account.** Four ways to give a kid an account and two to take one away
  run beside payouts. Correct: an account is one kid's, and no luna is left
  where nothing leads to its key.

The hazards behind these statements are listed one by one, at their lines, in
`PROJECT.json` under `hazards`.

## 2. The modules

| module | models | kind |
|---|---|---|
| `PayOnce` | what the payout machinery promises about each piece of work | abstract specification |
| `ServerPayout` | the server-signed payout, the sweep, the write-off and the repay | detailed specification |
| `ServerPayoutInvariant` | its inductive invariant, in named parts | definitions |
| `ServerPayoutProofs` | the lemmas and theorems about it, and that it implements `PayOnce` | TLAPS proofs |
| `ParentPayout` | the parent-signed payout, its relay and kid netting | specification |
| `ParentPayoutInvariant` | its inductive invariants: of the money, and of netting | definitions |
| `ParentPayoutProofs` | the theorems about paying once, then those about netting | TLAPS proofs |
| `RunRules` | which steps are over, when a run is handed in | shared definitions |
| `RoutineRun` | one run on the server, with the grown-ups around it | specification |
| `RoutineRunInvariant` | its two inductive invariants | definitions |
| `RoutineRunProofs` | the lemmas and theorems about it | TLAPS proofs |
| `KidOutbox` | the tablet's outbox against that server | specification |
| `KidOutboxInvariant` | its inductive invariant | definitions |
| `KidOutboxProofs` | queues, the painted board, late taps | TLAPS proofs |
| `KidMoney` | the Treasure Box, sends and stakes of one kid, under the child's spend lock | specification |
| `KidMoneyInvariant` | its inductive invariant | definitions |
| `KidMoneyProofs` | the lemmas and theorems about it | TLAPS proofs |
| `SumLemmas` | sums of a function over a finite set, which both money proofs count with | TLAPS proofs |
| `LockMachine` | what a tablet does at an instant and until when | pure operators |
| `ScreenLock` | the rows that machine reads, who writes them, and the tablet | specification |
| `ScreenLockInvariant` | its inductive invariant | definitions |
| `ScreenLockProofs` | calendar, windows, the machine; then the rows and the tablet | TLAPS proofs |
| `KidAccount` | which account a kid's money is at, and who can reach it | specification |
| `KidAccountProofs` | its inductive invariant, the lemmas and theorems about it | TLAPS proofs |
| `MC*` | constants and symmetry of the instances | model checking |

`KidOutbox` and `RoutineRun` both extend `RunRules`, so the tablet and the
server follow one set of rules where the code has two copies of them
(`outbox.js` mirrors `completeRunIfFinished`). `ServerPayout` instantiates
`PayOnce` under a refinement mapping. `RoutineRun` reduces a payment to one
amount, fixed by the first attempt that may reach a node, which is what
`ServerPayout` shows a payout to be. `ScreenLock` extends `LockMachine` and has
the run of a routine and the purchase of minutes as steps of its own, which
`RoutineRun` and `KidMoney` have in full; `KidMoney` takes a payday as one step,
which `ParentPayout` and `ServerPayout` have in full.

Three conventions hold everywhere. An action is one uninterrupted stretch of
the event loop. Where the crash between two durable writes matters, the
writes are actions of their own and `cpu` names the actor nobody else may
interrupt. Operators marked *slip* are plausible mistakes, kept beside the
definition they would replace; nothing uses them except to test that a
property can fail.

### ServerPayout

| state | in the code |
|---|---|
| `chore`, `approval` | `chores.status`; rows of `approvals` with their committed share |
| `attempt` | `payout_attempts`, by payout ref (`chore:<id>` or `repay:<event id>`) |
| `event` | `wallet_events` of kind earn, with `retired_payout_ref` and `earn_repay` of `wallet_state` |
| `tx` | every transaction built: held by the server, in a pool, executed, rejected |
| `lock` | `tails` of `spend-lock.ts`: the holder, then the queue in order of arrival |
| `task`, `sweep`, `handin` | local state of the handlers, the receipt sweep and the hand-ins |

A request goes `queued`, `funds` (`checkPayable`), `decide`, `wallet`
(`payKidEarnVia` up to the claim), `prepare`, `wire`, `settle`, `subject`,
`mark`. `Enter`, `DecideApprove`, `Claim`, `Arm`, `WriteRow`, `SettleAttempt`,
`SettleSubject` and `MarkRepaid` are its writes; `Throw`, `PrepareFails`,
`BroadcastFails`, `Unresolved`, `TurnAway` and `NotFundable` its ways out;
`Reopened` is what a failed payment does to the card. `Reach` and `Include` are
the network and the chain: a broadcast whose answer was lost may still reach
them. `AskReceipt`, `Confirm`, `KeepWaiting` and the three `WriteOff` actions
are the sweep. `Crash` empties the requests, the lock and the sweep, and leaves
the tables.

### ParentPayout

`intent` holds every intent ever minted with its pinned literals (value,
netting, expiry) and what became of the bytes signed for it; `cleared` and
`debit` are `kid_debits`; `clock` ticks past `PAYOUT_INTENT_TTL_MS`. Minting is
`StartApprove`/`StartDirect`, then `MintIntent`, `AlreadyClaimed`,
`AlreadySettled` or `SettleWhole`. The relay is `StartRelay`, `RefuseRelay` or
`ArmRelay`, `BroadcastFails`, `ClearDebt`, `WriteRow` or `RowTaken`,
`SettleAttempt`, `Decide`, `Finish`. The family's server-signed repay button
also exists under parent custody (`StartRepay` to `MarkRepaid`). A minted
intent is never forgotten: its bytes can be relayed at any later time.
A relay under way while its chore's payment is written off or repaid is behind
the constant `Overlaps` (section 6 says what it breaks).

### RunRules, RoutineRun

A handler is two steps: it reads its rows (`Read`), then decides on what it
read and writes (`StartStep`, `FinishStep`, `SkipStep`, `OpenChest`, `Reject`,
`PriceCard`, ...). `Overlaps` names the kinds of handler inside of which other
requests may run. Approving holds the spend lock over `priced`, `paying` and
`settling`. A payment that throws (`PayFails`) puts the card back when it may be
made again (`PayoutRetryIsSafe`); `stuck` says that it may not, since it crossed
the wire in a wallet that keeps its bytes. `Crash` ends every request; `cut`
remembers the cards whose approve it ended behind the decision. `Edit` is a parent
retiring, adding or pricing a step; `ReadBoard` is `todayRun` bringing the run
back in line (`reconcileRun`).

### KidOutbox

`box` is the queue in `localStorage`, `flush` the flush in flight with what it
still has to post and what it kept, `owed` (history) the taps the kid was told
are saved and nobody answered for. `Deliver`, `Busy`, `NoAnswer` are what one
post meets; a post that got no answer may have landed. `Reload` loses the
flush and not the queue. The server's other users act at any time. The handler of
a tap reads its rows, awaits who is asking, and writes: `late` holds the taps
between the two (`TapHangs`, then `TapGoesThrough`, or `Deliver` and its answer),
and `Land` is both halves with nothing between them.

### KidMoney

`mode` is fixed at the start: `sim` (the balance is the ledger), `chain` (the
server signs for the kid) or `deferred` (the address is a grown-up's and a
purchase is a debt). `buys` holds each tap on Buy with its item, receipt, debit
and coupon; `asks` the rows of `send_requests` with their approval; `stakes` the
ledger row and the transaction of a stake; `reads` what the wallet reads in
progress make of it; `lockQ` who waits for `childSpendKey`; `read` the balance
the holder read. A buy goes `queued`
(`Tap`), `reading` (`Enter`: the rules that refuse before a charge), `counting`
(`ReadBalance`), `paying` (`Afford`), `paid` (`RecordDeferredSpend`,
`SendPayment`) and ends in `HandOver` or one of the refusals. An ask goes
through `CheckFunds`, `Decide`, `StartExecuting`, `AffordAsk`, `SendAsk`, and
`Reopened` puts its card back. What is spendable is computed after the await,
as in `availableKidLuna`: the balance is old, the debts and reservations new.
`settlePendingStakes` takes no lock, and is `ListStake` up to the await for the
balance, `LookAtStake` when it comes, and `SettleStake`, which writes onto the row
whatever another read has written there since: a stake called done can be called
failed by a slower read, and the other way round.

### LockMachine, ScreenLock

`ComputeLockState` names the first rule of `Precedence` that speaks, and the
ruling each rule gives; `Bounds` is what an open tablet counts down to. A day
has `DayLen` slots and a weekday mask `Week` days. In `ScreenLock`, `overrides`
is the set of rows not cleared, each with its rowid `no`; `SetOverride` replaces
its author's row of the scope, and `ActiveOverride` looks for the newest live
row of a grown-up before that of a purchase. `InputsAt` is what the server
gathers for the machine at an instant. `tablet` is the answer the tablet holds
and whether it missed a change since: every write publishes to an open stream
(`Publish`), `GoOffline` closes it, `Poll` opens it again. An open tablet burns
time (`Tick`) and reports it (`ReportUsage`).

### KidAccount

A derived account is its index. `calls` holds requests between two awaits:
`deriving` (an index is handed out, the address not yet written), `choosing` (a
character), `verifying` and `moving` (a registration before and among the reads
of the old balances). `inflight` and `funded` are payments on their way to
derived accounts and the accounts with money. `GoParental` is a restart with
`HATCH_CUSTODY=parent` behind the boot guard.

## 3. The runs

Each run is one question. Every property has a mutant of the code that breaks
it (`PROJECT.json`, `mutants`), found under the run's own configuration.

| run | instance | what it shows |
|---|---|---|
| `payout` | 1 chore, whole or half, 2 approval rows, 2 requests, 2 transactions, 2 ledger rows | through lost answers, replays, crashes, reopened approvals, write-offs and repays a chore is paid by one transaction, tracked, credited once, never rejected beside its payment; new bytes are signed at the price the card has then; every step is a step of `PayOnce` |
| `payout_live` | 1 row, 2 transactions, half shares, a wallet that keeps its bytes (`Opaque`), fairness | whoever waits for the lock is answered; an executed payment is confirmed |
| `parent_payout` | 1 chore at full price, 1 approval row, 2 requests, 3 intents, 2 ledger rows, TTL 1, clock to 2, relays in the very tick of expiry, the repay route in use | one signed transaction at most pays, nothing alive is untracked or turned down, approved means paid |
| `parent_netting` | 2 chores of 6 and 3, a refusable purchase of 4, 1 request, 2 intents, 1 ledger row | a purchase comes out of one payout and a debt stays covered |
| `routine_run` | 3 steps: one required, one side quest, one retired at first; 2 requests, 2 cards, 1 edit, 1 crash | a waiting run is frozen, approved means paid for what is done, a handed-in run has one card unless it is stranded, every day can be handed in |
| `kid_outbox` | 2 steps (one a side quest), 1 chore, 2 taps queued, 2 handlers held between their halves | no saved tap is lost, a late one pays for nothing excused and takes no approved chore back unless its handler had read the row before, the painted run is the one the server will have, the queue drains |
| `outbox_lost_tap` | 1 step, 1 chore, taps during a flush | **violated**: such a tap is forgotten |
| `kid_money` | 2 buys of 3 kinds of goods, a send and a stake, 1 payday, 1 fault, all three modes, metered or not | no overdraft, a fault costs one buy at most, goods or money, a stake recorded by mistake has its cause |
| `charged_then_refused` | 2 buys of minutes, a cap | **violated**: a metered kid at the cap pays for minutes it is refused |
| `screen_lock` | a curfew, a routine, a meter, sittings, hours past midnight; a day of 4 slots, a week of 2 days, 7 instants, 2 saves | the answer holds until the moment it names, countdowns are real, a grown-up's word stands, paid minutes are kept |
| `screen_until_overnight` | the household with windows past midnight | **violated**: an open tablet counts down past the moment it should lock |
| `kid_account` | 2 kids, 2 addresses, 2 requests, one challenge of each kind, 2 indexes | an account is one kid's, the next index is fresh, the index of an account with money stays on a row |

### Bounds

Every bound is a constant: the sets of approvals, handlers, transactions,
events, intents and purchases (row ids, never reused), `HandIns`, `Coupons`,
`MaxClock`, `MaxCards`, `MaxEdits`, `MaxCrashes`, `MaxLate`, `MaxQueued`, `Prices`.

* *One chore, two requests* (`payout`). Payments of different chores meet only
  in the spend lock, and a race needs two actors; the sweep, the chain and the
  hand-ins act besides. A second transaction is what every double payment
  needs, a second row what a repay writes, and a second approval row the chore
  handed in again. The theorems of section 5 hold for every number.
* *Three intents, TTL 1, clock to 2* (`parent_payout`): one intent expires, a
  second is minted and can expire too, a third follows a write-off, and the
  bytes of every earlier one may still arrive. The theorems of section 5 hold
  for every number, any share and any clock.
* *6, 3 and 4* (`parent_netting`): the purchase takes part of one payout
  (`MintIntent` with a netting) or all of the other (`SettleWhole`). What a payout
  nets is reserved and cleared before its ledger row is written, so one row is
  enough for either chore to go all the way; a second relay clears its debt and
  waits for a restart.
* *Three steps, one edit, one crash* (`routine_run`): a step can be added to or
  taken from an open run, which is how a run became unfinishable; one crash
  strands a card, and everything a grown-up can still do follows it.
* *Two buys, two asks, one fault* (`kid_money`): a race for one balance needs
  two spenders, one of whom may be a grown-up's approval; a pack bought twice
  needs two buys; a stake mistaken for something else needs something else. One
  fault shows that it costs one buy.
* *Four slots, two days* (`screen_lock`): a window, its complement, a midnight
  inside the run and a weekday on which the routine is not due. Seven instants
  reach the second day's curfew. Two saves let one author follow the other.
* *Two kids, two indexes* (`kid_account`): a collision needs two; the mark
  matters once an index is given up and the next kid comes. Symmetry among kids,
  addresses and requests is sound, as nothing distinguishes them. The theorems
  of section 5 hold for every number.
* *Two queued taps, two late handlers* (`kid_outbox`): a queue of two has an entry
  before and one behind another; two handlers that read the same board write one
  after the other. The theorems of section 5 hold for every number.

Constants name the parts of the behaviour a run leaves aside, because with them
a property fails; section 6 says what was then found. `ExactMs` is FALSE in the
run about netting (no relay in the very tick in which an intent expires).
`Overlaps` holds the handlers of cards only in the run of `RoutineRun` (two
requests about a step do not run inside one another), and `Prices` one price:
otherwise `PaidForWhatIsDone` fails. The two exceptions `FrozenInTheQueue` names do
therefore not occur in that run; with `Overlaps <- Kinds` and `Prices <- TwoPrices`
they do, and `HandedInHasACard`, `FrozenInTheQueue` and `SideQuestIsNoTrap` hold
(3.2 million states). `RepayButton` is FALSE in the run about netting. With a second row that run has 3.0
million states, with the route as well 4.8 million, and both properties hold: with
the route they say what section 5 says of families that have it. `Overlaps`
of `ParentPayout` is FALSE in both of its runs, and so is `TornWriteOff`. `TapDuringFlush`,
the schedules of `screen_until_overnight` and the goods of
`charged_then_refused` are the same for the violations.

Deadlock is not checked: the bounded row ids run out, and the system may rest
when nobody has anything to do. That requests do not stop halfway is checked as
liveness instead (`EveryRequestAnswered`, `EveryDayIsHandedIn`, `QueueDrains`).
Symmetry is used for interchangeable ids in the safety runs only.

## 4. Fairness

* `ServerPayout` (`FairSpec`). Requests in progress go on (weak): every await
  of a payout is an RPC call with a timeout, so it returns or throws. The sweep
  runs on an interval and acts on an answer it got (weak). The node answers
  about each row again and again if asked again and again, and the process does
  not die inside every sweep that got an answer (strong). Nothing is assumed of
  the network, the chain, the grown-ups or crashes.
* `RoutineRun`. Requests go on (weak); the tablet keeps polling, so
  `reconcileRun` happens at some moment when no request is between its
  awaits (strong); the kid does the steps the board shows and opens the chest
  when it is offered (strong), which is the premise of "every day can be handed
  in" and not a promise of the code. Parents may go on editing (up to
  `MaxEdits`) and rejecting (up to `MaxCards`).
* `KidOutbox`. The ten-second poll starts a flush and a flush goes on (weak); a
  server that answers 5xx does not answer so for ever to one entry (strong).
  The property is about a network that came back for good and a page that is
  not reloaded in the middle of a flush again and again; both are its premise.

## 5. What is proved

Everything here is proved for every value of the constants: any number of
chores, requests, intents, rows, buys, steps, taps and schedules. A hypothesis beyond the
named assumptions of a module stands in the theorem, and section 6 says what
happens without it.

### The server-signed payout

`ServerPayoutProofs`:

| theorem | states |
|---|---|
| `Invariant` | `IInv` holds in every reachable state |
| `TypeCorrect` | `TypeOK` |
| `NeverPaidTwice` | `AtMostOncePaid` |
| `MoneyIsTracked` | `NothingUntracked` |
| `LedgerCreditsOnce` | `CreditedOnce` and `OnlyProvenFailuresWrittenOff` |
| `RejectedMeansUnpaid` | `RejectNeverBesidePayment` |
| `NewMoneyIsAtTheCardsPrice` | `SignedAtTheCardsPrice` |
| `PayoutsPayOnce` | `PaysOnce`: the refinement of `PayOnce` |

Assumptions: `ServerPayoutAssumption` (prices and shares are naturals;
ids of different kinds, `None` and `"sweeper"` are distinct) and, stated in each theorem,
`~ TornWriteOff`. The second one is the whole price of the violation of section
6: but for a crash inside `markWalletEventFailed`, a chore is never paid twice.

**Why `AtMostOncePaid` is not inductive.** From a state where one transaction
is alive, another request could build a second one if nothing told it not to.
What tells it is spread over three places: the spend lock, the ledger rows and
the claims. `IInv` says how they fit together:

* `OneAtATime`: only the head of the lock's queue is past the queue, so what
  the guards read stays true until the request writes;
* `Held`: a live transaction has a ledger row on its key, or its claim is in
  flight; `Single` and `Named`: it is the only one on that key, and the row's
  hash and the claim's bytes name it, so a resume sends *those* bytes;
* `PayerOK`: past `Claim` there is no ledger row on the key; at `wire` the
  claim is in flight and no other transaction of the work is alive;
* `Rows`, `RequestOK`: a payment started by a repay uses the key the failed row
  gave up (`retired`), so both ways of paying one chore share one key. This
  is the step that fails with a torn write-off;
* `Sweeping`: a verdict in the sweep's hands is still true of its row, and in a
  write-off the work has no live transaction and no payer.

The proof goes through every action of `Next` and, for each, the parts it can
disturb: `TypeStep`, `OneAtATimeStep`, `RequestsStep`, `RowsStep`,
`MoneyStep`, `PayerStep`, `SweepingStep`. Lemmas on who writes which table
(`WhoWritesEvents`, `WhoWritesAttempts`, `WhoWritesTxs`, `WhoSweeps`,
`WhoMoves`) keep the number of cases down.

**The refinement.** `PayOnce` knows one state of the money per piece of work;
`ServerPayout` has a set of transactions. The mapping looks at the *current*
one: built, and not written off. `CurrentInvariant` says that there is one at
most, and that ledger rows, claims and broadcasts name it (`RowsNameCur`,
`ClaimsNameCur`, `PayersNameCur`). Then every action maps: building the
transaction is `Send`, its inclusion `Arrive`, the row `Record`, the sweep's
verdicts `Confirm` and `WriteOff`, and all else a stutter, a crash included.

**Prices.** `SignedAtTheCardsPrice` relates the amount of new bytes to a card
which was read awaits before. `Priced` carries it there: from the moment a
request read its card its amount is the card's price, whole or shared, since
only the head of the lock writes a share. It does not say that what a ledger
row records is what moved: a replay is the exception (section 6).

### A kid's account

`KidAccountProofs`:

| theorem | states |
|---|---|
| `Invariant` | `IInv` holds in every reachable state |
| `TypeCorrect` | `TypeOK`, with the mark above every index ever on a row |
| `AccountsAreOneKids` | `OneKidPerAccount` |
| `MoneyStaysReachable` | `MoneyIsReachable` |

The only assumption is `KidAccountAssumption` (the bounds are naturals, a set
has a character, `None`, indexes, own addresses and the values of
`address_source` are distinct).

Neither of the two properties is inductive. A request that is deriving a key
writes the address whatever the row says by then, so what it writes must be
known to be the row's own index: `DerivingHolds` says that the index handed out
stays on the row meanwhile (nothing but the operator takes one off, and the
scripts run on an idle server). And the scripts do not ask the chain about the
account at `account_index`: they ask about `derived_address`. After a crash
between handing out and writing, the two differ. `MoneyIsDerived` says that
money is only where they agree, which `RowsInLine` gives a payout at the moment
it reads the row. `IndexOnce` and `AddressOnce` are the uniqueness itself: a new
index is the mark (`NextFreeIsMark`) or was just found on no row; a derived
address is some row's own index; an address of a parent's is looked for among
the other parents' rows in the same stretch that writes it (`Clashes`).

### The parent-signed payout

`ParentPayoutProofs`, if `~ Overlaps`:

| theorem | states |
|---|---|
| `Invariant` | `IInv` holds in every reachable state |
| `TypeCorrect` | `TypeOK` |
| `OneSignatureCounts` | `AtMostOneAlive` |
| `MoneyIsTracked` | `NothingUntracked` |
| `ApprovalsArePaidFor` | `ApprovedIsPaidFor` |
| `RejectedMeansUnpaid` | `RejectNeverBesidePayment` |

A signature is never taken back: bytes signed for an intent can be relayed an
hour after the next intent was minted. What keeps them harmless is that the
claim names *one* intent. `IntentOK` says that bytes which may move money belong
to the intent their chore's claim names, and `ClaimOK` that a claim on the wire
holds those very bytes. Whoever acts for a transaction must then find that
claim still there, awaits later: `PayerOK` says so of a relay between its check
and its answer (up to the tick of expiry the claim is not minted again), of a
relay and a repay on the wire, and of a ledger row (`RowOK`). `Alone` gives the
rest: a mint and a repay hold the family's spend lock, and a repay runs beside no
relay of its chore, which is the hypothesis.

Its second half, if `~ Overlaps` and `~ ExactMs`:

| theorem | states |
|---|---|
| `NettingInvariant` | `NInv` holds in every reachable state |
| `NothingIsNettedTwice` | `NeverNettedTwice` |
| `DebtsAreCovered` | `Outstanding <= ChainBalance`, and `DebtIsCovered` unless `RepayPossible` |

The server exposes a repay of payouts it has no key for (`RepayButton`,
`src/src/routes/wallet.ts:379-384`), and a repay settles no debt. So what is said of
netting ends with the first payout written off in a family that has the route
(`RepayPossible`): bytes a node rejected at first and the sweep wrote off may be
paid again by a mint that nets, whose broadcast fails, and whose claim the repay
then takes over and settles without the debt, which the next chore nets again.
That the kid never owes more than its address holds needs no such limit.

`NeverNettedTwice` adds up what payouts took out of a kid's earnings. The
invariant adds up what they took *or may still be signed to take*: `Committed`
is what a claim pins while its intent can be relayed, and what was cleared
afterwards. The sum over all chores is never more than was bought, since a
mint pins no more than what is owed and not yet reserved. `NettingOK` says at
each state of a claim how what it pins and what was cleared are related. The
two hypotheses and `RepayPossible` are the three ways found to let go of a
reservation whose bytes can still land.

`SumLemmas` proves what these sums need (`SumFunctionOnSet` of the community
modules): that a sum over a finite set takes its elements in any order, hence
what it becomes when one value changes, and that it is monotone. The fold is a
recursive function on subsets; that this function exists is proved without an
induction theorem, from a minimal counterexample.

### The kid's money

`KidMoneyProofs`, with no hypothesis beyond `KidMoneyAssumption`, for all three
modes, any shelf and any number of buys, sends, stakes and faults:

| theorem | states |
|---|---|
| `Invariant` | `IInv` holds in every reachable state |
| `TypeCorrect` | `TypeOK` |
| `KidNeverOverspends` | `NeverOverspent` |
| `FaultsCostOneBuyEach` | `AFaultCostsOneBuy` |
| `NeverGoodsAndMoney` | `GoodsOrMoney` |
| `PhantomsAreExplained` | `PhantomStakeHasACause` |

The balance a request pays from is old by then. `OneAtATime` says that whoever
is past the head of `childSpendKey` is alone, so nobody else spent since;
`ReadHolds` that the balance can only have grown since it was read, off the
chain, where a payday is the only other writer; `ModeOK` that an instance has
money in one form (only a deferred one has debts, only the chain has stakes), so
that a check of one form covers all. `StakesAccounted` counts all that left
beside a stake with a row: what is missing at its proof is the stake or what was
counted. `VerdictsHold` is what a read keeps between the balance and the row: it
is about a row that is there, and if it is to call it done, what a done row must
have is there already, and stays. Goods follow from `BuyOK`, which relates
receipt, debit and coupon at every moment of a buy, and from `NotOwnedYet`: nobody
owns what the lock's holder is buying. `FaultsCostBuys` is about every buy charged
and not served at once, whose only witness between two steps is the holder of the
lock.

### Runs

`RoutineRunProofs`:

| theorem | states | hypotheses |
|---|---|---|
| `CardInvariant` | `CardInv` holds in every reachable state | - |
| `NoRunIsLost` | `HandedInHasACard` | - |
| `SideQuestsStayTheKids` | `SideQuestIsNoTrap` | - |
| `PayInvariant` | `PayInv` holds in every reachable state | `Overlaps \subseteq CardKinds`, `FixedPrices` |
| `ApprovedMeansPaid` | `PaidForWhatIsDone` | the same |
| `WaitingRunsAreFrozen` | `FrozenInTheQueue` | - |

That a run handed in has one card which waits, or an approve that carries it, or
a card that is *stranded*, holds though any handler may run inside any other: a
card is written in the stretch that hands the run in, and one that was decided
is put back in the stretch that learns its payment failed, unless the payment
must not be made again (`stuck`); a crash takes an approve away and leaves its
card decided (`cut`). `Stranded` names those two cases and no third
(section 6 says what they mean to a family). `FrozenInTheQueue` names the two steps
that move what a waiting run pays, an edited price and a handler that read the
run before it was handed in, and its proof goes through all others.
What is *paid* needs a board that
stands still: `ReadsHold` (what a request about a step read of the run is true
until it writes) and `CardsWaitForRuns` freeze it while a card waits;
`OneApproves` and `ApproverOK` carry the worth of the run through pricing,
deciding and paying; `PaidIsWorth` says that a run which may have been paid is
never taken back and worth what was paid. The two hypotheses are what section 6
shows to be needed for this one.

### The outbox

`KidOutboxProofs`:

| theorem | states | hypotheses |
|---|---|---|
| `QueueInvariant` | `QueueInv` holds in every reachable state | - |
| `TypeCorrect` | `TypeOK` | - |
| `SavedTapsAreKept` | `TapNotForgotten` | `~ TapDuringFlush` |
| `BoardTellsTheTruth` | `PaintedAsPosted` | - |
| `LateTapsPayNothing` | `LateTapPaysNothing` | - |
| `ApprovedChoresStay` | `ApprovedChoreStays` | - |

`TapNotForgotten` speaks of the queue on disk, which a flush does not touch
until it ends and then overwrites. `OwedIsCarried` says that the overwriting is
safe: what the flush still has to post and what it kept are together all that is
owed. It needs that each job is in one of the two lists and there once
(`FlushOK`), or an answer for one entry would settle another. The hypothesis is
the violation of section 6 and is all that is needed to exclude it.
`LateTapPaysNothing` and `ApprovedChoreStays` have no hypothesis and one exception
each, which the code has too: the handler of a tap for that very step or chore,
which had read it as open before it was excused or approved and writes now. How
late a tap is posted, how often and after which lost answer does not matter.
`BoardTellsTheTruth` compares two formulations of the end of a run, the tablet's
(every step it has is over) and the server's (no required step and no side quest
is open), on every routine.

### The screen

`ScreenLockProofs`, with no hypothesis beyond the two assumptions on constants
(`LockMachineAssumption`, `ScreenLockAssumption`), for any schedules the routes
accept, any length of the day and of the week, and any clock:

| theorem | states |
|---|---|
| `LockInvariant` | `LInv` holds in every reachable state |
| `TypeCorrect` | `TypeOK` |
| `OpenAsTheServerWould` | `OpenAsRuledByDay` |
| `CountdownsAreReal` | `BudgetCountdownIsReal` |
| `AGrownUpsWordStands` | `GrownUpsWordStands` |
| `PaidMinutesAreKept` | `PaidMinutesKept` |

`AnswerOK` is the heart of `LInv`: a tablet that missed no change holds the
ruling of its instant (`at`) on the rows as they are *now*, but for the rows of
the day, which have been dropped if a midnight lies between. So the inputs of
its answer and those of the present differ by time alone (`OnlyTimePassed`,
`ToldAndAsked`), and what is left is about the machine, a function:

* `OpenUntil`: every rule that was silent when the tablet was opened is silent
  until `until`. The hours: a window stays active until its end
  (`ActiveUntilEnd`), and the answer counts down to the first end. The routine:
  a window that has become active since has started since (`StartedSince`), and
  the answer counts down to the first start. The meter and the sitting change
  with a report, which is a change, or at midnight, which clears them. The
  override: the one in charge is in charge until it runs out
  (`StillInCharge`), and when none is, time brings none (`NobodyInCharge`).
* `SpentUntil`: from midnight to the moment of relief the hours are shut, and at
  that moment they are open (`ReliefIsReal`). A window open then has opened by
  then, or was open at midnight already (`OpenedSince`); and since a weekday
  comes back within a week (`WithinAWeek`), there is such a moment.

`OpenUntil` needs windows that end by midnight, as `OpenAsRuledByDay` says; the
machine takes the boundaries of a window from today on, and the morning's end
of a window that began yesterday is not among them, which is the third finding
of section 6. `SpentUntil` needs no such thing. `OverridesOK`, that each author
has one row per scope and a purchase has an end, is what makes minutes stack
(`MinutesStack`): there is one row to extend. `AGrownUpsWordStands` follows from
`WordDecides`: with a grown-up's word live, the ruling is a function of that row.

The backends know little of division. `Division` and `Quotient` are all that is
asked of them; the rest of the calendar (`InstantOf`, `DaysApart`, `DayGrows`,
`WeeksRepeat`) follows by hand. That a set of numbers has a least one (`Least`)
comes from the minimal element of a finite family, as the sums do.

### Only model-checked

* All liveness (`EveryRequestAnswered`, `ExecutedRowsConfirmed`,
  `EveryDayIsHandedIn`, `QueueDrains`), which with `ENABLED` is out of the proof
  system's reach.

Induction over data with an operator as its parameter is out of the provers'
reach. Where a recursive definition had to be reasoned about (a sum), a minimal
counterexample did the work of the induction. No module declares a `RECURSIVE`
operator.

## 6. Where the code and its documentation part

Three runs end in a violation, each of a sentence the repository says of itself
(quoted in `PROJECT.json`, `findings`):

1. **A tap during a flush** (`src/public/kid/js/outbox.js:177`). The flush saves
   the entries it kept from the queue it read before its awaits; a tap written
   down in between is overwritten.
2. **Charged, then refused** (`src/src/routes/store.ts:627`). The cap on bought
   minutes is tested after the price was taken, though the comment above it
   says before; the kid pays and gets nothing.
3. **Windows past midnight** (`src/src/lock-machine.ts:180`). In the early
   morning the end of a window that began yesterday is not looked for, and a
   routine that is due again at midnight is no bound: an open tablet's `until`
   is too late, and offline it stays open.

Others were met while building the models and have no run of their own. A
configuration that turns the named constant on shows the first five.

* `src/src/repo-wallet.ts:556` (`TornWriteOff`): failing a row, remembering its
  key and releasing its claim are separate writes. After a crash behind the
  first one the repay pays under `repay:<event>` and an approval under
  `chore:<id>`: `AtMostOncePaid` fails.
* `src/src/routes/routines.ts:238` (`Prices` with two values): the price of a step
  can be edited while its run waits, and the amount of the card moves
  (`FrozenInTheQueue` names it); edited while the payment is under way, the run was
  paid another amount than it reads: `PaidForWhatIsDone` fails.
* `src/src/routes/routines.ts:441` and 422 (`Overlaps <- Kinds` in `routine_run`): a
  stale skip lowers the amount of a submitted run and a stale done takes an excuse
  back. `FrozenInTheQueue` and `LateTapPaysNothing` name both; a run paid meanwhile
  was paid for what no longer reads done: `PaidForWhatIsDone` fails.
* `src/src/repo-wallet.ts:434` (`RepayButton` in `parent_netting`): the
  server-signed repay of a parent-signed payout takes over its claim, and its
  debt can be netted twice, which is why `NeverNettedTwice` ends with the first
  write-off where the route exists.
* The same line and `src/src/repo-wallet.ts:553-560` (`Overlaps` in
  `parent_payout`): a relay that is under way while its chore's payment is
  repaid or written off acts for a claim that is no longer its own. A repay that
  throws releases a claim which was minted again meanwhile; a second relay of the
  same bytes, answered late, writes a row or settles what the new claim is for.
  Bytes then move money behind no claim (`NothingUntracked` fails), and with
  three intents a chore can be paid twice.
* `src/src/kid-netting.ts:192` against `payout-intent.ts:365` (`ExactMs`): in the
  exact millisecond of expiry the reservation of an intent is already released
  while its bytes are still accepted: `NeverNettedTwice` fails.
* `src/src/repo-wallet.ts:559`: the write-off of a partly netted payout releases
  key and claim but leaves the settlement of the debt, so the mint answers
  `already_settled` for ever; lines 549-551 promise a re-approval.
* `src/src/wallet/payout-intent.ts:202`: under `HATCH_CUSTODY=parent` a kid still on
  a derived address is paid there, though the boot guard has had the seed
  deleted; `src/src/custody-boot.ts:12-13` says money must not reach an account
  whose key is gone. `MoneyIsReachable` holds since it asks for the index only.
* `src/src/repo-wallet.ts:72-75` says no index is handed out twice. When two kids'
  open sets overlap, one claims, an operator resets that kid, and the other
  claims the same index, it is: the account was empty, so nothing is lost.
* `src/src/wallet/kid-wallet.ts:105-106` derives a key and writes the address
  whatever the row says by then; a registration in between is overwritten, which
  lines 89-92 exclude for a row that was read as a parent's.
* `src/src/routes/approvals.ts:601-603` says nothing moved when a send's card comes
  back; after a lost answer it did, and approving again moves it twice.
* `src/src/repo-wallet.ts:633-641`: a crash between deciding and settling a send
  leaves it approved and pending, its amount reserved for good.
* `src/src/wallet/kid-staking.ts:218-221` calls a failure recorded as success
  excluded; a stake the chain refused is recorded as done when something else
  of its size leaves the account meanwhile (`PhantomStakeHasACause`). That
  includes what left between the balance read and the row: `stakeLocked` stores
  the balance of the check before it, and another stake may land in between. Two
reads at once overwrite each other's verdict: the write at lines 271 and 274 asks
nothing of the row.
* `src/src/wallet/kid-staking.ts:141-147` calls sending the pair that takes stake
  back once more harmless. The hash of the new pair replaces the old one on the
  row (line 201), and only its receipt settles the row. When the old pair executes
  after all, the new one can only fail, and the row stays pending for good though
  the NIM is back; two wallet reads at once, which take no lock, can send two
  pairs as well. (Read in the code; unstaking is not modelled.)
* A tablet subtracts exactly what it sent, while `src/src/routes/lock.ts:330` counts
  at most five minutes of one report: time burned offline for longer is free.
* `src/src/repo-lock.ts:336` keeps a row at the instant it expires and
  `src/src/lock-machine.ts:244` drops it: in that millisecond an older override is
  passed over (`AnsweredAtExpiry`).
* `src/src/routes/chores.ts:441`: the direct approve pays the full price of a chore
  whose waiting card carries a committed share (the act `direct` is left out
  of `SignedAtTheCardsPrice`).
* `src/src/wallet/kid-wallet.ts:485-488`: bytes armed at a shared price are sent
  again as they are after the card came back without its share
  (`src/src/repo-approvals.ts:192-198`), while the ledger row and the answer carry
  the amount of the new approval (lines 452-461). The chore is still paid by one
  transaction; what the row says of it is not what moved. In the model a
  `Replay` keeps `tx.value` and `WriteRow` writes `task.value`.
* `src/src/wallet/payout-relay.ts:82`: repeating a relay whose answer was lost is
  refused once the intent expired, though the bytes are on record.
* `src/src/wallet/payout-intent.ts:244`: a crash between clearing a debt and
  deciding the chore leaves a chore that reads unpaid and mints
  `already_settled`.
* `src/src/routes/approvals.ts:613-621`: a payout that may have crossed the wire in a
  wallet that hands no bytes back leaves its card decided, as intended; and a crash
  between lines 590 and 255 leaves it decided as well. A run is then
  handed in for good: no screen lists it, no route brings its card back, and nothing
  but an operator can pay it. `HandedInHasACard` calls such a card stranded.
* `src/src/routes/chores.ts:261`: a hand-in whose read is stale reopens a chore
  decided in the meantime, the one exception of `ApprovedChoreStays`. It pays
  nothing more.

## 7. Abstractions, and what is not modelled

* **Cryptography, RPC and the chain** are a set of transactions, each held,
  in a pool, executed or rejected. A transaction is included at most once and a
  broadcast that got no answer may arrive later. The validity window of a
  transaction is left out: bytes stay broadcastable.
* **Money** is a number where a property compares amounts (`ParentPayout`,
  `SignedAtTheCardsPrice`) and a set of priced steps in `RoutineRun`; budgets and
  balances are a nondeterministic verdict (`Fundable`, `NoFunds`).
* `ServerPayout` has no debts: under server custody a purchase is charged at
  once and `debtSettledByPayout` is never set. `ParentPayout` takes the
  write-off in one step; tearing it is the business of `ServerPayout`. It keeps
  the lock's holder and not its queue.
* `ParentPayout` writes a purchase and its receipt in one step, has one parent
  wallet, and gives every minted intent literals of its own, so a relay is
  matched to its intent by them. Savings-goal rungs, which are paid through the
  same routes, are not subjects of the model. A share that rounds to nothing,
  which is decided without a payment (`src/src/routes/approvals.ts:441`), is
  excluded by the module's assumption.
* `RoutineRun` pays one amount, fixed by the first attempt that may reach a
  node. The `optional` flag of a step does not change while a run is open. A crash
  falls at an await: one inside `completeRunIfFinished`, between the run's status
  and its card (`src/src/routes/routines.ts:50-52`), is left out.
* `KidOutbox` cuts the handlers of taps at their awaits and takes every other
  request as one step at the server (`RoutineRun` has their interleavings); any
  card may be pressed, whatever the board shows; a live tap the server answers
  with 5xx is shown as failed and not queued, as in the code. Sessions that ended (401, 403) and a tablet shared by several kids are
  left out.
* `KidMoney` has one day (bought minutes do not reset), takes instant transfers
  inside the family, unstaking and what becomes of a minted cashlink out, and a
  payday in one step. The node executes what the address covers and refuses the
  rest. The debt a coupon leaves is settled by `Payday` without an intent.
* `ScreenLock` has one kid and one tablet. A daylight-saving change, which
  `zonedEpoch` handles, is left out, and so is a routine made inactive, which is
  not published and reaches the tablet at its next poll. The tablet's wrapper is
  taken from `docs/KIOSK-CONTRACT.md`.
* `KidAccount` has one household whose branch is assigned. Challenges and sets do
  not expire (expiry only refuses). The signature of a proof verifies. An empty
  account is one without a balance or a payment that executed; the staking half
  of `derivedAccountEmptiness` and failed reads only refuse. Grown-ups' wallets,
  which are refused as a kid's address, and accounts from before branches are
  left out. The order of writes inside a batch is one step, as it is a
  transaction; a batch that clashes writes nothing. Scripts run on an idle
  server.
* **Authorisation** is taken as given everywhere: a request of a model is one
  the code lets through. Its awaits are why a request's checks and its writes
  are separate steps.

The household's sessions, devices and invitations were read and not modelled.
Two facts are worth a reader's time: the guard that keeps a last session counts
every grown-up's (`src/src/routes/lock.ts:539-559`), and two sign-outs that
overlap can leave none, which line 561 excludes; an invitation or pairing code
outlives a sign-out of everything.

Not modelled at all: the components `PROJECT.json` lists as `not_modelled`, each
with its reason. Most are forms over rows, rendering, or pure I/O; the ones
with a protocol of their own are next.

## 8. What comes next

1. **Weaker hypotheses**: which of the overlaps `ParentPayout` excludes are
   harmless (a relay beside a repay of *another* chore is allowed already).
2. **Unstaking** (a module of its own: the rows, the pairs sent for them, and that
   a row whose NIM came back is settled) **and instant transfers** in `KidMoney`.
3. **Households**: sessions, devices, invitations and the guards that keep a
   household from locking itself out.

To repeat everything: `tlc -config <run>.cfg <module>` for each run of
`PROJECT.json`, and for the proofs `tlapm` on each of `SumLemmas.tla`,
`ServerPayoutProofs.tla`, `KidAccountProofs.tla`, `ParentPayoutProofs.tla`,
`KidMoneyProofs.tla`, `RoutineRunProofs.tla`, `KidOutboxProofs.tla` and
`ScreenLockProofs.tla` (`ParentPayoutProofs` takes seven minutes, the others less).
