------------------------- MODULE RoutineRunInvariant -------------------------
(***************************************************************************)
(* The inductive invariant of RoutineRun: why a run handed in is never     *)
(* without a card, and why what is paid for an approved run is what it     *)
(* shows.  The first part needs nothing; the second one rests on a board   *)
(* that does not move while its card waits.                                *)
(***************************************************************************)
EXTENDS RoutineRun

CardStatus == {"pending", "approved", "rejected"}
Amounts == SUBSET (Steps \X Prices)

TypeOK ==
  /\ active \subseteq Steps /\ price \in [Steps -> Prices]
  /\ task \in [Steps -> StepStatus] /\ run \in RunStatus
  /\ cards \in Seq(CardStatus) /\ (paid = None \/ paid \in Amounts) /\ stuck \in BOOLEAN
  /\ cut \subseteq DOMAIN cards
  /\ req \in [Requests -> [pc : {"idle", "read", "priced", "paying", "settling"},
                           kind : Kinds \cup {None}, of : Steps \cup Nat \cup {None},
                           saw : StepStatus \cup CardStatus \cup {None},
                           sawRun : RunStatus \cup {None}, value : Amounts]]
  /\ edits \in 0 .. MaxEdits /\ crashes \in 0 .. MaxCrashes

-----------------------------------------------------------------------------
(* A handed-in run is in somebody's hands.                                 *)

HoldsLock(r) == req[r].pc \in {"priced", "paying", "settling"}
Paying(r) == req[r].pc \in {"paying", "settling"}

\* A request about a card names one that is there, one about a step names a step.
RequestOK(r) ==
  /\ req[r].pc = "read" => req[r].kind \in Kinds
  /\ req[r].pc = "read" /\ req[r].kind \in CardKinds => req[r].of \in DOMAIN cards
  /\ req[r].pc = "read" /\ req[r].kind \in StepKinds => req[r].of \in Steps
  /\ HoldsLock(r) => req[r].of \in DOMAIN cards

RequestsOK == \A r \in Requests : RequestOK(r)

OneWaits == \A c, d \in Pending : c = d

OneApproves == \A q, r \in Requests : HoldsLock(q) /\ HoldsLock(r) => q = r

\* An approve that pays has decided its card; a card whose approve was cut short, or whose
\* payment may have landed and must not be made again, stays decided.
DecidedStay ==
  /\ \A r \in Requests : Paying(r) => cards[req[r].of] = "approved" /\ req[r].of \notin cut
  /\ \A c \in cut : cards[c] = "approved"
  /\ stuck => paid # None /\ \E c \in DOMAIN cards : cards[c] = "approved"

InHands ==
  run = "done_pending" => \/ Pending # {} \/ stuck \/ cut # {}
                          \/ \E r \in Requests : Paying(r)

CardInv == TypeOK /\ RequestsOK /\ OneWaits /\ OneApproves /\ DecidedStay /\ InHands

-----------------------------------------------------------------------------
(* What is paid is what the run shows.                                     *)

\* What a request about a step read of the run is true until it writes.
ReadsHold ==
  \A r \in Requests : req[r].pc = "read" /\ req[r].kind \notin CardKinds => req[r].sawRun = run

\* A card waits only for a run that is handed in.
CardsWaitForRuns == Pending # {} => run = "done_pending"

\* The amount an approve carries is what the run is worth, as long as its card was not
\* sent back; once it is decided, no card waits and the run stays as it is.
ApproverOK(r) ==
  /\ req[r].pc = "priced" /\ cards[req[r].of] = "pending" => req[r].value = Worth
  /\ Paying(r) => /\ run = "done_pending" /\ Pending = {} /\ req[r].value = Worth
                  /\ cards[req[r].of] = "approved"
  /\ req[r].pc = "settling" => paid # None

ApproversOK == \A r \in Requests : ApproverOK(r)

\* What may have landed is what the run is worth, and the run is never taken back.
PaidIsWorth == paid # None => run \in {"done_pending", "approved"} /\ paid = Worth

PayInv ==
  /\ CardInv /\ ReadsHold /\ CardsWaitForRuns
  /\ ApproversOK /\ PaidIsWorth /\ PaidForWhatIsDone
=============================================================================
