----------------------- MODULE ParentPayoutInvariant -----------------------
(***************************************************************************)
(* The inductive invariant of ParentPayout: why one signed transaction at  *)
(* most pays for a chore, and why no purchase is netted twice.  A claim    *)
(* names the one intent whose bytes may be on the wire, and everybody who  *)
(* acts for those bytes (a relay, a replay, a ledger row) finds that claim *)
(* still there.  What a claim pins is never more than what is owed.        *)
(***************************************************************************)
EXTENDS ParentPayout

\* A signed transaction may be behind the claim.
OnWire(c) == attempt[c].status \in {"in_flight", "settled"}
Paid(c) == cleared[c] # 0 \/ \E e \in Events : event[e].of = c

-----------------------------------------------------------------------------
(* The requests.                                                           *)

RequestOK(h) ==
  /\ task[h].pc # "idle" <=> task[h].act # None
  /\ task[h].pc = "idle" <=> task[h].of = None
  /\ task[h].act = "mint" => task[h].pc \in {"height", "decide", "finish"} /\ task[h].gross > 0
  /\ task[h].act = "relay" =>
       /\ task[h].pc \in {"parse", "wire", "row", "settle", "decide", "finish"}
       /\ task[h].tx \in Intents /\ task[h].want \in Intents
  /\ task[h].act = "repay" =>
       /\ task[h].pc \in {"look", "attempt", "wire", "row", "settle", "prepare", "mark"}
       /\ task[h].ev \in Events

Requests == \A h \in Handlers : RequestOK(h)

\* A repay holds the family spend lock, and no relay is under way beside it;
\* nobody else runs between a ledger row and its claim.
Alone ==
  \A h \in Handlers :
    /\ task[h].act \in {"mint", "repay"} => lock = h
    /\ task[h].act = "repay" => ~ Relaying(task[h].of)
    /\ task[h].pc = "settle" => cpu = h

-----------------------------------------------------------------------------
(* The rows.                                                               *)

\* A row that is in use names its chore.
Cards == \A a \in Approvals : approval[a].status = "none" <=> approval[a].of = None

ClaimOK(c) ==
  /\ attempt[c].status = "none" => attempt[c].intent = None
  /\ attempt[c].intent # None => /\ intent[attempt[c].intent].of = c
                                 /\ intent[attempt[c].intent].state # "none"
  /\ attempt[c].status = "preparing" /\ attempt[c].intent # None =>
       intent[attempt[c].intent].state = "offered"
  /\ OnWire(c) => attempt[c].intent \in Intents /\ attempt[c].bytes = attempt[c].intent
  /\ attempt[c].status = "settled" => RowsFor(c) # {}

Claims == \A c \in Chores : ClaimOK(c)

IntentOK(m) ==
  /\ intent[m].state = "none" <=> intent[m].of = None
  /\ Alive(m) => OnWire(intent[m].of) /\ attempt[intent[m].of].intent = m

IntentsOK == \A m \in Intents : IntentOK(m)

RowOK(e) ==
  /\ event[e].status = "none" <=> event[e].of = None
  /\ event[e].status = "pending" => event[e].held
  /\ event[e].held =>
       /\ event[e].of # None
       /\ OnWire(event[e].of) /\ attempt[event[e].of].intent = event[e].hash

Ledger ==
  /\ \A e \in Events : RowOK(e)
  /\ \A e, f \in Events : event[e].held /\ event[f].held /\ event[e].of = event[f].of => e = f

-----------------------------------------------------------------------------
(* Whoever acts for a transaction finds its claim.                         *)

PayerOK(h) ==
  /\ task[h].pc = "parse" =>
       /\ intent[task[h].want].state # "none" /\ intent[task[h].want].of = task[h].of
       /\ clock <= intent[task[h].want].expires => attempt[task[h].of].intent = task[h].want
  /\ task[h].pc \in {"wire", "row", "settle"} =>
       /\ OnWire(task[h].of) /\ attempt[task[h].of].intent = task[h].tx
       /\ task[h].act = "relay" => task[h].want = task[h].tx
  /\ task[h].pc = "settle" => RowsFor(task[h].of) # {}
  /\ task[h].act = "repay" /\ task[h].pc \in {"attempt", "wire", "row", "prepare"} =>
       RowsFor(task[h].of) = {}
  /\ task[h].pc \in {"decide", "finish"} => Paid(task[h].of)

Payers == \A h \in Handlers : PayerOK(h)

IInv ==
  /\ TypeOK /\ Requests /\ Alone /\ Cards /\ Claims /\ IntentsOK /\ Ledger /\ Payers
  /\ ApprovedIsPaidFor

-----------------------------------------------------------------------------
(* Netting, until a server-signed repay may take over a claim.             *)

\* What is taken out of the kid's earnings for this chore.
Committed(c) == IF Reserves(c, clock) THEN Pinned[c] ELSE cleared[c]

NettingOK(c) ==
  /\ attempt[c].status = "preparing" => cleared[c] = 0
  /\ attempt[c].status = "in_flight" => cleared[c] \in {0, Pinned[c]}
  /\ attempt[c].status = "settled" => cleared[c] = Pinned[c]
  /\ RowsFor(c) # {} => cleared[c] = Pinned[c]

Netting ==
  /\ \A c \in Chores : NettingOK(c)
  /\ \A h \in Handlers : task[h].pc \in {"row", "settle"} => cleared[task[h].of] = Pinned[task[h].of]
  /\ SumFunctionOnSet([c \in Chores |-> Committed(c)], Chores) <= Debts({"purchase"})

NInv ==
  /\ IInv
  /\ Outstanding <= ChainBalance
  /\ ~ RepayPossible => (\A h \in Handlers : task[h].act # "repay") /\ Netting
=============================================================================
