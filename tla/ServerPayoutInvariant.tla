----------------------- MODULE ServerPayoutInvariant -----------------------
(***************************************************************************)
(* The inductive invariant of ServerPayout: why a piece of work is paid by *)
(* one transaction.  The family spend lock lets one request at a time past *)
(* the queue; that request builds a transaction only when neither a ledger *)
(* row nor a claim in flight stands for the work; and every transaction    *)
(* that may still move money is held by such a row or such a claim.        *)
(***************************************************************************)
EXTENDS ServerPayout

\* Work the request is paying for, and not yet past its ledger row.
Paying == {"wallet", "prepare", "wire", "settle"}
OnTheBooks(e) == event[e].status \in {"pending", "done"}
InFlight(r) == attempt[r].status = "in_flight"
WritingOff == sweep.step \in {"key", "claim"}
Active(h) == task[h].pc \notin {"idle", "queued"}

\* A request knows what it was asked to do, and on what.
RequestOK(h) ==
  task[h].pc # "idle" =>
    /\ task[h].act \in {"approve", "direct", "repay"}
    /\ task[h].pays \in Subjects
    /\ task[h].act = "approve" => task[h].appr \in Approvals
    /\ task[h].act = "direct" /\ task[h].pc \in Paying => task[h].appr \in Approvals
    /\ task[h].act # "repay" => task[h].ref = task[h].pays
    /\ task[h].act = "repay" =>
         /\ task[h].ev \in Events
         /\ event[task[h].ev].status = "failed"
         /\ event[task[h].ev].pays = task[h].pays
         /\ task[h].pc \in Paying => task[h].ref = task[h].pays

Requests == \A h \in Handlers : RequestOK(h)

\* Only the head of the family spend lock's queue is past the queue.
OneAtATime ==
  \A h \in Handlers : Active(h) => lock # <<>> /\ Head(lock) = h

\* What a ledger row of each status says.
RowOK(e) ==
  /\ event[e].status = "none" => event[e].ref = None
  /\ OnTheBooks(e) => /\ event[e].pays \in Subjects /\ event[e].ref = event[e].pays
                      /\ event[e].hash \in Txs /\ tx[event[e].hash].state \notin {"none", "held"}
  /\ event[e].status = "failed" =>
       /\ event[e].ref = None /\ event[e].pays \in Subjects
       /\ event[e].hash \in Txs /\ tx[event[e].hash].state = "rejected"
       /\ \/ event[e].retired = event[e].pays
          \/ sweep.step = "key" /\ sweep.ev = e /\ sweep.key = event[e].pays

Rows ==
  /\ \A a \in Approvals : approval[a].status # "none" => approval[a].of \in Subjects
  /\ \A e \in Events : RowOK(e)
  /\ \A e, f \in Events : event[e].ref = event[f].ref /\ event[e].ref # None => e = f

\* A transaction that may still move money is the only one for its work, is
\* held by a row or by a claim in flight, and is the one these name.
Held ==
  \A t \in Txs : Alive(t) =>
    /\ tx[t].ref \in Subjects /\ tx[t].pays = tx[t].ref
    /\ InFlight(tx[t].ref) \/ \E e \in Events : event[e].ref = tx[t].ref

Single == \A t, u \in Txs : Alive(t) /\ Alive(u) /\ tx[t].ref = tx[u].ref => t = u

Named ==
  \A t \in Txs : Alive(t) =>
    /\ \A e \in Events : OnTheBooks(e) /\ event[e].ref = tx[t].ref => event[e].hash = t
    /\ InFlight(tx[t].ref) /\ attempt[tx[t].ref].bytes # None => attempt[tx[t].ref].bytes = t

Money == Held /\ Single /\ Named

\* The request that pays finds the ledger as its guards left it.
PayerOK(h) ==
  /\ task[h].pc \in {"wallet", "prepare", "wire"} =>
       \A e \in Events : event[e].ref # task[h].ref
  /\ task[h].pc = "prepare" => attempt[task[h].ref].status \in {"preparing", "settled"}
  /\ task[h].pc = "wire" =>
       /\ InFlight(task[h].ref) /\ task[h].tx \in Txs
       /\ \A t \in Txs : Alive(t) /\ tx[t].ref = task[h].ref => t = task[h].tx
  /\ task[h].pc = "settle" =>
       /\ cpu = h
       /\ \E e \in Events : event[e].ref = task[h].ref

Payer == \A h \in Handlers : PayerOK(h)

\* The sweep acts on what the chain said about a row still pending, and a
\* write-off has nobody else's money in it.
Sweeping ==
  /\ cpu = "sweeper" <=> WritingOff
  /\ sweep.step # "idle" => sweep.ev \in Events
  /\ sweep.step \in {"executed", "rejected", "unknown", "unavailable"} =>
       event[sweep.ev].status = "pending"
  /\ sweep.step \in {"executed", "rejected"} => tx[event[sweep.ev].hash].state = sweep.step
  /\ WritingOff =>
       /\ event[sweep.ev].status = "failed"
       /\ sweep.key = event[sweep.ev].pays /\ sweep.key \in Subjects
       /\ \A t \in Txs : Alive(t) => tx[t].ref # sweep.key
       /\ \A h \in Handlers : task[h].pc \in Paying => task[h].ref # sweep.key

\* Everything above, while a write-off is not torn by a crash.
IInv == TypeOK /\ Requests /\ OneAtATime /\ Rows /\ Money /\ Payer /\ Sweeping

-----------------------------------------------------------------------------
(* What a refinement of PayOnce needs besides: the same of a transaction   *)
(* the chain refused, until the ledger has written it off.                 *)

Cur(t) == tx[t].state # "none" /\ ~ WrittenOff(t)

Backed ==
  \A t \in Txs : Cur(t) =>
    /\ tx[t].ref \in Subjects /\ tx[t].pays = tx[t].ref
    /\ InFlight(tx[t].ref) \/ \E e \in Events : event[e].ref = tx[t].ref

Lone == \A t, u \in Txs : Cur(t) /\ Cur(u) /\ tx[t].ref = tx[u].ref => t = u

\* What a row, a claim, a broadcast and a write-off name.
RowsNameCur ==
  \A e \in Events : OnTheBooks(e) => Cur(event[e].hash) /\ tx[event[e].hash].ref = event[e].ref

ClaimsNameCur ==
  \A r \in Refs :
    InFlight(r) /\ attempt[r].bytes # None /\ ~ (WritingOff /\ sweep.key = r) =>
      Cur(attempt[r].bytes) /\ tx[attempt[r].bytes].ref = r

PayersNameCur ==
  \A h \in Handlers : task[h].pc = "wire" => Cur(task[h].tx) /\ tx[task[h].tx].ref = task[h].ref

NoneIsWrittenOff == WritingOff => \A t \in Txs : Cur(t) => tx[t].ref # sweep.key

RInv == IInv /\ Backed /\ Lone /\ RowsNameCur /\ ClaimsNameCur /\ PayersNameCur /\ NoneIsWrittenOff

-----------------------------------------------------------------------------
(* What the price of a request needs.                                      *)

\* The card a request was made for is there.
CardKnown(h) ==
  task[h].pc # "idle" /\ task[h].act = "approve" => approval[task[h].appr].status # "none"
Priced(h) ==
  Active(h) /\ task[h].act = "approve" =>
    task[h].value = ApplyShare(Full[task[h].pays], approval[task[h].appr].share)
Cards == \A h \in Handlers : CardKnown(h) /\ Priced(h)
=============================================================================
