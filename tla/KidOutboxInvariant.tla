-------------------------- MODULE KidOutboxInvariant --------------------------
(***************************************************************************)
(* The inductive invariant of KidOutbox: why a saved tap outlives a flush. *)
(* What a flush in flight still has to post and what it kept are, between  *)
(* them, every tap that is owed, each once; what is on disk meanwhile is   *)
(* what the flush loaded.                                                  *)
(***************************************************************************)
EXTENDS KidOutbox

\* One tap per job.
Once(q) == \A i, k \in DOMAIN q : q[i].job = q[k].job => i = k

FlushOK ==
  /\ flush \in [on : BOOLEAN, todo : Seq(Entry), kept : Seq(Entry)]
  /\ Once(box) /\ Once(flush.todo) /\ Once(flush.kept)
  /\ Queued(flush.todo) \cap Queued(flush.kept) = {}

QueueInv == TypeOK /\ FlushOK

\* Nothing owed is outside of the flush in flight, or of the disk.
OwedIsCarried == flush.on => owed \subseteq Queued(flush.todo) \cup Queued(flush.kept)

TapInv == QueueInv /\ TapNotForgotten /\ OwedIsCarried
=============================================================================
