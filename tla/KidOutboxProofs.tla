--------------------------- MODULE KidOutboxProofs ---------------------------
(***************************************************************************)
(* Proofs about KidOutbox, for every routine and every number of chores:   *)
(* the queue and the flush, the painted board, and what a late tap may do. *)
(***************************************************************************)
EXTENDS KidOutboxInvariant, TLAPS

-----------------------------------------------------------------------------
(* Queues of taps.                                                         *)

\* Taking the first tap off a queue.
LEMMA Dequeued ==
  ASSUME NEW q \in Seq(Entry), q # <<>>
  PROVE  /\ Tail(q) \in Seq(Entry) /\ Head(q) \in Entry
         /\ Queued(q) = Queued(Tail(q)) \cup {Head(q).job}
         /\ Once(q) => Once(Tail(q)) /\ Head(q).job \notin Queued(Tail(q))
<1>1. /\ Tail(q) \in Seq(Entry) /\ Head(q) = q[1] /\ q[1] \in Entry /\ Len(q) \in Nat /\ Len(q) > 0
      /\ DOMAIN q = 1 .. Len(q) /\ DOMAIN Tail(q) = 1 .. (Len(q) - 1)
      /\ \A i \in DOMAIN Tail(q) : Tail(q)[i] = q[i + 1]
  OBVIOUS
<1>2. Queued(q) \subseteq Queued(Tail(q)) \cup {Head(q).job}
  <2>1. ASSUME NEW i \in DOMAIN q, i # 1 PROVE q[i].job \in Queued(Tail(q))
    <3>1. i - 1 \in DOMAIN Tail(q) /\ Tail(q)[i - 1] = q[i]
      BY <1>1, <2>1
    <3> QED BY <3>1 DEF Queued
  <2> QED BY <1>1, <2>1 DEF Queued
<1>3. Queued(Tail(q)) \subseteq Queued(q) /\ Head(q).job \in Queued(q)
  <2>1. \A i \in DOMAIN Tail(q) : i + 1 \in DOMAIN q
    BY <1>1
  <2> QED BY <1>1, <2>1 DEF Queued
<1>4. ASSUME Once(q) PROVE Once(Tail(q)) /\ Head(q).job \notin Queued(Tail(q))
  <2>1. \A i \in DOMAIN Tail(q) : i + 1 \in DOMAIN q /\ i + 1 # 1 /\ i \in Int
    BY <1>1
  <2> QED BY <1>1, <1>4, <2>1 DEF Once, Queued
<1> QED BY <1>1, <1>2, <1>3, <1>4

\* Putting a tap at the end of a queue.
LEMMA Enqueued ==
  ASSUME NEW q \in Seq(Entry), NEW e \in Entry
  PROVE  /\ Append(q, e) \in Seq(Entry) /\ Queued(Append(q, e)) = Queued(q) \cup {e.job}
         /\ Once(q) /\ e.job \notin Queued(q) => Once(Append(q, e))
<1>1. /\ Append(q, e) \in Seq(Entry) /\ Len(q) \in Nat /\ DOMAIN q = 1 .. Len(q)
      /\ DOMAIN Append(q, e) = DOMAIN q \cup {Len(q) + 1} /\ Append(q, e)[Len(q) + 1] = e
      /\ \A i \in DOMAIN q : Append(q, e)[i] = q[i]
  OBVIOUS
<1> QED BY <1>1 DEF Queued, Once

\* Putting one queue behind another.
LEMMA Joined ==
  ASSUME NEW p \in Seq(Entry), NEW q \in Seq(Entry)
  PROVE  /\ p \o q \in Seq(Entry) /\ Queued(p \o q) = Queued(p) \cup Queued(q)
         /\ Once(p) /\ Once(q) /\ Queued(p) \cap Queued(q) = {} => Once(p \o q)
<1>1. /\ p \o q \in Seq(Entry) /\ Len(p) \in Nat /\ Len(q) \in Nat /\ Len(p \o q) = Len(p) + Len(q)
      /\ \A i \in 1 .. Len(p) : (p \o q)[i] = p[i]
      /\ \A i \in 1 .. Len(q) : (p \o q)[Len(p) + i] = q[i]
      /\ DOMAIN p = 1 .. Len(p) /\ DOMAIN q = 1 .. Len(q) /\ DOMAIN (p \o q) = 1 .. Len(p) + Len(q)
  OBVIOUS
<1>2. ASSUME NEW i \in DOMAIN (p \o q), i \notin DOMAIN p
      PROVE  i - Len(p) \in DOMAIN q /\ (p \o q)[i] = q[i - Len(p)]
  <2>1. i - Len(p) \in 1 .. Len(q) /\ Len(p) + (i - Len(p)) = i
    BY <1>1, <1>2
  <2> QED BY <1>1, <2>1
<1>3. Queued(p \o q) = Queued(p) \cup Queued(q)
  <2>1. \A i \in DOMAIN p : i \in DOMAIN (p \o q)
    BY <1>1
  <2>2. \A i \in DOMAIN q : Len(p) + i \in DOMAIN (p \o q)
    BY <1>1
  <2>3. Queued(p) \subseteq Queued(p \o q)
    BY <1>1, <2>1 DEF Queued
  <2>4. Queued(q) \subseteq Queued(p \o q)
    BY <1>1, <2>2 DEF Queued
  <2>5. Queued(p \o q) \subseteq Queued(p) \cup Queued(q)
    BY <1>1, <1>2 DEF Queued
  <2> QED BY <2>3, <2>4, <2>5
<1>4. ASSUME Once(p), Once(q), Queued(p) \cap Queued(q) = {}, NEW i \in DOMAIN (p \o q), NEW k \in DOMAIN (p \o q),
             (p \o q)[i].job = (p \o q)[k].job
      PROVE  i = k
  <2>1. CASE i \in DOMAIN p /\ k \in DOMAIN p
    BY <1>1, <1>4, <2>1 DEF Once
  <2>2. CASE i \notin DOMAIN p /\ k \notin DOMAIN p
    <3>1. i - Len(p) = k - Len(p)
      BY <1>2, <1>4, <2>2 DEF Once
    <3> QED BY <1>1, <3>1
  <2>3. ASSUME NEW x \in DOMAIN p, NEW y \in DOMAIN (p \o q), y \notin DOMAIN p
        PROVE  (p \o q)[x].job # (p \o q)[y].job
    <3>1. (p \o q)[x].job \in Queued(p)
      BY <1>1, <2>3 DEF Queued
    <3>2. (p \o q)[y].job \in Queued(q)
      BY <1>2, <2>3 DEF Queued
    <3> QED BY <1>4, <3>1, <3>2
  <2>4. i \in DOMAIN p <=> k \in DOMAIN p
    BY <1>4, <2>3
  <2> QED BY <2>1, <2>2, <2>4
<1> QED BY <1>1, <1>3, <1>4 DEF Once

\* Growing old changes no job.
LEMMA Aged ==
  ASSUME NEW q \in Seq(Entry), NEW aged, aged = [i \in DOMAIN q |-> [q[i] EXCEPT !.old = TRUE]]
  PROVE  aged \in Seq(Entry) /\ Queued(aged) = Queued(q) /\ (Once(q) => Once(aged))
<1>1. DOMAIN aged = DOMAIN q /\ \A i \in DOMAIN q : aged[i] \in Entry /\ aged[i].job = q[i].job
  <2>1. ASSUME NEW i \in DOMAIN q PROVE aged[i] \in Entry /\ aged[i].job = q[i].job
    <3>1. q[i] \in Entry /\ aged[i] = [q[i] EXCEPT !.old = TRUE]
      OBVIOUS
    <3> QED BY <3>1 DEF Entry
  <2> QED BY <2>1
<1>2. aged \in Seq(Entry)
  BY <1>1
<1> QED BY <1>1, <1>2 DEF Queued, Once

\* No job twice, said of the sequence of jobs.
LEMMA OnceIsInjective ==
  ASSUME NEW q
  PROVE  IsInjective([i \in DOMAIN q |-> q[i].job]) <=> Once(q)
BY DEF IsInjective, Once

-----------------------------------------------------------------------------
(* The server.                                                             *)

\* The server's part of the state.
ServerOK ==
  /\ task \in [Steps -> StepStatus] /\ run \in RunStatus
  /\ chore \in [Chores -> {"open", "submitted", "rejected", "approved"}]

\* What only a handler that read its rows before may turn: an excused step or
\* one left behind into a done one, an approved chore into anything else.
NothingUndone ==
  /\ \A s \in Steps : task[s] \in {"skipped", "passed"} /\ task'[s] = "done" => s \in late \ late'
  /\ \A c \in Chores : chore[c] = "approved" /\ chore'[c] # "approved" => c \in late \ late'

\* Writing the rows, and handing in the run with the last open one.
LEMMA RunFinished ==
  ASSUME ServerOK, NEW rows \in [Steps -> StepStatus], FinishRun(rows), UNCHANGED chore
  PROVE  ServerOK' /\ \A t \in Steps : task'[t] = "done" => rows[t] = "done"
<1>1. Passed(rows) \in [Steps -> StepStatus] /\ \A t \in Steps : Passed(rows)[t] \in {rows[t], "passed"}
  BY DEF Passed, StepStatus, OverStatus
<1>2. (task' = rows \/ task' = Passed(rows)) /\ run' \in RunStatus
  BY DEF FinishRun, ServerOK, RunStatus
<1> QED BY <1>1, <1>2 DEF ServerOK

\* What a tap's handler writes touches its own job, and no other for the worse.
LEMMA TapWritten ==
  ASSUME ServerOK, NEW j \in Jobs, Write(j)
  PROVE  /\ ServerOK'
         /\ \A s \in Steps : task[s] \in {"skipped", "passed"} /\ task'[s] = "done" => s = j
         /\ \A c \in Chores : chore[c] = "approved" /\ chore'[c] # "approved" => c = j
<1>1. CASE j \in Chores
  <2>1. chore' = [chore EXCEPT ![j] = "submitted"] /\ UNCHANGED <<task, run>>
    BY <1>1 DEF Write
  <2> QED BY <2>1 DEF ServerOK
<1>2. CASE j \notin Chores
  <2> DEFINE rows == [task EXCEPT ![j] = IF @ = "absent" THEN @ ELSE "done"]
  <2>1. FinishRun(rows) /\ UNCHANGED chore
    BY <1>2 DEF Write
  <2>2. /\ rows \in [Steps -> StepStatus]
        /\ \A t \in Steps : t # j => rows[t] = task[t]
    BY DEF ServerOK, StepStatus, OverStatus
  <2> HIDE DEF rows
  <2>3. ServerOK' /\ \A t \in Steps : task'[t] = "done" => rows[t] = "done"
    BY <2>1, <2>2, RunFinished
  <2> QED BY <2>1, <2>2, <2>3
<1> QED BY <1>1, <1>2

\* The server hears of a tap, in time or late, once or again.
LEMMA TapLanded ==
  ASSUME ServerOK, NEW j \in Jobs, Land(j)
  PROVE  ServerOK' /\ NothingUndone
<1>1. CASE StatusFor(j) # "ok"
  BY <1>1 DEF Land, server, ServerOK, NothingUndone
<1>2. CASE StatusFor(j) = "ok"
  <2>1. Write(j)
    BY <1>2 DEF Land
  <2>2. j \in Steps /\ j \notin Chores => task[j] \notin {"skipped", "passed"}
    BY <1>2 DEF StatusFor, TaskFinished, OverStatus
  <2>3. j \in Chores => chore[j] # "approved"
    BY <1>2 DEF StatusFor, ChoreClosed
  <2> QED BY <2>1, <2>2, <2>3, TapWritten, KidOutboxAssumption DEF NothingUndone
<1> QED BY <1>1, <1>2

\* A handler that had read its rows before writes.
LEMMA LateTapLanded ==
  ASSUME ServerOK, NEW j \in Jobs, WriteLate(j)
  PROVE  ServerOK' /\ NothingUndone
<1>1. j \in late \ late' /\ Write(j)
  BY DEF WriteLate
<1> QED BY <1>1, TapWritten DEF NothingUndone

\* Nothing on the server moves.
LEMMA ServerIdle ==
  ASSUME ServerOK, UNCHANGED server
  PROVE  ServerOK' /\ NothingUndone
BY DEF server, ServerOK, NothingUndone

\* What the server's other users do to it.
LEMMA OthersStep ==
  ASSUME ServerOK, Others
  PROVE  ServerOK' /\ NothingUndone
<1>1. ASSUME NEW s \in Steps, ParentSkips(s) PROVE ServerOK' /\ NothingUndone
  <2> DEFINE rows == [task EXCEPT ![s] = "skipped"]
  <2>1. FinishRun(rows) /\ UNCHANGED chore
    BY <1>1 DEF ParentSkips
  <2>2. /\ rows \in [Steps -> StepStatus]
        /\ \A t \in Steps : rows[t] = "done" => task[t] = "done"
    BY DEF ServerOK, StepStatus, OverStatus
  <2> HIDE DEF rows
  <2>3. ServerOK' /\ \A t \in Steps : task'[t] = "done" => rows[t] = "done"
    BY <2>1, <2>2, RunFinished
  <2> QED BY <2>1, <2>2, <2>3 DEF NothingUndone
<1>2. ASSUME NEW s \in Steps, DropStep(s) PROVE ServerOK' /\ NothingUndone
  BY <1>2 DEF DropStep, ServerOK, NothingUndone, StepStatus, OpenStatus
<1>3. CASE KidEndsRun
  <2>1. /\ Passed(task) \in [Steps -> StepStatus]
        /\ \A t \in Steps : Passed(task)[t] \in {task[t], "passed"}
    BY DEF Passed, ServerOK, StepStatus, OverStatus
  <2> QED BY <1>3, <2>1 DEF KidEndsRun, ServerOK, NothingUndone, RunStatus
<1>4. CASE DecideRun
  BY <1>4 DEF DecideRun, ServerOK, NothingUndone, RunStatus
<1>5. ASSUME NEW c \in Chores, DecideChore(c) PROVE ServerOK' /\ NothingUndone
  BY <1>5 DEF DecideChore, ServerOK, NothingUndone
<1> QED BY <1>1, <1>2, <1>3, <1>4, <1>5 DEF Others

\* What any step does to the server.
LEMMA ServerStep ==
  ASSUME QueueInv, [Next]_vars
  PROVE  ServerOK' /\ NothingUndone
<1>1. ServerOK
  BY DEF QueueInv, TypeOK, ServerOK
<1>2. ASSUME flush.todo # <<>> PROVE Current.job \in Jobs
  <2>1. flush.todo \in Seq(Entry)
    BY DEF QueueInv, TypeOK
  <2>2. Head(flush.todo) \in Entry
    BY <1>2, <2>1, Dequeued
  <2> QED BY <2>2 DEF Current, Entry
<1>3. ASSUME NEW j \in Jobs, TapAnswered(j) \/ TapHangs(j) \/ TapGoesThrough(j) \/ TapThrows(j)
      PROVE  ServerOK' /\ NothingUndone
  BY <1>1, <1>3, TapLanded, LateTapLanded, ServerIdle DEF TapAnswered, TapHangs, TapGoesThrough, TapThrows
<1>4. CASE Deliver
  BY <1>1, <1>2, <1>4, TapLanded, LateTapLanded DEF Deliver, Posting
<1>5. CASE NoAnswer
  BY <1>1, <1>2, <1>5, TapLanded, ServerIdle DEF NoAnswer, Posting
<1>6. CASE Reload
  BY <1>1, <1>2, <1>6, TapLanded, ServerIdle DEF Reload, Posting
<1>7. CASE StartFlush \/ Expire \/ Busy \/ EndFlush \/ WeekPasses \/ NetChanges \/ UNCHANGED vars
  BY <1>1, <1>7, ServerIdle DEF StartFlush, Expire, Busy, EndFlush, WeekPasses, NetChanges, vars
<1>8. CASE Others
  BY <1>1, <1>8, OthersStep
<1> QED BY <1>3, <1>4, <1>5, <1>6, <1>7, <1>8 DEF Next, Kid, Flush, Tablet

-----------------------------------------------------------------------------
(* The tablet.                                                             *)

\* The tablet's part of the state.
ClientOK ==
  /\ net \in {"down", "up"} /\ late \subseteq Jobs /\ owed \subseteq Jobs
  /\ box \in Seq(Entry) /\ FlushOK

\* The invariant is the server's part and the tablet's.
LEMMA QueueInvParts == QueueInv <=> ServerOK /\ ClientOK
BY OnceIsInjective DEF QueueInv, TypeOK, FlushOK, ServerOK, ClientOK

\* The same of the next state.
LEMMA QueueInvPartsNext == QueueInv' <=> ServerOK' /\ ClientOK'
BY QueueInvParts, PTL

\* The empty queue.
LEMMA EmptyQueue == << >> \in Seq(Entry) /\ Queued(<< >>) = {} /\ Once(<< >>)
<1>1. << >> \in Seq(Entry) /\ DOMAIN << >> = {}
  OBVIOUS
<1> QED BY <1>1 DEF Queued, Once

\* A tap is written down once.
LEMMA TapQueued ==
  ASSUME box \in Seq(Entry), Once(box), NEW j \in Jobs
  PROVE  /\ queueTap(j) \in Seq(Entry) /\ Once(queueTap(j))
         /\ Queued(queueTap(j)) = Queued(box) \cup {j}
<1>1. CASE j \in Queued(box)
  BY <1>1 DEF queueTap
<1>2. CASE j \notin Queued(box)
  <2> DEFINE e == [job |-> j, old |-> FALSE]
  <2>1. e \in Entry /\ e.job = j
    BY DEF Entry
  <2> HIDE DEF e
  <2>2. queueTap(j) = Append(box, e)
    BY <1>2 DEF queueTap, e
  <2> QED BY <1>2, <2>1, <2>2, Enqueued
<1> QED BY <1>1, <1>2

\* The entry under the flush's finger leaves the list of what is to be
\* posted, for the list of what is kept or for good.
LEMMA FlushAdvances ==
  ASSUME FlushOK, box \in Seq(Entry), flush.todo # <<>>, UNCHANGED box,
         NEW stays \in BOOLEAN,
         flush' = [flush EXCEPT !.todo = Tail(@), !.kept = IF stays THEN Append(@, Current) ELSE @]
  PROVE  /\ FlushOK' /\ flush'.on = flush.on /\ Current.job \in Jobs
         /\ Queued(flush.todo) = Queued(flush'.todo) \cup {Current.job}
         /\ Queued(flush'.kept) = IF stays THEN Queued(flush.kept) \cup {Current.job} ELSE Queued(flush.kept)
<1> DEFINE e == Current
<1>1. flush.todo \in Seq(Entry) /\ flush.kept \in Seq(Entry)
  BY DEF FlushOK
<1>2. /\ Tail(flush.todo) \in Seq(Entry) /\ e \in Entry
      /\ Queued(flush.todo) = Queued(Tail(flush.todo)) \cup {e.job}
      /\ Once(Tail(flush.todo)) /\ e.job \notin Queued(Tail(flush.todo))
  BY <1>1, Dequeued DEF FlushOK, Current
<1>3. e.job \notin Queued(flush.kept)
  BY <1>2 DEF FlushOK
<1>4. /\ Append(flush.kept, e) \in Seq(Entry) /\ Once(Append(flush.kept, e))
      /\ Queued(Append(flush.kept, e)) = Queued(flush.kept) \cup {e.job}
  BY <1>1, <1>2, <1>3, Enqueued DEF FlushOK
<1>5. /\ flush'.on = flush.on /\ flush'.todo = Tail(flush.todo)
      /\ flush'.kept = IF stays THEN Append(flush.kept, e) ELSE flush.kept
      /\ flush' = [on |-> flush'.on, todo |-> flush'.todo, kept |-> flush'.kept]
  BY DEF FlushOK
<1>6. e.job \in Jobs
  BY <1>2 DEF Entry
<1>7. flush'.kept \in Seq(Entry) /\ Once(flush'.kept)
      /\ Queued(flush'.kept) = IF stays THEN Queued(flush.kept) \cup {e.job} ELSE Queued(flush.kept)
  BY <1>1, <1>4, <1>5 DEF FlushOK
<1>8. flush' \in [on : BOOLEAN, todo : Seq(Entry), kept : Seq(Entry)]
  BY <1>2, <1>5, <1>7 DEF FlushOK
<1>9. Once(flush'.todo) /\ Once(box') /\ Queued(flush'.todo) \cap Queued(flush'.kept) = {}
  BY <1>2, <1>3, <1>5, <1>7 DEF FlushOK
<1> QED BY <1>2, <1>5, <1>6, <1>7, <1>8, <1>9 DEF FlushOK

\* The flush that gives up keeps the rest unposted.
LEMMA FlushGivesUp ==
  ASSUME FlushOK, box \in Seq(Entry), UNCHANGED box,
         flush' = [flush EXCEPT !.todo = <<>>, !.kept = @ \o flush.todo]
  PROVE  /\ FlushOK' /\ flush'.on = flush.on /\ Queued(flush'.todo) = {}
         /\ Queued(flush'.kept) = Queued(flush.kept) \cup Queued(flush.todo)
<1>1. flush.todo \in Seq(Entry) /\ flush.kept \in Seq(Entry)
  BY DEF FlushOK
<1>2. /\ flush.kept \o flush.todo \in Seq(Entry) /\ Once(flush.kept \o flush.todo)
      /\ Queued(flush.kept \o flush.todo) = Queued(flush.kept) \cup Queued(flush.todo)
  BY <1>1, Joined DEF FlushOK
<1>3. /\ flush'.on = flush.on /\ flush'.todo = <<>> /\ flush'.kept = flush.kept \o flush.todo
      /\ flush' = [on |-> flush'.on, todo |-> flush'.todo, kept |-> flush'.kept]
  BY DEF FlushOK
<1>4. flush' \in [on : BOOLEAN, todo : Seq(Entry), kept : Seq(Entry)]
  BY <1>2, <1>3, EmptyQueue DEF FlushOK
<1>5. Once(box') /\ Once(flush'.todo) /\ Once(flush'.kept) /\ Queued(flush'.todo) = {}
  BY <1>2, <1>3, EmptyQueue DEF FlushOK
<1> QED BY <1>2, <1>3, <1>4, <1>5 DEF FlushOK

\* No flush: nothing to post, nothing kept.
LEMMA FlushIdle ==
  ASSUME box' \in Seq(Entry), Once(box'), flush' = NoFlush
  PROVE  FlushOK'
<1>1. /\ flush' = [on |-> FALSE, todo |-> <<>>, kept |-> <<>>]
      /\ flush' \in [on : BOOLEAN, todo : Seq(Entry), kept : Seq(Entry)]
  BY EmptyQueue DEF NoFlush
<1> QED BY <1>1, EmptyQueue DEF FlushOK

\* What any step leaves of the queue and of the flush; and, where no tap is
\* written down behind a flush's back, that nothing owed falls between them.
LEMMA TabletStep ==
  ASSUME QueueInv, [Next]_vars
  PROVE  /\ ClientOK'
         /\ ~ TapDuringFlush /\ TapNotForgotten /\ OwedIsCarried
              => TapNotForgotten' /\ OwedIsCarried'
<1> DEFINE Kept == ~ TapDuringFlush /\ TapNotForgotten /\ OwedIsCarried
                     => TapNotForgotten' /\ OwedIsCarried'
<1> USE DEF ClientOK
<1>1. /\ ClientOK /\ Once(box)
      /\ flush.todo \in Seq(Entry) /\ flush.kept \in Seq(Entry) /\ Once(flush.kept)
  BY QueueInvParts DEF FlushOK
<1>0. ASSUME NEW j \in Jobs, Land(j) \/ WriteLate(j) \/ TapHangs(j) PROVE late' \subseteq Jobs
  BY <1>0, <1>1 DEF Land, WriteLate, TapHangs
<1>2. ASSUME UNCHANGED <<box, flush>>, owed' = owed, net' \in {"down", "up"}, late' \subseteq Jobs
      PROVE  ClientOK' /\ Kept
  BY <1>1, <1>2 DEF FlushOK, TapNotForgotten, OwedIsCarried
<1>3. ASSUME NEW j \in Jobs, TapThrows(j) PROVE ClientOK' /\ Kept
  <2>1. /\ box' = queueTap(j) /\ owed' = owed \cup {j} /\ UNCHANGED <<net, flush>>
        /\ (~ flush.on \/ TapDuringFlush)
        /\ late' \subseteq Jobs
    BY <1>0, <1>1, <1>3 DEF TapThrows
  <2>2. /\ box' \in Seq(Entry) /\ Once(box')
        /\ Queued(box') = Queued(box) \cup {j}
    BY <1>1, <2>1, TapQueued
  <2>3. FlushOK'
    BY <1>1, <2>1, <2>2 DEF FlushOK
  <2> QED BY <1>1, <2>1, <2>2, <2>3 DEF TapNotForgotten, OwedIsCarried
<1>4. CASE StartFlush
  <2>1. /\ flush' = [on |-> TRUE, todo |-> box, kept |-> <<>>] /\ UNCHANGED <<late, net, box, owed>>
    BY <1>4 DEF StartFlush
  <2>2. flush' \in [on : BOOLEAN, todo : Seq(Entry), kept : Seq(Entry)]
    BY <1>1, <2>1, EmptyQueue
  <2>3. FlushOK'
    BY <1>1, <2>1, <2>2, EmptyQueue DEF FlushOK
  <2> QED BY <1>1, <2>1, <2>3 DEF TapNotForgotten, OwedIsCarried
<1>5. CASE Expire
  <2>1. /\ flush.todo # <<>> /\ flush' = [flush EXCEPT !.todo = Tail(@)]
        /\ owed' = owed \ {Current.job} /\ UNCHANGED <<late, net, box>> /\ flush.on
    BY <1>5 DEF Expire
  <2>2. flush' = [flush EXCEPT !.todo = Tail(@), !.kept = IF FALSE THEN Append(@, Current) ELSE @]
    BY <1>1, <2>1 DEF FlushOK
  <2>3. /\ FlushOK'
        /\ Queued(flush.todo) = Queued(flush'.todo) \cup {Current.job}
        /\ Queued(flush'.kept) = Queued(flush.kept)
    BY <1>1, <2>1, <2>2, FlushAdvances
  <2> QED BY <1>1, <2>1, <2>3 DEF TapNotForgotten, OwedIsCarried
<1>6. CASE Deliver
  <2>0. /\ flush.on /\ flush.todo # <<>> /\ UNCHANGED <<net, box>>
        /\ Land(Current.job) \/ WriteLate(Current.job)
    BY <1>6 DEF Deliver, Posting
  <2>1. PICK status \in {"conflict", "ok", "gone"} : Heard(status)
    BY <1>6 DEF Deliver, StatusFor
  <2>2. Current.job \in Jobs
    BY <1>1, <2>0, Dequeued DEF Current, Entry
  <2>3. verdict(status) # "keep" /\ status # "busy" /\ late' \subseteq Jobs
    BY <1>0, <2>0, <2>2 DEF verdict
  <2>4. /\ flush' = [flush EXCEPT !.todo = Tail(@), !.kept = IF FALSE THEN Append(@, Current) ELSE @]
        /\ owed' = owed \ {Current.job}
    BY <2>1, <2>3 DEF Heard
  <2>5. /\ FlushOK'
        /\ Queued(flush.todo) = Queued(flush'.todo) \cup {Current.job}
        /\ Queued(flush'.kept) = Queued(flush.kept)
    BY <1>1, <2>0, <2>4, FlushAdvances
  <2> QED BY <1>1, <2>0, <2>3, <2>4, <2>5 DEF TapNotForgotten, OwedIsCarried
<1>7. CASE Busy
  <2>1. /\ flush.on /\ flush.todo # <<>> /\ Heard("busy") /\ UNCHANGED <<late, net, box>>
    BY <1>7 DEF Busy, Posting
  <2>2. verdict("busy") = "keep"
    BY DEF verdict
  <2>3. /\ flush' = [flush EXCEPT !.todo = Tail(@), !.kept = IF TRUE THEN Append(@, Current) ELSE @]
        /\ owed' = owed
    BY <2>1, <2>2 DEF Heard
  <2>4. /\ FlushOK'
        /\ Queued(flush.todo) = Queued(flush'.todo) \cup {Current.job}
        /\ Queued(flush'.kept) = Queued(flush.kept) \cup {Current.job}
    BY <1>1, <2>1, <2>3, FlushAdvances
  <2> QED BY <1>1, <2>1, <2>3, <2>4 DEF TapNotForgotten, OwedIsCarried
<1>8. CASE NoAnswer
  <2>0. flush.on /\ flush.todo # <<>> /\ Current.job \in Jobs
    BY <1>1, <1>8, Dequeued DEF NoAnswer, Posting, Current, Entry
  <2>1. /\ flush.on /\ UNCHANGED <<net, box, owed>> /\ late' \subseteq Jobs
        /\ flush' = [flush EXCEPT !.todo = <<>>, !.kept = @ \o flush.todo]
    BY <1>0, <1>1, <1>8, <2>0 DEF NoAnswer
  <2>2. /\ FlushOK'
        /\ Queued(flush'.kept) = Queued(flush.kept) \cup Queued(flush.todo)
    BY <1>1, <2>1, FlushGivesUp
  <2> QED BY <1>1, <2>1, <2>2 DEF TapNotForgotten, OwedIsCarried
<1>9. CASE EndFlush
  <2>1. /\ flush.on /\ flush.todo = <<>> /\ box' = flush.kept /\ flush' = NoFlush
        /\ UNCHANGED <<late, net, owed>> /\ ~ flush'.on
    BY <1>9 DEF EndFlush, NoFlush
  <2>2. FlushOK'
    BY <1>1, <2>1, FlushIdle
  <2>3. Queued(flush.todo) = {}
    BY <2>1, EmptyQueue
  <2> QED BY <1>1, <2>1, <2>2, <2>3 DEF TapNotForgotten, OwedIsCarried
<1>10. CASE Reload
  <2>0. flush.todo # <<>> => Current.job \in Jobs
    BY <1>1, Dequeued DEF Current, Entry
  <2>1. flush' = NoFlush /\ UNCHANGED <<net, box, owed>> /\ ~ flush'.on /\ late' \subseteq Jobs
    BY <1>0, <1>1, <1>10, <2>0 DEF Reload, NoFlush, Posting
  <2>2. FlushOK'
    BY <1>1, <2>1, FlushIdle
  <2> QED BY <1>1, <2>1, <2>2 DEF TapNotForgotten, OwedIsCarried
<1>11. CASE WeekPasses
  <2>1. /\ box' = [i \in DOMAIN box |-> [box[i] EXCEPT !.old = TRUE]]
        /\ ~ flush.on /\ UNCHANGED <<late, net, flush, owed>>
    BY <1>11 DEF WeekPasses
  <2>2. box' \in Seq(Entry) /\ Queued(box') = Queued(box) /\ Once(box')
    BY <1>1, <2>1, Aged
  <2>3. FlushOK'
    BY <1>1, <2>1, <2>2 DEF FlushOK
  <2> QED BY <1>1, <2>1, <2>2, <2>3 DEF TapNotForgotten, OwedIsCarried
<1>12. ASSUME NEW j \in Jobs, TapAnswered(j) \/ TapHangs(j) \/ TapGoesThrough(j)
       PROVE  ClientOK' /\ Kept
  <2>1. UNCHANGED <<box, flush, net>> /\ owed' = owed /\ late' \subseteq Jobs
    BY <1>0, <1>12 DEF TapAnswered, TapHangs, TapGoesThrough, client
  <2> QED BY <1>1, <1>2, <2>1
<1>13. CASE NetChanges
  BY <1>1, <1>2, <1>13 DEF NetChanges, client
<1>14. CASE Others
  BY <1>1, <1>2, <1>14
    DEF Others, ParentSkips, DropStep, KidEndsRun, DecideRun, DecideChore, Elsewhere, client
<1>15. CASE UNCHANGED vars
  BY <1>1, <1>2, <1>15 DEF vars, client
<1> QED BY <1>3, <1>4, <1>5, <1>6, <1>7, <1>8, <1>9, <1>10, <1>11, <1>12, <1>13, <1>14, <1>15
       DEF Next, Kid, Flush, Tablet

\* The start: a fresh board, an empty queue.
LEMMA InitHolds == Init => TapInv
<1> SUFFICES ASSUME Init PROVE TapInv
  OBVIOUS
<1> USE DEF Init
<1>1. ServerOK
  BY DEF ServerOK, StepStatus, OpenStatus, RunStatus
<1>2. ClientOK
  <2>1. flush \in [on : BOOLEAN, todo : Seq(Entry), kept : Seq(Entry)]
    BY EmptyQueue DEF NoFlush
  <2> QED BY <2>1, EmptyQueue DEF ClientOK, FlushOK, NoFlush
<1>3. TapNotForgotten /\ OwedIsCarried
  BY DEF TapNotForgotten, OwedIsCarried, NoFlush
<1> QED BY <1>1, <1>2, <1>3, QueueInvParts DEF TapInv

-----------------------------------------------------------------------------
(* The theorems.                                                           *)

\* The queue and the flush in flight are in order, whatever the network, the
\* kid and the grown-ups do (outbox.js:32-102).
THEOREM QueueInvariant == Spec => []QueueInv
<1>1. QueueInv /\ [Next]_vars => QueueInv'
  BY ServerStep, TabletStep, QueueInvPartsNext
<1>2. Init => QueueInv
  BY InitHolds DEF TapInv
<1> QED BY <1>1, <1>2, PTL DEF Spec

\* Every variable holds a value the code can store there, and the queue on
\* disk never names a job twice (outbox.js, queueTap).
THEOREM TypeCorrect == Spec => []TypeOK
BY QueueInvariant, PTL DEF QueueInv

\* A tap the kid was told is saved is on the tablet until the server answered
\* for it or a week passed, through every flush, lost answer and reload, as
\* long as no tap is written down while a flush is in flight.
THEOREM SavedTapsAreKept ==
  ASSUME ~ TapDuringFlush
  PROVE  Spec => []TapNotForgotten
<1>1. TapInv /\ [Next]_vars => TapInv'
  <2>1. QueueInv /\ [Next]_vars => QueueInv'
    BY ServerStep, TabletStep, QueueInvPartsNext
  <2> QED BY <2>1, TabletStep DEF TapInv
<1>2. TapInv => TapNotForgotten
  BY DEF TapInv
<1> QED BY <1>1, <1>2, InitHolds, PTL DEF Spec

\* A tap posted late or twice never turns a step that was excused, or left
\* when the run ended, into one that pays, whatever else is in the server
\* meanwhile, unless its own handler had found the step open before that
\* (routes/routines.ts, the 409 of POST /task-runs/:id/done).
THEOREM LateTapsPayNothing == Spec => LateTapPaysNothing
<1>1. QueueInv /\ [Next]_vars
        => [\A s \in Steps : task[s] \in {"skipped", "passed"} /\ task'[s] = "done"
              => s \in late \ late']_vars
  BY ServerStep DEF NothingUndone
<1> QED BY <1>1, QueueInvariant, PTL DEF Spec, LateTapPaysNothing

\* A replayed tap never puts a chore a grown-up approved back in the queue,
\* unless its handler had found the chore unapproved before that
\* (routes/chores.ts, the 409 of POST /chores/:id/submit).
THEOREM ApprovedChoresStay == Spec => ApprovedChoreStays
<1>1. QueueInv /\ [Next]_vars
        => [\A c \in Chores : chore[c] = "approved" /\ chore'[c] # "approved"
              => c \in late \ late']_vars
  BY ServerStep DEF NothingUndone
<1> QED BY <1>1, QueueInvariant, PTL DEF Spec, ApprovedChoreStays

\* The painted board tells the truth about a run: it hands the run in exactly
\* when the server will, once the queued taps of open steps have landed.  The
\* tablet asks whether every step is over, the server whether none is open.
THEOREM BoardTellsTheTruth == Spec => []PaintedAsPosted
<1>1. ASSUME TypeOK PROVE PaintedAsPosted
  <2> DEFINE queued == Queued(box)
             rows == [s \in Steps |-> IF s \in queued /\ task[s] \in OpenStatus
                                      THEN "done" ELSE task[s]]
             shown == TickedOnly(Board, queued)
  <2> SUFFICES ASSUME queued \cap Steps # {}, \A s \in queued \cap Steps : task[s] \in OpenStatus
               PROVE  ApplyTaps(Board, queued).run = Posted(queued)
    BY DEF PaintedAsPosted
  <2>1. task \in [Steps -> StepStatus] /\ run \in RunStatus
    BY <1>1 DEF TypeOK
  <2>2. Board.task = task /\ Board.run = run /\ Board = [task |-> task, run |-> run, chore |-> chore]
    BY DEF Board
  <2> HIDE DEF queued
  <2>3. shown.task = rows /\ shown.run = run
    BY DEF TickedOnly, Board
  <2>4. \A status : [shown EXCEPT !.run = status].run = status
    <3>1. DOMAIN shown = DOMAIN Board /\ "run" \in DOMAIN Board
      BY DEF TickedOnly, Board
    <3> HIDE DEF shown
    <3> QED BY <3>1
  <2> HIDE DEF shown
  <2> DEFINE there == {s \in Steps : task[s] # "absent"}
             over == queued \cap there # {} /\ \A s \in there : TaskFinished(rows[s])
  <2>5. ApplyTaps(Board, queued).run = IF over /\ run = "in_progress" THEN "done_pending" ELSE run
    BY <2>2, <2>3, <2>4 DEF ApplyTaps, shown
  <2>6. queued \cap there # {}
    BY DEF OpenStatus
  <2>7. Completes(rows, FALSE) <=> \A s \in Steps : rows[s] \notin OpenStatus
    BY RunRulesAssumption DEF Completes, OpenRequired, OpenSide
  <2>8. ASSUME NEW s \in Steps
        PROVE  rows[s] \notin OpenStatus <=> (task[s] # "absent" => TaskFinished(rows[s]))
    BY <2>1, <2>8 DEF StepStatus, OpenStatus, OverStatus, TaskFinished
  <2>9. over <=> Completes(rows, FALSE)
    BY <2>6, <2>7, <2>8
  <2>10. Posted(queued) = IF run = "in_progress" /\ Completes(rows, FALSE) THEN "done_pending" ELSE run
    BY DEF Posted, RunSubmitted
  <2> QED BY <2>5, <2>9, <2>10
<1> QED BY <1>1, TypeCorrect, PTL
=============================================================================
