------------------------------- MODULE KidOutbox -------------------------------
(***************************************************************************)
(* The kid tablet's outbox: a tap that met no network is written down,     *)
(* painted onto the board as if it had been sent, and posted later -- to a *)
(* server where grown-ups meanwhile excuse, approve and send back.         *)
(*                                                                         *)
(* The page is one event loop: a flush loads the queue, posts its entries  *)
(* one await at a time and saves what is left when it ends; reloads and    *)
(* the server's other users fall in between.  localStorage survives a      *)
(* reload, the flush in flight does not.                                   *)
(*                                                                         *)
(* A tap's handler reads its rows, awaits who is asking, and writes: what  *)
(* came between, it does not see.  The other handlers are one step each    *)
(* here; RoutineRun cuts the routine's at their awaits, too.               *)
(*                                                                         *)
(* Sources: src/public/kid/js/outbox.js, src/public/kid/js/chart.js,       *)
(* src/public/kid/js/data.js, src/src/routes/routines.ts,                  *)
(* src/src/routes/chores.ts.                                               *)
(***************************************************************************)
EXTENDS RunRules, Integers, Sequences, FiniteSets, Functions

CONSTANTS
  Chores,         \* chores of one kid; Steps are the steps of one run
  MaxLate,        \* bound: taps whose handlers are between their halves
  MaxQueued,      \* bound: taps in the queue
  TapDuringFlush  \* TRUE: a tap may be written down while a flush is in flight

Jobs == Steps \cup Chores

ASSUME KidOutboxAssumption ==
  /\ Steps \cap Chores = {}
  /\ MaxLate \in Nat /\ MaxQueued \in Nat
  /\ TapDuringFlush \in BOOLEAN

VARIABLES
  task, run,  \* the server's run
  chore,      \* the server's chores.status
  late,       \* taps whose handler found its rows fit and has not written yet
  net,        \* "down" or "up"
  box,        \* localStorage "kid.outbox"
  flush,      \* the flush in flight
  owed        \* taps promised to go out and not settled since (history)

server == <<task, run, chore>>
client == <<box, flush>>
vars == <<server, late, net, client, owed>>

NoFlush == [on |-> FALSE, todo |-> <<>>, kept |-> <<>>]

Online == net # "down"
Queued(q) == {q[i].job : i \in DOMAIN q}
Board == [task |-> task, run |-> run, chore |-> chore]

-----------------------------------------------------------------------------
(* What an answer means for a queued tap.  "busy" stands for 408, 429 and  *)
(* 5xx, "gone" for the refusals, "none" for no answer at all.              *)

FaultIsDone(status) ==  \* slip: a 500 read as success
  IF status \in {"ok", "conflict", "busy"} THEN "done"
  ELSE IF status = "none" THEN "keep" ELSE "drop"

ConflictIsFault(status) ==  \* slip: a 409 read as worth another go
  IF status = "ok" THEN "done"
  ELSE IF status \in {"none", "busy", "conflict"} THEN "keep" ELSE "drop"

verdict(status) ==
  IF status \in {"ok", "conflict"} THEN "done"
  ELSE IF status \in {"none", "busy"} THEN "keep" ELSE "drop"

-----------------------------------------------------------------------------
(* The server's answer to POST /task-runs/:id/done and /chores/:id/submit. *)

ChoreAlwaysOpen(status) == FALSE  \* slip: an approved chore is handed in again

ChoreClosed(status) == status = "approved"

StatusFor(j) ==
  IF j \in Chores THEN IF ChoreClosed(chore[j]) THEN "conflict" ELSE "ok"
  ELSE IF task[j] = "absent" THEN "gone"
  ELSE IF RunSubmitted(run) \/ TaskFinished(task[j]) THEN "conflict" ELSE "ok"

FinishRun(rows) ==
  IF Completes(rows, FALSE)
  THEN task' = Passed(rows) /\ run' = "done_pending"
  ELSE task' = rows /\ UNCHANGED run

\* What the handler writes, fit or not by now; a row deleted meanwhile stays so.
Write(j) ==
  IF j \in Chores
  THEN chore' = [chore EXCEPT ![j] = "submitted"] /\ UNCHANGED <<task, run>>
  ELSE /\ FinishRun([task EXCEPT ![j] = IF @ = "absent" THEN @ ELSE "done"])
       /\ UNCHANGED chore

\* Both halves, with nothing between them.
Land(j) ==
  /\ IF StatusFor(j) = "ok" THEN Write(j) ELSE UNCHANGED server
  /\ UNCHANGED late

\* The second half alone.
WriteLate(j) == j \in late /\ late' = late \ {j} /\ Write(j)

-----------------------------------------------------------------------------
(* The board as the kid sees it: the server's, then the unsent taps on top *)
(* (applyTaps).                                                            *)

TickedOnly(board, queued) ==  \* slip: the run does not move with its last step
  [board EXCEPT
     !.task = [s \in Steps |-> IF s \in queued /\ board.task[s] \in OpenStatus
                               THEN "done" ELSE board.task[s]],
     !.chore = [c \in Chores |-> IF c \in queued /\ board.chore[c] \in {"open", "rejected"}
                                 THEN "submitted" ELSE board.chore[c]]]

ApplyTaps(board, queued) ==
  LET ticked == TickedOnly(board, queued)
      rows == {s \in Steps : board.task[s] # "absent"}
      over == /\ queued \cap rows # {}
              /\ \A s \in rows : TaskFinished(ticked.task[s])
  IN  IF over /\ ticked.run = "in_progress"
      THEN [ticked EXCEPT !.run = "done_pending"] ELSE ticked

-----------------------------------------------------------------------------
Init ==
  /\ task = [s \in Steps |-> "pending"] /\ run = "in_progress"
  /\ chore = [c \in Chores |-> "open"]
  /\ late = {}
  /\ net = "down"
  /\ box = <<>> /\ flush = NoFlush
  /\ owed = {}

-----------------------------------------------------------------------------
(* The kid presses "Yes, it's done".                                       *)

\* The board under the kid's finger may be a snapshot of any age, so any card
\* may be pressed.  Here the server answers, whatever it answers.
TapAnswered(j) ==
  /\ Online
  /\ Land(j)
  /\ UNCHANGED <<net, box, flush, owed>>

QueueAnyway(j) == Append(box, [job |-> j, old |-> FALSE])  \* slip

queueTap(j) ==
  IF j \in Queued(box) THEN box ELSE Append(box, [job |-> j, old |-> FALSE])

\* A POST of this tap, a fresh one or the flush's, is read and found fit; what the
\* tablet hears of it, and whether it still listens, is left to its own actions.
TapHangs(j) ==
  /\ j \notin late /\ Cardinality(late) < MaxLate
  /\ StatusFor(j) = "ok"
  /\ late' = late \cup {j}
  /\ UNCHANGED <<server, net, client, owed>>

TapGoesThrough(j) ==
  /\ WriteLate(j)
  /\ UNCHANGED <<net, client, owed>>

\* The fetch throws -- the POST may have landed -- and the tap is written down.
TapThrows(j) ==
  /\ net = "down"
  /\ ~ flush.on \/ TapDuringFlush
  /\ Len(box) < MaxQueued \/ j \in Queued(box)
  /\ Land(j) \/ UNCHANGED <<server, late>>
  /\ box' = queueTap(j)
  /\ owed' = owed \cup {j}
  /\ UNCHANGED <<net, flush>>

-----------------------------------------------------------------------------
(* flushOutbox: one at a time, oldest first.                               *)

StartFlush ==
  /\ ~ flush.on /\ box # <<>>
  /\ flush' = [on |-> TRUE, todo |-> box, kept |-> <<>>]
  /\ UNCHANGED <<server, late, net, box, owed>>

Current == Head(flush.todo)
Posting == flush.on /\ flush.todo # <<>> /\ ~ Current.old

\* More than a week old: too old to mean anything.
Expire ==
  /\ flush.on /\ flush.todo # <<>> /\ Current.old
  /\ flush' = [flush EXCEPT !.todo = Tail(@)]
  /\ owed' = owed \ {Current.job}
  /\ UNCHANGED <<server, late, net, box>>

\* An answer of this status came: the entry stays or goes, and the next one
\* is looked at.
Heard(status) ==
  /\ flush' = [flush EXCEPT
       !.todo = Tail(@),
       !.kept = IF verdict(status) = "keep" THEN Append(@, Current) ELSE @]
  /\ owed' = IF status = "busy" THEN owed ELSE owed \ {Current.job}

Deliver ==
  /\ Posting /\ Online
  /\ \/ Land(Current.job) /\ Heard(StatusFor(Current.job))
     \/ WriteLate(Current.job) /\ Heard("ok")
  /\ UNCHANGED <<net, box>>

Busy ==
  /\ Posting /\ Online
  /\ Heard("busy")
  /\ UNCHANGED <<server, late, net, box>>

\* No answer: the network is down, so the rest is kept unposted.
NoAnswer ==
  /\ Posting /\ net = "down"
  /\ Land(Current.job) \/ UNCHANGED <<server, late>>
  /\ flush' = [flush EXCEPT !.todo = <<>>, !.kept = @ \o flush.todo]
  /\ UNCHANGED <<net, box, owed>>

EndFlush ==
  /\ flush.on /\ flush.todo = <<>>
  /\ box' = flush.kept
  /\ flush' = NoFlush
  /\ UNCHANGED <<server, late, net, owed>>

-----------------------------------------------------------------------------
(* The tablet's other events.                                              *)

\* The page is reloaded: what it was waiting for may still have landed.
Reload ==
  /\ flush.on
  /\ \/ Posting /\ Online /\ Land(Current.job)
     \/ UNCHANGED <<server, late>>
  /\ flush' = NoFlush
  /\ UNCHANGED <<net, box, owed>>

WeekPasses ==
  /\ ~ flush.on
  /\ box' = [i \in DOMAIN box |-> [box[i] EXCEPT !.old = TRUE]]
  /\ UNCHANGED <<server, late, net, flush, owed>>

NetChanges ==
  /\ net' \in {"down", "up"} \ {net}
  /\ UNCHANGED <<server, late, client, owed>>

-----------------------------------------------------------------------------
(* The server's other users.                                               *)

Elsewhere == UNCHANGED <<late, net, client, owed>>

\* A grown-up excuses a step, or the kid ends the run from another screen.
ParentSkips(s) ==
  /\ ~ RunSubmitted(run) /\ task[s] \notin {"absent", "skipped"}
  /\ FinishRun([task EXCEPT ![s] = "skipped"])
  /\ UNCHANGED chore /\ Elsewhere

KidEndsRun ==
  /\ Online /\ ~ RunSubmitted(run) /\ Completes(task, TRUE)
  /\ task' = Passed(task) /\ run' = "done_pending"
  /\ UNCHANGED chore /\ Elsewhere

\* The routine was edited: an open row of a retired step is dropped.
DropStep(s) ==
  /\ ~ RunSubmitted(run) /\ task[s] \in OpenStatus
  /\ task' = [task EXCEPT ![s] = "absent"]
  /\ UNCHANGED <<run, chore>> /\ Elsewhere

DecideRun ==
  /\ run = "done_pending"
  /\ run' \in {"approved", "in_progress"}
  /\ UNCHANGED <<task, chore>> /\ Elsewhere

DecideChore(c) ==
  /\ chore[c] = "submitted"
  /\ \E status \in {"approved", "rejected"} : chore' = [chore EXCEPT ![c] = status]
  /\ UNCHANGED <<task, run>> /\ Elsewhere

-----------------------------------------------------------------------------
Kid == \E j \in Jobs : TapAnswered(j) \/ TapHangs(j) \/ TapGoesThrough(j) \/ TapThrows(j)
Flush == StartFlush \/ Expire \/ Deliver \/ Busy \/ NoAnswer \/ EndFlush
Tablet == Reload \/ WeekPasses \/ NetChanges
Others ==
  \/ \E s \in Steps : ParentSkips(s) \/ DropStep(s)
  \/ KidEndsRun \/ DecideRun \/ \E c \in Chores : DecideChore(c)

Next == Kid \/ Flush \/ Tablet \/ Others

\* The ten-second poll starts a flush whenever something is queued, and a
\* flush goes on.  A server that keeps answering 5xx may delay deliveries,
\* but not every one for ever.
Fairness == WF_vars(Flush) /\ SF_vars(Deliver)

Spec == Init /\ [][Next]_vars /\ Fairness

-----------------------------------------------------------------------------
(* Properties.                                                             *)

Entry == [job : Jobs, old : BOOLEAN]

\* Every variable holds a value the code can store there, and no job waits
\* twice in the queue ("one tap per job, however many times it is pressed").
TypeOK ==
  /\ task \in [Steps -> StepStatus] /\ run \in RunStatus
  /\ chore \in [Chores -> {"open", "submitted", "rejected", "approved"}]
  /\ net \in {"down", "up"}
  /\ late \subseteq Jobs /\ owed \subseteq Jobs
  /\ box \in Seq(Entry) /\ IsInjective([i \in DOMAIN box |-> box[i].job])
  /\ flush.on \in BOOLEAN
  /\ flush.todo \in Seq(Entry) /\ flush.kept \in Seq(Entry)

\* A tap the kid was told is saved stays on the tablet until the server has
\* answered for it or a week has passed ("the tap is written down first and
\* posted later"): no flush, reload or other tap loses it.
TapNotForgotten == owed \subseteq Queued(box)

\* A tap posted late or twice never turns a step that was excused, or left
\* when the run ended, into one that pays: only a handler that had found the
\* step open, before that, can.
LateTapPaysNothing ==
  [][\A s \in Steps : task[s] \in {"skipped", "passed"} /\ task'[s] = "done"
       => s \in late \ late']_vars

\* A replayed tap never puts a chore a grown-up approved back in the queue:
\* only a hand-in that had found it unapproved can.
ApprovedChoreStays ==
  [][\A c \in Chores : chore[c] = "approved" /\ chore'[c] # "approved"
       => c \in late \ late']_vars

\* What the server's run will be once the queued taps have been posted.
Posted(queued) ==
  LET rows == [s \in Steps |-> IF s \in queued /\ task[s] \in OpenStatus
                               THEN "done" ELSE task[s]]
  IN  IF ~ RunSubmitted(run) /\ Completes(rows, FALSE) THEN "done_pending" ELSE run

\* The board does not lie about an offline run: painted over a fresh board,
\* taps that did not land yet show exactly the run the server will have when
\* they do ("the run has to move with its last task").
PaintedAsPosted ==
  LET queued == Queued(box)
  IN  queued \cap Steps # {}
        /\ (\A s \in queued \cap Steps : task[s] \in OpenStatus)
        => ApplyTaps(Board, queued).run = Posted(queued)

\* Once the network is back for good and no reload cuts a flush short any more,
\* the queue empties: no answer keeps an entry in it for ever.
QueueDrains ==
  <>[](net = "up") /\ <>[][flush.on /\ ~ flush'.on => EndFlush]_vars
    => []<>(box = <<>>)
=============================================================================
