------------------------------- MODULE RunRules -------------------------------
(***************************************************************************)
(* The rules of one routine run, shared by the server that keeps it and by *)
(* the tablet that paints it: which steps are over, when the run is handed *)
(* in, and what it is worth.  A row the run does not have is "absent".     *)
(*                                                                         *)
(* Sources: src/src/repo-routines.ts, src/src/routes/routines.ts.          *)
(***************************************************************************)
CONSTANTS
  Steps,  \* the steps (routine_tasks) of one routine
  Side    \* those among them that are side quests (optional = 1)

ASSUME RunRulesAssumption == Side \subseteq Steps

OpenStatus == {"pending", "running"}
OverStatus == {"done", "skipped", "passed"}
StepStatus == OpenStatus \cup OverStatus \cup {"absent"}
RunStatus  == {"in_progress", "done_pending", "approved"}

SubmittedOncePaid(status) == status = "approved"  \* slip

RunSubmitted(status) == status # "in_progress"

FinishedByTheKid(status) == status = "done"  \* slip: forgets the excused ones

TaskFinished(status) == status \in OverStatus

OpenRequired(task) == {s \in Steps \ Side : task[s] \in OpenStatus}
OpenSide(task) == {s \in Side : task[s] \in OpenStatus}
Done(task) == {s \in Steps : task[s] = "done"}

EndsWithRequired(task, endRun) == OpenRequired(task) = {}  \* slip

\* Does the run end here?  endRun: the kid asks for it (the chest), which
\* gives up the side quests; otherwise an open one holds the run.
Completes(task, endRun) ==
  OpenRequired(task) = {} /\ (OpenSide(task) = {} \/ endRun)

\* The side quests nobody took, once the run ends.
Passed(task) ==
  [s \in Steps |-> IF s \in OpenSide(task) THEN "passed" ELSE task[s]]
=============================================================================
