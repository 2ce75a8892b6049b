---------------------------- MODULE TaskAttempts ----------------------------
(***************************************************************************)
(* A task of a gateway from its creation to its outcome (a subtask of a    *)
(* plan is also ticked off by its parent): the attempts of AgentRun, with  *)
(* the queue that hands them out and takes their results.  Of the queue    *)
(* there is here what TaskQueue shows a client (TaskLifecycle): the status *)
(* of the task and the attempts whose worker has not reported.  The worker *)
(* is worker_loop of workers/main.py, which calls handle_task and records  *)
(* what it returns or raises.                                              *)
(***************************************************************************)
EXTENDS AgentRun

VARIABLES
  taskStatus,  \* the status in the row of tasks
  open,        \* the attempts whose worker has neither reported nor died
  told,        \* history: the attempt whose report the status is, or 0
  resumed      \* history: the task was made pending while an attempt was open

queueVars == <<taskStatus, open, told, resumed>>
attemptsVars == <<vars, queueVars>>

AttemptsTypeOK ==
  /\ taskStatus \in {"absent", "pending", "running", "cancelled"} \cup Verdict
  /\ open \subseteq Attempt
  /\ told \in 0..MaxAttempts
  /\ resumed \in BOOLEAN

AttemptsInit ==
  /\ Init
  /\ taskStatus = "absent"
  /\ open = {}
  /\ told = 0
  /\ resumed = FALSE

\* A gateway creates it pending.
SubmitTask ==
  /\ taskStatus = "absent"
  /\ taskStatus' = "pending"
  /\ UNCHANGED <<vars, open, told, resumed>>

ClaimAgain ==   \* mutant: a task that is running is claimed like a pending one
  /\ taskStatus \in {"pending", "running"}
  /\ Claim
  /\ taskStatus' = "running"
  /\ open' = open \cup {claimed + 1}
  /\ told' = 0
  /\ UNCHANGED resumed

\* claim_next_task takes pending tasks only.
ClaimTask ==
  /\ taskStatus = "pending"
  /\ Claim
  /\ taskStatus' = "running"
  /\ open' = open \cup {claimed + 1}
  /\ told' = 0
  /\ UNCHANGED resumed

\* A step of run_task, which returns or raises in the end; the worker is alive.
Attend(a) ==
  /\ Proceed(a) \/ Die(a)
  /\ UNCHANGED queueVars

\* The worker process dies, in handle_task or before it has reported.
LoseWorker(a) ==
  /\ a \in open
  /\ IF Alive(a) THEN Die(a) ELSE UNCHANGED vars
  /\ open' = open \ {a}
  /\ UNCHANGED <<taskStatus, told, resumed>>

RecordedUnlessFailed(result) ==   \* mutant: an exception counts as completion
  IF result \in {"paused", "failed"} THEN result ELSE "completed"

\* complete_task, pause_task, or fail_task if it failed or raised.
Recorded(result) == IF result \in Verdict THEN result ELSE "failed"

ReportOutcome(a) ==
  /\ a \in open /\ At(a, "ended")
  /\ taskStatus' = Recorded(att[a].outcome)
  /\ open' = open \ {a}
  /\ told' = a
  /\ UNCHANGED <<vars, resumed>>

\* The row is locked: update_task_status returns None, which nobody looks at.
ReportDropped(a) ==
  /\ a \in open /\ At(a, "ended")
  /\ open' = open \ {a}
  /\ UNCHANGED <<vars, taskStatus, told, resumed>>

\* /pause, /resume and /cancel, whatever the status is.
SteerTask ==
  /\ taskStatus # "absent"
  /\ taskStatus' \in {"pending", "paused", "cancelled"}
  /\ resumed' = (resumed \/ (taskStatus' = "pending" /\ open # {}))
  /\ told' = 0
  /\ UNCHANGED <<vars, open>>

AttemptsNext ==
  \/ SubmitTask \/ ClaimTask \/ SteerTask
  \/ \E a \in Attempt : Attend(a) \/ LoseWorker(a) \/ ReportOutcome(a) \/ ReportDropped(a)

AttemptsSpec == AttemptsInit /\ [][AttemptsNext]_attemptsVars
-----------------------------------------------------------------------------
\* Attempts overlap only after a user has resumed a task that was still worked
\* at: neither a crash, nor a report that was lost, nor a retry leads to it
\* (claim_next_task, worker_loop).
OverlapIsResumed == overlap => resumed

\* A task is completed or failed only by the report of an attempt, and what its
\* row says is what that attempt has left elsewhere: on its AgentRun, on the step of
\* its conversation, on every step of a plan that is completed, and, unless the task
\* was resumed while it was worked at, in the metadata (worker_loop,
\* _finalize_agent_run, _finalize_step, _execute_legacy_steps).
StatusIsBacked ==
  /\ taskStatus \in {"completed", "failed"} => told # 0
  /\ told # 0 =>
       LET t == att[told] IN
       /\ taskStatus = "completed" => t.outcome = "completed"
       /\ t.outcome \in Verdict =>
            /\ taskStatus = t.outcome /\ t.row = t.outcome
            /\ mode = "hermes" => steps = <<[status |-> t.outcome, by |-> told]>>
            /\ ~resumed => meta.final = told
       /\ mode = "legacy" /\ taskStatus = "completed" =>
            \A i \in 1..Len(t.plan) :
              t.plan[i] # "skip" => steps[i] = [status |-> "completed", by |-> told]

-----------------------------------------------------------------------------
(* The queue of this module is that of TaskLifecycle, with one task.       *)
Lifecycle == INSTANCE TaskLifecycle WITH
  Task <- {"task"},
  status <- [t \in {"task"} |-> taskStatus],
  attempts <- [t \in {"task"} |-> claimed],
  open <- [t \in {"task"} |-> open]

\* Claims, reports, crashes and commands are steps of the abstract queue, which
\* TaskQueue implements; so nothing is assumed here that the queue does not promise
\* (claim_next_task, update_task_status).
KeepsLifecycle == Lifecycle!Spec
=============================================================================
