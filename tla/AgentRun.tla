------------------------------ MODULE AgentRun ------------------------------
(***************************************************************************)
(* The attempts at one task, from the claim of a worker to the result that *)
(* handle_task returns: SpecialistAgentRuntime.run_task of                 *)
(* agents/runtime.py around the graph of agent/nodes.py (load_task,        *)
(* build_context, plan, execute_step, save_memory, report_result).         *)
(* Attempts may overlap, since /pause and /resume give the task to another *)
(* worker while the first one is still at work (TaskAttempts), and each of *)
(* them may die between any two commits.  They share task_steps, the       *)
(* task's metadata and task_runs.  The conversation inside execute_step is *)
(* the module HermesLoop.                                                  *)
(***************************************************************************)
EXTENDS Integers, Sequences, FiniteSetsExt

CONSTANTS
  MaxAttempts,  \* bound: how often the task is claimed
  Modes,        \* how tasks are executed: a subset of Mode
  Plans         \* plans that a planning model other than LiteLLM's may return

Mode == {"hermes", "legacy", "harness"}

\* What the legacy executor does for a step: tick it off (no tool), call a tool
\* and catch its exceptions (safe and web tools), run a command, or pass over it
\* (empty command, no URL, unsupported tool).
StepKind == {"note", "tool", "shell", "skip"}

ASSUME RunAssumption ==
  /\ MaxAttempts \in Nat \ {0}
  /\ Modes \subseteq Mode
  /\ Plans \subseteq Seq(StepKind)

VARIABLES
  mode,      \* fixed by the configuration and by the task's text
  claimed,   \* attempts claimed: the highest attempt_number of task_runs
  att,       \* per attempt: the coroutine of run_task and its AgentRun row
  steps,     \* task_steps by position: the status, and who inserted the row
  meta,      \* Task.metadata_json: who wrote routed_agent and final_agent_status
  context,   \* per TaskRun: the attempt that wrote its context_json
  overlap,   \* history: an attempt was claimed while another one was alive
  work       \* history, per position: how often its work was begun

vars == <<mode, claimed, att, steps, meta, context, overlap, work>>

Attempt == 1..MaxAttempts
Verdict == {"completed", "failed", "paused"}
StepStatus == {"pending", "completed", "failed", "pending_approval"}
Meta == [routed : 0..MaxAttempts, final : 0..MaxAttempts]

State == [
  pc : {"idle", "claimed", "routing", "opened", "loaded", "planning", "executing", "working",
        "recording", "finalizing", "saving", "closing", "committing", "learning", "ended"},
  link    : 0..MaxAttempts,   \* attempt_number of the TaskRun its AgentRun names
  load    : 0..MaxAttempts,   \* attempt_number of the TaskRun load_task found
  seen    : Meta,             \* its copy of the metadata
  plan    : Seq(StepKind \cup {"loop"}),
  pos     : Nat \ {0},        \* the step it is at
  verdict : Verdict,          \* final_status
  row     : Verdict \cup {"none", "running"},              \* AgentRun.status
  outcome : Verdict \cup {"none", "conflict", "died"}]

TypeOK ==
  /\ mode \in Modes
  /\ claimed \in 0..MaxAttempts
  /\ att \in [Attempt -> State]
  /\ steps \in Seq([status : StepStatus, by : Attempt])
  /\ meta \in Meta
  /\ context \in [Attempt -> 0..MaxAttempts]
  /\ overlap \in BOOLEAN
  /\ work \in Seq(Nat)

NoMeta == [routed |-> 0, final |-> 0]

Idle == [pc |-> "idle", link |-> 0, load |-> 0, seen |-> NoMeta, plan |-> <<>>, pos |-> 1,
         verdict |-> "completed", row |-> "none", outcome |-> "none"]

Init ==
  /\ mode \in Modes
  /\ claimed = 0
  /\ att = [a \in Attempt |-> Idle]
  /\ steps = <<>>
  /\ meta = NoMeta
  /\ context = [a \in Attempt |-> 0]
  /\ overlap = FALSE
  /\ work = <<>>

At(a, stage) == att[a].pc = stage
Alive(a) == att[a].pc \notin {"idle", "ended"}

-----------------------------------------------------------------------------
(* The runtime around the graph.                                           *)

\* claim_next_task for this task; the worker then calls handle_task.
Claim ==
  /\ claimed < MaxAttempts
  /\ claimed' = claimed + 1
  /\ att' = [att EXCEPT ![claimed + 1].pc = "claimed"]
  /\ overlap' = (overlap \/ \E a \in Attempt : Alive(a))
  /\ UNCHANGED <<mode, steps, meta, context, work>>

NewestRunAscending == IF claimed = 0 THEN 0 ELSE 1   \* mutant: order_by without desc

\* The TaskRun with the highest attempt_number, whoever is working on it.
NewestRun == claimed

\* The task and its newest run are read, the task is routed and budgeted.
Route(a) ==
  /\ At(a, "claimed")
  /\ att' = [att EXCEPT ![a].pc = "routing", ![a].link = NewestRun, ![a].seen = meta]
  /\ UNCHANGED <<mode, claimed, steps, meta, context, overlap, work>>

OpenRunFresh(a) ==   \* mutant: the old metadata is not carried over
  /\ At(a, "routing")
  /\ att' = [att EXCEPT ![a].pc = "opened", ![a].row = "running"]
  /\ meta' = [NoMeta EXCEPT !.routed = a]
  /\ UNCHANGED <<mode, claimed, steps, context, overlap, work>>

\* The copy of the metadata goes back with the routing added; the AgentRun is new.
OpenRun(a) ==
  /\ At(a, "routing")
  /\ att' = [att EXCEPT ![a].pc = "opened", ![a].row = "running"]
  /\ meta' = [att[a].seen EXCEPT !.routed = a]
  /\ UNCHANGED <<mode, claimed, steps, context, overlap, work>>

\* The harness loop in place of the graph; it keeps no task_steps.
RunHarness(a, result) ==
  /\ mode = "harness"
  /\ At(a, "opened")
  /\ att' = [att EXCEPT ![a].pc = "closing", ![a].verdict = result]
  /\ UNCHANGED <<mode, claimed, steps, meta, context, overlap, work>>

\* _finalize_agent_run reads the task again and sums the costs ...
ReadBack(a) ==
  /\ At(a, "closing")
  /\ att' = [att EXCEPT ![a].pc = "committing", ![a].seen = meta]
  /\ UNCHANGED <<mode, claimed, steps, meta, context, overlap, work>>

\* ... writes the verdict to the AgentRun and to the metadata ...
CloseRun(a) ==
  /\ At(a, "committing")
  /\ meta' = [att[a].seen EXCEPT !.final = a]
  /\ IF att[a].verdict = "completed"
     THEN att' = [att EXCEPT ![a].pc = "learning", ![a].row = att[a].verdict]
     ELSE att' = [att EXCEPT ![a].pc = "ended", ![a].row = att[a].verdict,
                             ![a].outcome = att[a].verdict]
  /\ UNCHANGED <<mode, claimed, steps, context, overlap, work>>

\* ... and a completed run leaves a learning event.  The cost, which is charged
\* whatever the verdict, is a row of a budget, not of the run.
Learn(a) ==
  /\ At(a, "learning")
  /\ att' = [att EXCEPT ![a].pc = "ended", ![a].outcome = att[a].verdict]
  /\ UNCHANGED <<mode, claimed, steps, meta, context, overlap, work>>

-----------------------------------------------------------------------------
(* The nodes of the graph.                                                 *)

LoadTask(a) ==
  /\ mode # "harness"
  /\ At(a, "opened")
  /\ att' = [att EXCEPT ![a].pc = "loaded", ![a].load = NewestRun]
  /\ UNCHANGED <<mode, claimed, steps, meta, context, overlap, work>>

BuildContext(a) ==
  /\ At(a, "loaded")
  /\ att' = [att EXCEPT ![a].pc = "planning"]
  /\ context' = [context EXCEPT ![att[a].load] = a]
  /\ UNCHANGED <<mode, claimed, steps, meta, overlap, work>>

\* LiteLLM's plan is one step that stands for the whole conversation.
PlansOf(m) == IF m = "hermes" THEN {<<"loop">>} ELSE Plans

NewSteps(a, p) == [i \in 1..Len(p) |-> [status |-> "pending", by |-> a]]

PersistPlanAdopts(a, p) ==   \* mutant: steps that exist are taken over and run again
  /\ At(a, "planning")
  /\ att' = [att EXCEPT ![a].pc = "executing", ![a].plan = p]
  /\ IF steps = <<>>
     THEN steps' = NewSteps(a, p) /\ work' = [i \in 1..Len(p) |-> 0]
     ELSE UNCHANGED <<steps, work>>
  /\ UNCHANGED <<mode, claimed, meta, context, overlap>>

\* The steps are inserted in one transaction, from position 1 on.
PersistPlan(a, p) ==
  /\ At(a, "planning")
  /\ steps = <<>> \/ p = <<>>
  /\ att' = [att EXCEPT ![a].pc = "executing", ![a].plan = p]
  /\ IF steps = <<>>
     THEN steps' = NewSteps(a, p) /\ work' = [i \in 1..Len(p) |-> 0]
     ELSE UNCHANGED <<steps, work>>
  /\ UNCHANGED <<mode, claimed, meta, context, overlap>>

\* A step with position 1 exists: the unique constraint of task_steps makes the
\* insert fail, and the exception leaves run_task.
PlanConflict(a, p) ==
  /\ At(a, "planning")
  /\ steps # <<>> /\ p # <<>>
  /\ att' = [att EXCEPT ![a].pc = "ended", ![a].outcome = "conflict"]
  /\ UNCHANGED <<mode, claimed, steps, meta, context, overlap, work>>

Kind(a) == att[a].plan[att[a].pos]

AtStep(a, stage, kinds) ==
  /\ At(a, stage)
  /\ att[a].pos <= Len(att[a].plan)
  /\ Kind(a) \in kinds

\* A conversation, a tool or a command starts.
Begin(a) ==
  /\ AtStep(a, "executing", {"loop", "tool", "shell"})
  /\ att' = [att EXCEPT ![a].pc = "working"]
  /\ work' = [work EXCEPT ![att[a].pos] = work[att[a].pos] + 1]
  /\ UNCHANGED <<mode, claimed, steps, meta, context, overlap>>

\* The conversation ends with a verdict (HermesLoop).
EndLoop(a, result) ==
  /\ AtStep(a, "working", {"loop"})
  /\ result # "paused"
  /\ att' = [att EXCEPT ![a].pc = "finalizing", ![a].verdict = result]
  /\ UNCHANGED <<mode, claimed, steps, meta, context, overlap, work>>

DbStatus(result) == IF result = "paused" THEN "pending_approval" ELSE result

\* The last step of the task, whoever inserted it, takes the verdict.
FinalizeStep(a) ==
  /\ At(a, "finalizing")
  /\ att' = [att EXCEPT ![a].pc = "saving"]
  /\ steps' = [steps EXCEPT ![Len(steps)].status = DbStatus(att[a].verdict)]
  /\ UNCHANGED <<mode, claimed, meta, context, overlap, work>>

Worked(a) ==
  /\ AtStep(a, "working", {"tool", "shell"})
  /\ att' = [att EXCEPT ![a].pc = "recording"]
  /\ UNCHANGED <<mode, claimed, steps, meta, context, overlap, work>>

Break(a, result) ==
  /\ att' = [att EXCEPT ![a].pc = "saving", ![a].verdict = result]
  /\ UNCHANGED <<mode, claimed, steps, meta, context, overlap, work>>

FailQuietly(a) ==   \* mutant: the failure of a tool is noted in the summary only
  /\ AtStep(a, "working", {"tool", "shell"}) \/ AtStep(a, "recording", {"tool"})
  /\ Break(a, IF Kind(a) = "tool" THEN "completed" ELSE "failed")

\* A tool raises, at work or when its result is recorded; a command fails.
Fail(a) ==
  /\ AtStep(a, "working", {"tool", "shell"}) \/ AtStep(a, "recording", {"tool"})
  /\ Break(a, "failed")

\* The command was not run; its approval is asked for.
Pause(a) ==
  /\ AtStep(a, "working", {"shell"})
  /\ Break(a, "paused")

Advance(a) ==
  att' = [att EXCEPT ![a].pc = "executing", ![a].pos = att[a].pos + 1]

\* The step and its subtask are completed together.
TickOff(a) ==
  /\ AtStep(a, "recording", {"tool", "shell"}) \/ AtStep(a, "executing", {"note"})
  /\ steps' = [steps EXCEPT ![att[a].pos].status = "completed"]
  /\ Advance(a)
  /\ UNCHANGED <<mode, claimed, meta, context, overlap, work>>

Skip(a) ==
  /\ AtStep(a, "executing", {"skip"})
  /\ Advance(a)
  /\ UNCHANGED <<mode, claimed, steps, meta, context, overlap, work>>

PlanDone(a) ==
  /\ At(a, "executing")
  /\ att[a].pos > Len(att[a].plan)
  /\ att' = [att EXCEPT ![a].pc = "saving"]
  /\ UNCHANGED <<mode, claimed, steps, meta, context, overlap, work>>

\* save_memory and report_result add rows of their own.
SaveMemory(a) ==
  /\ At(a, "saving")
  /\ att' = [att EXCEPT ![a].pc = "closing"]
  /\ UNCHANGED <<mode, claimed, steps, meta, context, overlap, work>>

-----------------------------------------------------------------------------
(* What happens to an attempt.                                             *)

\* The worker process dies, or an exception of the database or of a model call
\* leaves run_task: the attempt writes nothing more.
Die(a) ==
  /\ Alive(a)
  /\ att' = [att EXCEPT ![a].pc = "ended", ![a].outcome = "died"]
  /\ UNCHANGED <<mode, claimed, steps, meta, context, overlap, work>>

Execute(a) ==
  \/ Begin(a) \/ FinalizeStep(a) \/ Worked(a) \/ Fail(a) \/ Pause(a)
  \/ TickOff(a) \/ Skip(a) \/ PlanDone(a)
  \/ \E result \in Verdict : EndLoop(a, result)

Proceed(a) ==
  \/ Route(a) \/ OpenRun(a) \/ LoadTask(a) \/ BuildContext(a)
  \/ \E p \in PlansOf(mode) : PersistPlan(a, p) \/ PlanConflict(a, p)
  \/ \E result \in Verdict : RunHarness(a, result)
  \/ Execute(a)
  \/ SaveMemory(a) \/ ReadBack(a) \/ CloseRun(a) \/ Learn(a)

Next ==
  \/ Claim
  \/ \E a \in Attempt : Proceed(a) \/ Die(a)

Spec == Init /\ [][Next]_vars
-----------------------------------------------------------------------------
\* However attempts overlap, crash and are retried, no step of the task is begun
\* twice: whoever inserts the steps is the only one to execute them (plan,
\* execute_step, uq_task_steps_task_position).
WorkOnce == \A i \in 1..Len(work) : work[i] <= 1

\* An attempt that hands a verdict to the worker has left it everywhere else: on
\* its AgentRun, and on the step of its conversation (_finalize_step,
\* _finalize_agent_run).
VerdictAgrees ==
  \A a \in Attempt : att[a].outcome \in Verdict =>
    /\ att[a].row = att[a].outcome
    /\ mode = "hermes" => steps = <<[status |-> att[a].outcome, by |-> a]>>

\* A completed task of the legacy executor has no open step but those it has
\* passed over, and a failed or paused one has completed every step before the one
\* that stopped it (_execute_legacy_steps).
StepsBehindAreDone ==
  mode = "legacy" =>
    \A a \in Attempt : att[a].outcome \in Verdict =>
      /\ att[a].outcome = "completed" => att[a].pos = Len(att[a].plan) + 1
      /\ \A i \in 1 .. att[a].pos - 1 :
           att[a].plan[i] # "skip" => steps[i] = [status |-> "completed", by |-> a]

\* An attempt never takes an older TaskRun for its own, and as long as attempts do
\* not overlap it takes none but its own, in all three places that look for it
\* (run_task, load_task, build_context).
RunIsOwn ==
  \A a \in Attempt :
    LET found == {att[a].link, att[a].load} \ {0} IN
    /\ \A r \in found : a <= r
    /\ ~overlap => found \subseteq {a} /\ context[a] \in {0, a}

\* As long as attempts do not overlap, the metadata of the task tells the last
\* routing and the last verdict, however many attempts died (read-modify-write of
\* metadata_json in run_task and _finalize_agent_run).
MetadataIsCurrent ==
  ~overlap =>
    /\ meta.routed = Max({0} \cup {a \in Attempt : att[a].row # "none"})
    /\ meta.final = Max({0} \cup {a \in Attempt : att[a].row \in Verdict})
=============================================================================
