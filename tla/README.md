# Agent_Sam in TLA+

Agent_Sam (Python, asyncio, PostgreSQL) takes tasks from chat gateways, queues
them in a database table, and has worker processes execute them with language
models and tools. This directory holds TLA+ modules translated from its source,
the TLC runs that check them on small instances, and theorems about them that
TLAPS proves for every value of the constants. Paths below are relative to the
repository (`src/`).

    tlc -workers 2 -config TaskQueueRaces.cfg MCTaskQueue
    tlapm TaskQueueProofs.tla

`PROJECT.json` lists every run with its module and its configuration, the source
lines behind every definition (`map`), the code mutants that each property is
known to catch (`mutants`), and the hazards of the code (`hazards`).

1. [Inventory](#1-inventory) · 2. [Plan](#2-plan) · 3. [Task queue](#3-the-task-queue)
· 4. [Conversation loop](#4-the-conversation-loop) · 5. [Attempts](#5-the-attempts-at-a-task)
· 6. [Harness](#6-the-harness) · 7. [Shell](#7-shell-commands-and-approvals)
· 8. [Skills](#8-skill-proposals) · 9. [Task workspace](#9-the-workspace-of-a-task)
· 10. [Profiles](#10-agent-profiles) · 11. [Chat](#11-from-a-message-to-a-task)
· 12. [Installation](#12-the-installation) · 13. [Proofs](#13-proofs)
· 14. [Findings](#14-findings) · 15. [Out of scope](#15-what-is-not-modelled)

## 1. Inventory

How the parts talk to each other: a gateway hands every message to
`AgentGatewayService`, which writes tasks, messages and approvals; workers poll
the `tasks` table; a worker calls `handle_task`, that is
`SpecialistAgentRuntime.run_task`, which routes the task to a profile, asks the
budget service for a model, and runs either the graph of `agent/nodes.py` or the
harness; these call models and tools and write steps, tool calls, events and
memories. Nothing is sent from one process to another: **the database is the only
channel**, at read committed isolation, and only `db/task_queue.py` takes row
locks. Inside a process everything is one asyncio thread, so interleavings happen
at awaits, which for shared state means: between transactions.

| Part | State | Operations | Hard behaviour | Correct when |
|---|---|---|---|---|
| Task queue `db/task_queue.py` | `tasks`, `task_runs`, row locks | create, claim, report, pause, resume, cancel, reprioritise | SKIP LOCKED passes over busy rows; stale sessions; terminal tasks can be resumed | a pending task is claimed once; running tasks have an owner; clients see only the states they may rely on |
| Worker `workers/main.py` | the task in hand | poll, execute, report, `--once` | crash in any state; report that finds the row locked | no task is left running except by a crash, a skipped report or a tool that never returns; a task a poll passed over is served later |
| Gateway service `gateways/service.py` | sessions, messages, approvals | commands, natural-language intents, follow-ups, links | load without lock, then lock and update; many commits per message, which a timeout may part | a task goes back to a message of its chat that asks for it, and is linked to it |
| Gateway runner and transports `gateways/*` | started gateways, polling | start, stop, cancel, conflict | partial start, a stop that fails or meets a message, timeout of a request | a handler that is cut off leaves what it committed consistent |
| Specialist runtime `agents/runtime.py` | `agent_runs`, `Task.metadata_json` | route, open, close, learn | read-modify-write across awaits; newest run taken for one's own | verdict on the row = verdict to the worker |
| Graph `agent/nodes.py`, `agent/graph.py` | `task_steps`, `context_json`, subtasks | load, context, plan, execute, save, report | death between commits; second attempt finds the first one's steps | no step executed twice; steps behind the current one are done |
| Conversation loop `agent/nodes.py`, `agent/model_client.py` | guardrails, conversation | ask model, execute batch, halt | two loops, two limits with one number, batches | bounded calls and failures; terminal calls are last |
| Shell tool `tools/shell_command.py` | `tool_calls`, `approvals` | submit, classify, run, execute approved | check-then-act, timeout, crash while running | risky commands run at most once and only when approved |
| Harness `harness/*` | `agent_events`, iteration counters, workspace files | next action, policy, execute, approve, finish | unlocked sequence numbers, shared error counter, approvals asked for in two places | a bounded run while tools return; events numbered; paused only by its policies |
| File editor, workspace `harness/file_editor.py`, `workspace.py` | files, backups, patch records, snapshots | lay out, seed, write, patch, roll back, snapshot, restore | crash between overwrite and record; two attempts in one tree; a copy that is cut off | what an edit wrote over is kept; a patch does what it means |
| Budgets, model router `services/*` | `model_budgets`, `model_calls` | choose, record, fall back | check-then-act; lost updates; duplicate day rows | spending never forgotten, overshoot bounded |
| Skills, learning, sub-agents `db/skill_service.py`, `services/agent_learning_service.py` | proposals, approvals, skills, profile files | propose, review, publish, activate | two review paths, unlocked supersede | one active version; proposal and approval agree |
| Routing and profiles `agents/router.py`, `registry.py`, `services/sub_agent_factory.py` | profile files, a router and a cache per process | load, choose, look up, create an agent | files read at different times and written in place; a crash between two writes and a commit | profiles in use were approved; the agent chosen is known |
| Memory `db/memory_service.py` | `memories` | save, search, build context | ranking, truncation | the best memories within the limit |
| Installer, doctor, deployment `scripts/*`, `deployment/*` | `.env`, code and dependencies on the host, schema, services | install, migrate, seed, restart, diagnose | a run that ends in the middle; restarts by systemd; a database that is changed | what is reported as started is what was synced and migrated |
| API, set-up wizard, other scripts | settings | configure, chat, start | sequential | – |

## 2. Plan

In this order, the most important behaviour first. A step is done when its module is
checked, its mutants are caught and, where marked *T*, its theorems are proved.

| | Module | Question | State |
|---|---|---|---|
| 1 | `TaskQueue`, abstract `TaskLifecycle` (refinement) *T* | who works on what, and who is told | done |
| 2 | `HermesLoop` *T* | does a run end, with which verdict, after how much | done |
| 3 | `AgentRun` (composes claim, graph, executors, runtime) *T* | what is left when attempts overlap, die and are retried | done |
| 4 | `HarnessLoop` with its events *T* | limits and approvals of the harness; what its log tells | done |
| 5 | `ShellApproval` *T* | is a risky command run once, and only when approved | done |
| 6 | `SkillProposals` *T* | do proposal, approval and skills agree, over both review paths | done |
| 7 | `TaskWorkspace` *T* | can what was edited be undone; is a copy whole; is a diff applied as it was meant | done |
| 8 | `AgentProfiles` *T* | whose profiles are in use; is the agent of a decision known | done |
| 9 | `Conversation` (service, transports, runner) *T* | where does a task come from, and to which chat does it belong | done |
| 10 | `Installation` *T* | what does a successful installation leave behind | done |
| 11 | proofs for `TaskWorkspace`, `AgentProfiles`, `Conversation` | the same properties for every instance | done |
| 12 | `TaskAttempts` (composes `AgentRun` with `TaskLifecycle`) *T* | which overlaps the queue lets happen; is the status of a task what its attempt left behind | done |

## 3. The task queue

**Modules.** `TaskQueue.tla` is `db/task_queue.py`, `workers/main.py` and the commands
of `gateways/service.py` that steer tasks. `TaskLifecycle.tla` says what a client may
rely on. `MCTaskQueue.tla` adds the symmetry sets.

**State.** `task` and `runs` are the tables; `lock` holds the row locks of open
transactions; `wpc`, `job`, `attempt`, `outcome` are a worker's position and local
variables; `cpc`, `cop`, `ctodo`, `csnap`, `clisted` those of a gateway session.
`orphan`, `attempt` and `clisted` are history: no guard of another variable reads them.

**Actions.** An operation is two steps, the select that takes the row lock and the commit
that writes and releases it, because everything between them is one transaction of which
others see nothing. `ClaimSelect`/`ClaimCommit` is `claim_next_task`,
`ReportSelect`/`ReportCommit` is `complete_task`, `fail_task` and `pause_task` called by
the worker, `Load`/`CommandSelect`/`CommandCommit` is a gateway command. SKIP LOCKED makes
the branches `ClaimNothing`, `ReportSkipped` and `CommandSkipped`, which the code takes
silently. `InsertChild` stands for any transaction that inserts a row referencing the task
(a message, an event, a tool call): PostgreSQL's FOR KEY SHARE on the parent row conflicts
with FOR UPDATE. `Net` is SQLAlchemy's unit of work: a gateway session loads the row before
it locks it, the identity map keeps the loaded attributes, and an assignment of the loaded
value is not written.

**Left out.** `update_task_status(..., "running")` has no caller. `_latest_task_run` also
skips locked rows; locks on `task_runs` are not modelled. `task_runs` is a sequence, its
index is `attempt_number`: the task's row lock serialises the numbering. The work itself is one
action, `WorkEnds`, with one of three outcomes; what an attempt does is section 5.

| Run | Instance | Shows |
|---|---|---|
| `queue_races` | 1 task, 2 workers (one `--once`), 2 sessions, 3 commands or inserts, 1 crash | `ClaimsArePending`, `OneAttemptRunning`, and that every step is one of `TaskLifecycle` |
| `queue_live` | an urgent and a low task, 1 worker, 1 session with 1 command or insert, 1 crash | `PendingIsServed`, `RunningComesToRest` |

`RunningIsOwned` and the type invariant are proved (section 13); TLC does not repeat them. `ClaimsArePending` compares
the commit of a claim with the state *at the commit*, in which other workers and sessions have acted since the select; without
the row lock (mutant `ClaimableNoSkip`) two workers claim one task.

**Bounds.** `MaxTraffic` bounds commands and inserts, `MaxCrashes` crashes. Three commands
are what the worst cases need: a pause and a resume give a running task to a second worker,
and a third, stale command interferes. One task suffices for the races since operations
never touch two rows in one transaction; the order between two tasks of different
priorities is in `queue_live`.

**Fairness.** `WF(LoopStep(w))`: `worker_loop` polls in a `while True`. `LoopStep` has every step of the worker but the
end of its work: nothing makes `handle_task` return (section 7: a command may keep its pipes open for ever), so
`PendingIsServed` and `RunningComesToRest` have it as a hypothesis, of some polling worker and of the workers that execute the
task. `WF(Restart(w))`: `deployment/systemd/agent-worker.service` has `Restart=on-failure`. `WF(CommandStep(c))` and
`WF(InsertDone(t))`: a transaction, once open, commits or is rolled back. No fairness on
`Create`, `Command` or `Crash`. `RunningComesToRest` excepts orphaned tasks, and has to: there is
no lease, heartbeat or clean-up, so a task whose worker crashed stays running until a user
resumes it.

**Starvation.** The order is by rank and age without ageing (`db/task_queue.py:177`): under an endless supply of urgent
tasks a low one waits for ever, and so it does under a user who pauses and resumes it for ever. That is how the code
is, and `PendingIsServed` does not deny it: tasks and commands are finitely many in the run. What it shows is that a task is not lost on the way: a poll that passed
over it because its row was locked, or a claimer that died between select and commit, leaves it for a later poll.

## 4. The conversation loop

**Modules.** `HermesLoop.tla` is `execute_step` of `agent/nodes.py` in its Hermes form, with
`ToolCallGuardrails` of `agent/model_client.py`. `MCHermesLoop.tla` adds the symmetry of the
tool signatures for runs without a liveness property.

Its specification is `LoopSpec`, since `AgentRunProofs` extends it together with `AgentRun`; for the same reason that of
section 9 is `WorkspaceSpec`.

**State.** `iteration` is the variable of the `for`; `count`, `fails`, `recent` are the fields of
the guardrails; `turn` is what is left of the current batch of tool calls; `status` is
`final_status`. `log` and `reason` are history.

**Actions.** `Halt` is the check at the top of the loop, `Answer` a turn without tool calls
(an exception of the model client arrives as text and ends the run in the same way),
`CallTools` a turn with a batch, `ExecuteTool` and `ExecuteTerminal` the body of the inner
loop, `Raise` an exception of `_summarize_tool_args` on malformed arguments, `Exhaust` the end
of the `range`. A tool call is its signature; what a tool does is one of three outcomes.

| Run | Instance | Shows |
|---|---|---|
| `hermes_loop` | 2 signatures, 4 iterations, 3 failures, window 4, batches of 2 | `StreakIsReal`, `CallBudget`, `TerminalIsLast`, `LoopEnds` |

That a run of failures is cut (`FailureRunIsCut`) is proved.

**Bounds.** `MaxCalls` bounds a batch, nothing in the code does; both limits that depend on it
are stated and proved as functions of it. The code's numbers are 40 iterations, 5 failures and
a window of 6: the instances keep the order window > failures > batch in which each of the
three reasons to halt can come first. **Fairness.** `WF` on the steps in which the loop waits for nobody: `Halt`,
`ExecuteTerminal`, `Exhaust`. The code sets no limit on a model call, and none on a tool: after the timeout of a command
`tools/shell_command.py:305-306` kills the shell and reads its output to the end, which a descendant may keep open. That the model
answers and the tools return is therefore the hypothesis of `LoopEnds`, not its fairness; a run that waits for
either hangs, and `LoopEnds` says that it hangs nowhere else.

## 5. The attempts at a task

**Modules.** `AgentRun.tla` is `run_task` of `agents/runtime.py` around the nodes of
`agent/nodes.py`, for any number of attempts at one task. `TaskAttempts.tla` puts the queue and the worker around
them: it is the module that is checked. `MCAgentRun.tla` gives the plans.

**State.** `att[a]` is the coroutine of the a-th attempt (its position, what it has read, its
plan and verdict) and its `agent_runs` row; `steps`, `meta`, `context`, `claimed` are the rows
that attempts share. `work` counts how often each step was begun; `overlap` is
history. Every action is at most one commit, so `Die(a)`, possible everywhere, is both the
crash of the process and an exception that leaves `run_task`.

`TaskAttempts` adds what `TaskLifecycle` shows of the queue, the status of the task and the attempts whose
worker has not reported (`open`), and as history whose report the status is (`told`) and whether the task
was made pending with an attempt open (`resumed`).

**Actions.** `Claim` is that of the queue, in `AgentRun` guarded by nothing, in `TaskAttempts` by the status.
`SubmitTask`, `ClaimTask` and `SteerTask` are the queue as a client sees it; `Attend` is the worker inside
`handle_task`, `LoseWorker` its crash, `ReportOutcome` its report and `ReportDropped` one that finds the row
locked. They are steps of `TaskLifecycle` (`LifecycleKept`, proved), which `TaskQueue` is shown to implement
(section 3), so the composition takes nothing for granted that the queue does not do; that its locks and sessions
are not composed with the attempts state by state is the abstraction. `Route`, `OpenRun` ... `ReadBack`, `CloseRun`, `Learn` are the
runtime; `LoadTask` ... `SaveMemory` the graph; `Begin`, `EndLoop`, `FinalizeStep` the Hermes
executor, `Begin`, `Worked`, `Fail`, `Pause`, `TickOff`, `Skip` the legacy one; `RunHarness` the
harness as one step. `PlanConflict` is the unique constraint on `task_steps`.

| Run | Instance | Shows |
|---|---|---|
| `agent_run` | `AttemptsSpec`: 2 attempts; Hermes, 13 legacy plans of up to 3 steps (every plan of at most one step, every kind of step after a tool, four more), the harness | `OverlapIsResumed`, `StatusIsBacked`, `WorkOnce`, `RunIsOwn`, `MetadataIsCurrent`, `StepsBehindAreDone` |

`VerdictAgrees`, which says of every attempt what `StatusIsBacked` says of the one that reported, is proved of
`AgentRun`, and so are the last four for claims at any moment: nothing in them needs the queue.

**Bounds.** Two attempts show every pair of writers of a row; a third, between two others, multiplies the
states by twenty, and that nothing changes with any number of attempts is proved (section 13) for all of these
properties. `CHECK_DEADLOCK FALSE`: the
attempts are finitely many and end. **Reading of the properties.** `OverlapIsResumed` names the one cause of
overlaps: a crash, a lost report or a retry never leads to one, a user's /resume (or a /pause and a /resume) of a task that is still
worked at does. `StatusIsBacked` is about tasks of gateways; a subtask of a legacy plan is also ticked off by its parent
(`agent/nodes.py:376`). The legacy executor is reached from
tests only: `agents/runtime.py:103-110` always gives the graph a planning model that leads to the Hermes one. A task keeps its mode in the
model, though routing could choose another one for a second attempt; and the cost `CloseRun`'s transaction is followed by is left out (section 15). `RunIsOwn` and
`MetadataIsCurrent` are conditional on `~overlap`, and that is the point: the lookup of "the newest
run" and the unlocked write of the metadata are right only then; what is left in general is that no
attempt takes an *older* run. `WorkOnce` is unconditional. It is the unique constraint that
guarantees it, at the price of note 4 of section 14.

## 6. The harness

**Modules.** `HarnessLoop.tla` is `HarnessLoop.run_task` of `harness/loop.py`, `execute_action` and the
handlers of `harness/tool_executor.py`, and `append_event` of `db/repositories.py`.
`MCHarnessLoop.tla` says which kinds of action each run takes.

**State.** Per run: `pc`, `iteration`, `errors` (`repeated_errors`), the current `action` and the
`verdict` `_finish` is given; `log` is its `agent_events`, `rows` counts its `tool_calls`; `approvals` is
the table. The runs are attempts at one task (section 5), each with an
`agent_runs` row of its own, so none starts with a history.

**Actions.** An action of the model is one of seven kinds that policies and tools treat differently
(head of the module). Every commit is a step: the event before the policy's decision (`CallTool`), the
approval (`Ask`) before its event (`Announce`), the tool (`Handle`, `HandleCommand`,
`HoldCommand`, `Resolve`), its own event (`Note`), its row (`Record`), the result
(`Report`). `Erred` is shared by `ModelFails`, `Block` and `HandlerRaises`. A run may die at every step.
An observation that is not an error resets the counter even if the command failed or was held; that is
what the code does. An approval of a shell call cannot be resolved by the `approval` action:
`approval.tool_call` is loaded lazily, which an `AsyncSession` refuses, so only `HandlerRaises`
is left.

| Run | Instance | Shows |
|---|---|---|
| `harness_loop` | 2 runs, 2 iterations, 2 errors; one run takes all seven kinds of action, the other asks for approvals | `ErrorsAreInARow`, `LogTellsOutcomes` (with `EventsAreNumbered`), `ResultsHaveRows`, `PoliciesAlonePause`, `RunEnds` |

**Bounds.** Only `MaxIterations` bounds a run. Two iterations with a limit of two errors reach error–result,
result–error, error–error and an approval after either, and the busy run can resolve the approval the other
asked for; two runs are what it takes to number one run's events after another's. **Rows.** `docs/tool-system.md:26-30` promises a row of `tool_calls` on every path; a refused action and
a handler that raises return before `_record_tool_call` and leave none (`tool_executor.py:94-127`).
`ResultsHaveRows` states what is left: a call with a result has its row. **Approvals.** `docs/harness.md:13` has the harness pause
on approval, and that is only half true: a command that the policies allow and the shell tool holds
(`HoldCommand`) leaves an approval in the table too, but is an ordinary observation to `run_task` (`harness/loop.py:114`): the run goes on and may return
completed while that approval is pending. `PoliciesAlonePause` says what the code does instead: a run pauses exactly when its *policies*
asked, once; the approvals of held calls, in the model the ones `with_call`, pause nothing.
**Events.** `/events` lists in ascending order with a limit of ten (`gateways/service.py:525`): the oldest ten, where
`docs/events.md:26` speaks of the most recent. **Fairness.** `WF` on the steps of a run, which is one coroutine, except where it waits
for the model (`InLoop`) or for a handler (`InHandler`): the runtime limit is looked at between two turns only, and a handler
may wait for a command for ever (section 7). That these come back is the hypothesis of `RunEnds`; it waits for no
person. Death, and the user's `/approve`, are not fair.

## 7. Shell commands and approvals

**Modules.** `ShellApproval.tla` is `submit_command`, `execute_approved_tool_call` and `_execute_tool_call` of
`tools/shell_command.py`, with `/approve` of `gateways/service.py`.

**State.** `call` and `approval` are the rows of `tool_calls` and `approvals` of each command; `caller` is a coroutine
that calls the tool, with the status and the `approved_by_user` its session has loaded. The risk rules are the
`grade` of a command: safe, risky, blocked. `held` says that descendants of the command keep its pipes
open; that is up to the command. `starts`, `refused`, `stale` and `lost` are history.

**Actions.** `SubmitRefused`, `SubmitHeld`, `SubmitSafe` are the three commits of `submit_command`, each row with its
approval. Whether the directory exists is up to the file system, at submission and again at execution. `Load`,
`Decide`, `Write` are `execute_approved_tool_call`: the row is read, the approval is read, the decision is committed
without a lock and without a second look (`Net`: a status equal to the loaded one is not written). `Start`,
`Finish`, `TimeOut`, `Drain` are `_execute_tool_call`; after the timeout the shell is killed and `communicate()` waits
once more, until nobody holds the pipes. `Die` is a crash or an exception, in every state. Nothing outside the tests calls
`execute_approved_tool_call` at present; the model takes it for what it offers, to any number of callers at any time.

| Run | Instance | Shows |
|---|---|---|
| `shell_approval` | 1 command of any grade, 3 callers | `RiskyRunsApproved`, `RunsOnce`, `RunningIsExecuted`, `ExecutionEnds` |

**Reading of the properties.** `RunsOnce` excepts the calls in `stale`: those for which a decision was written
over a status that had changed since it was read. Two overlapping callers do run an approved command twice; the property says
that this is the only way, and that `RiskyRunsApproved` holds even then. `RunningIsExecuted` excepts calls whose
executor died: nothing recovers those. `HeldIsAskedFor`, which is proved, excepts calls refused for their directory, which are later found
to be risky and wait for an approval that does not exist. `ExecutionEnds` excepts held pipes. **Bounds.** Commands do not meet,
so one is enough; with three callers one can execute while two race over the row. `MaxStarts` bounds how often
a call is taken up. `CHECK_DEADLOCK FALSE`: a concluded call is at rest. **Fairness.** `WF(Step(p))`, a coroutine goes on while it
is alive; submitting, loading, approving and dying are not fair.

## 8. Skill proposals

**Modules.** `SkillProposals.tla` is the part of `db/skill_service.py` that writes, the skill part of
`services/agent_learning_service.py`, and the commands `/skills approve` and `/approve`. `MCSkillProposals.tla` gives the
definitions.

**State.** `skill`, `proposal`, `approval` are the tables, for one skill name of one workspace. A definition is a version and the hash of
its content: a skill row is unique in its version, a proposal in both. `session` is a database session with what it has
read. `direct`, `accepted`, `raced`, `crossed`, `clashed` are history.

**Actions.** Reads that a decision rests on are steps of their own, a commit is one step. `Sync`, `Create`, `Propose`, then
`LookForPending` and `Insert`, bring definitions in. `Review` leads to `CommitReject` or, through `Check`, `Collect` and
`Commit`, to a published skill. `Accept` and `CommitAccept` are the other way: `approve_skill_proposal` accepts without publishing, and
`Activate` publishes through the same steps. `Approve` is `/approve` on the proposal's approval, which looks at neither. A
unique constraint that is violated ends the session's operation (`Leave`). `Create`, `Review`, `Activate` and
`Propose` are called by tests and not by the application so far.

| Run | Instance | Shows |
|---|---|---|
| `skill_proposals` | versions 1, 2 (two contents), 3; 2 sessions; 5 operations | `PublishedWasAccepted`, `ApprovalAgrees`, `NewestIsActive` |
| `skill_proposals_approved` | the same, 1 session | *violated*: the finding of section 14 |

**Reading of the properties.** `PublishedWasAccepted` has no exception but a first sync. The others, and `VerdictIsOne`, which is proved, except operations that
overlapped (`raced`, `crossed`): a rejection and an acceptance both succeed, two publications leave two active versions. They
say that nothing else, no sequence of operations and no crash, has these effects. **Bounds.** `MaxOps` bounds the operations
begun: a proposal, a verdict and a publication are three, and two more interfere. `CHECK_DEADLOCK FALSE`: then all is done. Safety only, so no
fairness is assumed. The files of one synchronisation are taken one by one.

## 9. The workspace of a task

**Modules.** `TaskWorkspace.tla` is `harness/workspace.py`, `harness/file_editor.py` and the seeding in
`_run_harness_task` of `agents/runtime.py`. `MCTaskWorkspace.tla` gives the repository and the diffs.

**State.** `tree` is the task's directory: the files of `repo`, the `backups` and `records` of `patches`. Its `edits` and
`broken` are history, the edits in the order of writing, and whether a copy was cut off or two overlapped. `row`
is the status in `workspaces_runtime`, `snapshot` a copy of the tree. `att[a]` is an attempt with the edit it is at, `op` a command of the
manager in progress. `inside` says whether the workspaces lie below the repository that is copied, as with the default
`./workspaces` and the worker's working directory they do.

**Actions.** `Open` to `EndCopy` lay the tree out and seed it, file by file; `BeginWrite` and `BeginPatch` read the file and compute
what it will hold, `SaveOld`, `Write`, `StoreRecord` are the three effects of an edit, and `Crash` and `CrashWriting`, which leaves
an emptied file, may come between any two. `Apply` is `_apply_unified_diff`, recursive functions over hunks and lines that keep the code's
cursor: a removed line moves on whatever the source holds. `Look`, `Snapshot`, `Restore`, `Cleanup`, `Rollback` are the manager's
commands. Only `Look` has a caller in the program (`/workspace`); the others are given while no attempt runs.

| Run | Instance | Shows |
|---|---|---|
| `task_workspace` | 2 attempts, a repository of 2 files and a file it does not have, 3 diffs, 2 edits, 3 commands | `EditsAreReversible`, `RollbackUndoes`, `PatchIsExact`, `SeededIsWhole` |

**Reading of the properties.** `PatchIsExact` is about diffs made for the text they are applied to, and compares `Apply` with
`Meant`, which works backwards on whole line ranges. A hunk without old lines is excepted unless the text is empty: the code places
it one line too early (section 14). That the two agree is proved for every text and every diff; the run checks that the text an
attempt writes is still that one. The three others except trees that are `broken`: only an empty repo is seeded, so a part
of a copy counts as the repository from then on. `EditsAreReversible` and `RollbackUndoes` also except an edit during which another attempt
wrote the same file. **Bounds.** Two edits are what it takes for one to follow or disturb another; each command must meet
one that came before. `CHECK_DEADLOCK FALSE`: attempts and commands are finitely many. Safety only: nothing is promised to happen after a
crash, so no fairness is assumed. **Left out.** Paths outside the workspace (refused by both files), listing and reading; a snapshot, a restore
and a backup are one step each; the end of a file's last line and diffs of several files.

## 10. Agent profiles

**Modules.** `AgentProfiles.tla` is `agents/registry.py`, `agents/router.py` and `services/sub_agent_factory.py`, with the proposals of
sub-agents in `services/agent_learning_service.py`. `MCAgentProfiles.tla` gives profiles, drafts and tasks.

**State.** `proposal` and `record` are the tables, `config` and `prompts` the generated files, which all processes share.
Of a process, `router[p]` are the profiles its router read at its start, `cache[p]` those of `_cached_profiles`, filled at the
first look-up; `making[p]` is a creation in progress, `last[p]` the last decision.

**Actions.** `Propose`, `Approve`, `GrantTools` bring a proposal to where it may be created. `BeginCreate`, `OpenConfig`, `WriteConfig`, `OpenPrompt`,
`WritePrompt`, `Flush`, `Commit` are `create_agent_from_approved_proposal`, write by write; the unique slug makes a second
creation wait in `Flush` and fail. `Route` is `route` with the look-up that follows it: `Score`, `Found`, `Better`,
`Fallback`, `Chosen` and `Decision` are the scoring and the choice. `Start` and `Die` may happen at any time. `write_text` is two steps, as it
empties the file, whoever wrote it before, and then fills it; a process that dies in between leaves it empty, and `torn` keeps in mind
when that happened to a file that somebody else had made or was making.

| Run | Instance | Shows |
|---|---|---|
| `agent_profiles` | 2 processes, 3 agents of the program, 3 drafts (one replaces an agent of the program, one does not validate), 2 tasks | `AgentsAreApproved`, `CreatedIsInstalled`, `RoutedIsKnown` |

**Reading of the properties.** `RoutedIsKnown` is not obvious: a router is as old as its process and the cache may be
newer, and it holds because profiles are never removed and a process never has an older cache than its router. `CreatedIsInstalled` excepts
what `sub_agent_factory.py:38-39` lets happen: a second creator empties the file of a record that is committed, or about to be, and writes it
anew or dies. Then a committed record stands over an empty file; an empty config makes every load fail, for all processes, until somebody
repairs it. Every other way to a record without whole files is excluded, and so are records without a created proposal. What does *not* hold is seen in the model too: an agent
that was created is routed to only after a restart; one generated profile that does not validate makes every process unable to start or
to look up an agent; the slug inside a generated file may be that of an agent of the program, which it then replaces; and nobody sets
`dangerous_tools_approved` (`sub_agent_factory.py:29`), so `GrantTools` is an edit by hand. **Bounds.** One restart suffices for a router that is newer
than another process's. `CHECK_DEADLOCK FALSE`: restarts and proposals are used up. Safety only: nobody has to approve.
**Abstractions.** A write that fails without the death of its process (a full disk) leaves the same files as a death. The
router's keyword routes and its premium route end in the same fields of a decision.

## 11. From a message to a task

**Modules.** `Conversation.tla` is the part of `gateways/service.py` that decides what a message means, with
`gateways/runner.py`, the terminal and the Telegram bot. `MCConversation.tla` gives texts and their traits.

**State.** `message` and `task` are tables in the order of their rows, a history is a set of positions in the first
(`Latest`: the last so many); `at[g]` is the message a gateway handles, one at a time, and how
far; `runner` and `up` are `_run_gateways`, `up` its list `started`; `live` are the gateways that receive. `cuts` is history. A text is one of a few, told apart by what the code's phrase lists and patterns find in it;
a task has the text of its request and apart from it the message its path was taken from, if any.

**Actions.** `Receive` stores the message. `RunCommand` deals with a command, `Manage` with the management of tasks in plain words, `Decide` and
`Ask` with the intent: `Inherited` is the request a "yes" is about, `Intent` the order of the heuristics, `Ask` the model or, without it,
`Guess`. `Create` and `Link` are two commits. `Cut` may part any two: the terminal's timeout, an error, a crash. Workers write
reports and finish tasks meanwhile. `Settle` is the last look before a task: a text about a folder that it does not name gets
the path (`PathFor`) of the newest of 60 messages of the *whole workspace*, and becomes a task even if it was a question.

The runner starts the gateways one after the other. `Listen` is the moment in the middle of a start from which a gateway receives,
`FinishStart` the return of the start, `FailStart` its exception: the gateway is not in the list then, is not stopped, and goes on handling messages
if it had begun to. `StopGateway` waits for a Telegram update and cancels what a terminal handles; after `FailStop` the gateway goes on, too. `EndService` is the end of a terminal or
an interrupt, `EndRunner` the end of `asyncio.run`, which cancels whatever still runs, between any two commits. A bot that stops itself on a polling conflict is one that receives nothing.

| Run | Instance | Shows |
|---|---|---|
| `conversation` | a Telegram chat and a terminal, 7 texts, 4 messages of which 3 are looked at, 2 tasks, 1 cut besides those of the shutdown | `TasksAreAskedFor`, `TasksAreLinked`, `OwnTaskIsMeant` |

**Reading of the properties.** A task does *not* come from its chat alone: "what is in that folder" lists the folder that the newest
message with a path named, which may be one of another chat, of another user, or a worker's report stored after the question.
`TasksAreAskedFor` says that this is all: the request is of the task's own chat, a path is only added to a text about a folder it
does not name, and it is the newest that was named before the message, or newer. `TasksAreAskedFor` also allows that the offer was stored *after* the "yes": a worker's report may come
between the two commits in which a message is saved and the history read. So "ok thanks", said after a task was made, makes
the task again, and it does without any race. Commands with a task's id (`/cancel`, `/status`) are about the workspace and not the
chat, so `OwnTaskIsMeant` is about plain words only. A question about the status ends in the same
step as a cancelling, `Link`; no text of the run asks one, the proof covers it. That what one gateway looks at is not added to by another
rests on `ChatsAssumption`: a chat belongs to one gateway, as the code compares
the gateway's name along with the id (`gateways/service.py:1471-1474`). **Bounds.** The code looks at 30 messages and takes 12 of them; here 3 of 4, so that a request can fall out
of the history, also by what another chat says; `Lookback` is 60 there and 3 here, so that a path is forgotten, too. Two tasks suffice to name the wrong one. `CHECK_DEADLOCK FALSE`: the
runner ends. **Fairness.** None: nobody has to write, and the code sets no bound on the handling of a Telegram update. **Left out.** Sessions are one to a
chat; the webhook's requests, which may overlap; the wording of answers.

## 12. The installation

**Modules.** `Installation.tla` is the production path of `scripts/install.py` with `deployment/linux/bootstrap-app.sh`,
`bootstrap_preflight.py`, `seed_dev.py`, `env_writer.py`, and the checks of `scripts/doctor.py` that decide whether it goes on.
`MCInstallation.tla` gives the answers.

**State.** `repo` is the version of the checkout, `target` that of the synced code and of its dependencies, `env` the file, `data` the
schema and the seeded rows of each database, `up` the databases that are served, `service` what the services were started with, `inst` the run of
the installer, `report` how the last one ended. `moved` is history.

**Actions.** One step of the installer is one action, `Begin` to `Doctor`, in the order of `_run_production_install`; `Fail` may take the place of
any, and leaves a mix of two versions or an emptied file where the step writes. `Prepare` and `Preflight` turn to the bundled
database of `docker-compose.yml` when the one named does not answer at a loopback address. `Release`, `Serve`, `Revive` (`Restart=on-failure`) and `ClearIds` are the
host and its operator.

| Run | Instance | Shows |
|---|---|---|
| `installation` | 3 runs over 2 versions, 2 databases, 3 choices of models | `StartedIsCurrent`, `IdsAreRows`, `ModelsHaveKeys` |

**Reading of the properties.** `IdsAreRows` excepts a run that changed the database under ids that were set: those then dangle, and the doctor lets
them pass or, if the new database is empty, never becomes healthy. `ModelsHaveKeys` holds by a detour that
the proof makes explicit: the key of OpenRouter is asked for by the specialists' models as they were *before* the answers, but
those of an unfilled file are OpenRouter's, so the first run asks for it. **Bounds.** Two runs change the database twice or update, a third repairs. `CHECK_DEADLOCK FALSE`: the
runs are used up. Safety only: a run ends when its step cannot be taken. **Abstractions.** The
database stands for Redis and Qdrant; Anthropic, Gemini and Ollama are asked for like OpenAI (a model of Ollama that is named as a "custom" one is not asked for its base URL,
`scripts/install.py:551-593`, and fails the doctor); nginx is a step that may fail; migrations are one transaction.
A file that was emptied is the example, since the installer's defaults are the same.

## 13. Proofs

TLAPS proves the following for all values of the constants that satisfy the named assumptions of the modules: any
number of tasks, workers, sessions, commands, crashes, attempts, iterations, callers, definitions, versions, chats, texts, files. Each
component has its strengthened invariant, proved by `Init => IInv` and `IInv /\ [Next]_vars => IInv'`, one step per action.

Most assumptions give constants their types (`QueueAssumption`, `LoopAssumption`, `RunAssumption`, `HarnessAssumption`,
`ShellAssumption`, `SkillAssumption`, `AnswersAssumption`, `WindowAssumption`, `BaseAssumption`, `EmptyAssumption`, `DraftAssumption`, and the bounds)
or say that `None` is no value. Three say more: `ChatsAssumption`, that two gateways have no chat in common; `RankAssumption`, that
slugs are ordered, as strings are; `TaskAssumption`, that a text has finitely many words. `TextsAssumption` says what texts
and diffs are: sequences of lines, and of hunks that have a first line and marked lines, among which `Absent` is not. No theorem has
a hypothesis about the system beyond these.

| Module | Theorems | Why the invariant is stronger than the property |
|---|---|---|
| `TaskQueueProofs` | `TypeCorrect`, `OneAttempt`, `Owned`, `ClaimsPending`, `Refinement` (`Spec => ImplementsLifecycle`) | ties a worker's position to the row lock it holds, a claiming worker to a task that is still pending, and an executing one to an attempt that no other worker holds; without the lock facts `ClaimCommit` could open an attempt of a task that is already running. The refinement follows from the same invariant: every action is a `Start`, `Report`, `Lose`, `SteerTask`, `Submit` of `TaskLifecycle` or leaves its variables alone |
| `AgentRunProofs` | `TypeCorrect`, `AtMostOnce`, `Verdicts`, `OwnRun`, `CurrentMetadata`, `BehindDone` | `Core`: the attempt that executes is the one that inserted the steps; `Lookups`: what each attempt has read, by its position; `AllBehind`: the steps before the position of an attempt that has a plan, whatever becomes of it later |
| the same, on `TaskAttempts` | `AttemptsTypeCorrect`, `OverlapResumed`, `Backed`, `LifecycleKept` (`AttemptsSpec => KeepsLifecycle`) | `QueueInv`: who is alive has not reported; without a resume only the newest attempt is open, none while the task is pending, and the status is that attempt's report. The invariants of `AgentRun` carry over, since every step of `AttemptsSpec` is one of its own (`AttemptsRun`) |
| the same, on `HermesLoop` | `LoopTypeCorrect`, `Streak`, `Budget`, `FailureRun`, `Terminals` | `LoopInv` bounds the calls made and the streak by what was true when the current batch was started plus what of the batch is done |
| `HarnessLoopProofs` | `TypeCorrect`, `EventNumbers`, `ErrorLimit`, `Outcomes`, `Pauses`, `RowsOfResults` | `Story`: what the log tells by where the run is – no summary and no request before the end, everything decided is settled before the next decision, the counter is the cardinality of the errors since the last result; `Backed`: who asked finds the approval in the table; for the rows, a call between its row and its result has one row more than the log has results |
| the same, on `TaskWorkspace` | `EditsReversible`, `RollbackUndoesEdits` | `EditInv`: a tree is consistent in itself, its edits naming backups and its records edits, and so is a snapshot; `Knows`: a backup an attempt has taken is what its file still holds, unless it was disturbed; `Alone`: while an unbroken tree is seeded nobody else is at it, without which a copy could change a file between a backup and the write |
| | `SeededWhole` | `WholeInv` upon that: what an attempt may count on by its step (`Fits`), and, for rollbacks, that a file edited without a backup is not the repository's (`Seeded`); that the texts of lines are closed under `Apply` is `TextsClosed` |
| | `PatchExact`, from `DiffIsApplied` | `PatchInv` upon both: an attempt holds the diff, the text it was read for and the outcome of the one on the other, whatever others write meanwhile |
| `ShellApprovalProofs` | `TypeCorrect`, `RiskyApproved`, `Once`, `Running`, `Held` | what a caller has read and decided, by its position, compared with the row as it is now: as long as the call is not in `stale`, the one caller past its decision is the only one that may start it |
| `SkillProposalsProofs` | `TypeCorrect`, `Accepted`, `OneVerdict`, `Agrees`, `Newest` | `Holds`: what a session has read of a proposal, as far as it is still true; `Compared`: a publication knows all versions older than its own and, if there are no others by now, all active ones; `ProposalInv` ties verdicts to statuses |
| `AgentProfilesProofs` | `AgentsApproved`, `CreatedInstalled`, `RoutedKnown` | `ProposalInv`: a file holds the draft of a proposal that was approved; `Fits`: each layer of a process knows the agents of the one before, router those it named, cache those of the router, since file names only grow; upon that a second layer for the files: a creator past a write has found or made the file whole, and only one that has it open, or `torn`, can have undone it (`ConfigKept`, `PromptKept`, `FilesKept`); that the choice by score, number and rank exists needs `Bounded` |
| `ConversationProofs` | `TypeCorrect`, `AskedFor`, `LinkedToOne`, `OwnMeant` | `Current`: a gateway handles the newest message of its users; `Alone`: it has made a task only when the link is all that is left; `Meant`: what it is about to make has its ground in the chat; `Aimed`: what it is about to cancel is the chat's newest task; upon that `PathKept`: a path is there only once the task is settled and was then the newest of what is searched, which no newer message changes (`TracedStays`) |
| `InstallationProofs` | `TypeCorrect`, `StartedCurrent`, `Ids`, `ModelKeys` | `StepInv`: what a run has done by the step it is at, which the last report then inherits; `EnvInv`: a file without a database still has the specialists' models of the example, so the first run that fills it asks for the key of OpenRouter |

**Recursive functions.** The induction theorems of the library cannot be instantiated, so `DiffIsApplied` does without: a recursive
function on `0 .. N` equals one with a range that is shown to exist step by step (`Stepwise`), and what is stated of all its values
follows from the least number that would not satisfy it (`Climb`, by the well-foundedness of `<`). `Apply` and `Meant` traverse the diff in
opposite directions, so the induction compares them in the middle: after `n` hunks, what `Apply` has put out, joined with what
`Meant` makes of the text with the later hunks replaced, from the cursor on, is the text meant (`Halfway`). Its step is `HunkFurther`; it
needs that the later hunks lie behind the cursor (`Ordered`) and have not touched the lines before (`Shares`).

**Only model-checked.** Liveness (`PendingIsServed`, `RunningComesToRest`, `LoopEnds`, `RunEnds`, `ExecutionEnds`):
properties under fairness need ENABLED, which is out of the prover's reach.
Every other property of the runs is proved. No module declares a RECURSIVE
operator. `TypeOK`, and the invariants that sections 3, 4, 5, 7 and 8 call proved, are not checked by the runs.

## 14. Findings

`skill_proposals_approved` shows one: `docs/self-evolution.md:9` says "approved skills publish through the existing skill
system". `/skills approve` only sets the status; the next run's synchronisation (`db/skill_service.py:213`) looks for
a pending proposal, finds none, inserts the definition again and fails on the unique constraint, out of
`build_context`.

What follows was met while modelling. The models allow it; no run is spent on it.

1. *A paused row keeps its worker.* `tests/test_task_queue.py:65` expects none. A session that loaded the row before a worker
   claimed it writes no change for `assigned_worker = None` (`db/task_queue.py:233`).
2. *"The queue is now empty."* (`gateways/service.py:1564`) counts as cancelled a task whose row was locked and which stays active.
3. *An unfinished conversation is reported as completed.* `agent/nodes.py:4-6` names three ways the loop ends; with one call per
   turn the `range` runs out first. And lines 756-760, for which a non-zero exit code is "informational", cannot be reached: the shell
   tool calls such a command failed.
4. *A resumed attempt conflicts with its own steps.* `tests/test_agent_runtime.py:320` expects a task that was paused for an
   approval to complete when it is run again. The second run inserts its plan from position 1 again and fails on the
   unique constraint. (In the test's configuration the command is not held and the test returns before.)
5. *Seeding copies the copy.* With the default `./workspaces` (`app/config.py:66`) `copytree` descends into the tree it is making
   (`agents/runtime.py:204-206`) until the paths are too long, and raises; the files that were copied count as the
   repository from the next attempt on.
6. *A hunk without old lines* is inserted one line too early (`harness/file_editor.py`): a unified diff counts the line after which it belongs.
7. *The harness and its log.* `docs/tool-system.md:26-30`, `docs/events.md:26` and `docs/harness.md:13` ("pauses on approval"), see section 6. `/approve` of a skill's
   approval makes a later review of the proposal raise.
8. *Installer.* `setup --dry-run` creates `.env` (`scripts/setup.py:60`). `rsync --delete` removes what the target has and the checkout has
   not: `./workspaces`, generated profiles, cached sources, while their rows stay; the rsync of `setup.py` and of
   `install-host-assets.sh` does not exclude `.env`. `--skip-start` on a fresh host always fails at the production doctor, which wants running services
   (`README.md:246`: "can optionally ... start services"). An operator other than root meets a `.env` closed to him (`Collect` asks for root). A
   non-interactive run again overwrites `LITELLM_MODEL` with the provider's default (`README.md:246`: "The installer is idempotent").
   Numbers and secrets that are placeholders pass the installer and fail the doctor after the migration.
   `update_env_file` keeps the first of duplicate keys, readers use the last. `deployment/linux/README.md:165` says that
   `bootstrap-app.sh` refuses root; it does not.
9. *A sub-agent's files are written in place* (`services/sub_agent_factory.py:38-39`): a second creation that dies leaves a committed record
   over an empty config, and then no process can start or look up an agent (section 10).
10. *A path from somebody else.* `_enrich_with_recent_path_context` (`gateways/service.py:1737`) searches the messages of the workspace, not of
   the chat (section 11).

## 15. What is not modelled

- **Budgets and the model router.** The remaining budget is checked before a call and charged after it without a lock, which would be a
  race worth a module if the daily row were charged: the conversation loop's record of a call raises and is swallowed,
  the harness names an `agent_runs` id where a `task_runs` id belongs, which PostgreSQL refuses, and the sum a run charges in
  the end is therefore empty. The task's row is written and read by nobody. `requires_human_approval` of a decision is ignored
  (`docs/budgets.md:15`). The router tries models in order, once.
- **Memory** scores and truncates; it saves with one insert.
- **The set-up wizard, chat client, menus, API:** sequential and interactive, or constant. The dry run and the local path of the
  installer, and the text of the doctor's checks.
- **Browser, web research, GitHub:** their effect is outside the system; their outcome is one of three in `HermesLoop`.
- **The text** of prompts, replies and logs, the regular expressions of the risk rules, migrations.
- **The legacy executor's subtasks** are ticked off outside the queue (`agent/nodes.py:376`), which `TaskQueue` leaves out.

PostgreSQL, SQLAlchemy, asyncio and systemd are modelled only as far as the code relies on them.
