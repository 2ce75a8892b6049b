---------------------------- MODULE HarnessLoop ----------------------------
(***************************************************************************)
(* The harness: HarnessLoop.run_task of harness/loop.py with the           *)
(* ToolExecutor of harness/tool_executor.py, the approvals both of them    *)
(* ask for, and the rows of agent_events and tool_calls they leave.  The   *)
(* runs are attempts at one task (AgentRun), overlapping or not; each has  *)
(* an agent_runs row of its own, so it starts without a history.           *)
(*                                                                         *)
(* An action of the model is known by how policies and tools treat it:     *)
(*   open      allowed; no command of the shell tool is involved           *)
(*   shell     allowed; a command, which the shell tool classifies again   *)
(*   install   allowed; an installation or a git operation that the        *)
(*             runtime turns into a command                                *)
(*   guarded   the policies require an approval                            *)
(*   blocked   the policies refuse it                                      *)
(*   approval  resolves an approval                                        *)
(*   message   declared in harness/actions.py, but no tool is registered   *)
(***************************************************************************)
EXTENDS Naturals, Sequences, FiniteSetsExt

CONSTANTS
  Run,            \* the runs of the task
  MaxIterations,  \* agent_loop_max_iterations
  MaxErrors,      \* agent_loop_max_repeated_errors
  Actions,        \* per run: the actions the model chooses from
  None

Action == {"open", "shell", "install", "guarded", "blocked", "approval", "message"}
Verdict == {"completed", "failed", "paused"}

ASSUME HarnessAssumption ==
  /\ MaxIterations \in Nat
  /\ MaxErrors \in Nat \ {0}
  /\ Actions \in [Run -> SUBSET Action]
  /\ None \notin Run \cup Action \cup Verdict

VARIABLES
  run,        \* per run: the coroutine of run_task
  log,        \* per run: its agent_events in the order of their commits
  rows,       \* per run: how many tool_calls rows it has inserted
  approvals   \* the approvals table

vars == <<run, log, rows, approvals>>

EventType == {"user_message", "agent_thought", "tool_call", "tool_result", "effect",
              "approval_requested", "error", "run_summary"}
Event == [type : EventType, sequence : Nat]

State == [
  pc : {"idle", "turn", "calling", "blocked", "asking", "announcing", "handling", "noting",
        "recording", "reporting", "finishing", "exporting", "returned", "died"},
  iteration : 0..MaxIterations,
  errors    : Nat,                      \* repeated_errors
  action    : Action \cup {None},
  verdict   : Verdict \cup {None}]

\* with_call: the approval belongs to a tool call of the shell tool.
Approval == [by : Run, with_call : BOOLEAN, status : {"pending", "approved", "rejected"}]

TypeOK ==
  /\ run \in [Run -> State]
  /\ log \in [Run -> Seq(Event)]
  /\ rows \in [Run -> Nat]
  /\ approvals \in Seq(Approval)

Idle == [pc |-> "idle", iteration |-> 0, errors |-> 0, action |-> None, verdict |-> None]

Init ==
  /\ run = [r \in Run |-> Idle]
  /\ log = [r \in Run |-> <<>>]
  /\ rows = [r \in Run |-> 0]
  /\ approvals = <<>>

At(r, stage) == run[r].pc = stage
Alive(r) == run[r].pc \notin {"idle", "returned", "died"}

-----------------------------------------------------------------------------
(* The event store.                                                        *)

Sequences(r) == {log[r][i].sequence : i \in DOMAIN log[r]}

\* One more than the highest number among the events of the run.  Read and insert
\* are one step here: no two coroutines write events of the same run.
NextSequence(r) == 1 + Max({0} \cup Sequences(r))

AppendEvent(r, type) ==
  log' = [log EXCEPT ![r] = Append(@, [type |-> type, sequence |-> NextSequence(r)])]

-----------------------------------------------------------------------------
(* The ways on from a step of the loop.                                    *)

Goto(r, stage) == run' = [run EXCEPT ![r].pc = stage]

\* The loop is left with a verdict, which _finish will write.
Conclude(r, verdict) ==
  run' = [run EXCEPT ![r].pc = "finishing", ![r].action = None, ![r].verdict = verdict]

\* An error of the model or of an action; MaxErrors of them in a row are too many.
Erred(r) ==
  IF run[r].errors + 1 >= MaxErrors
  THEN run' = [run EXCEPT ![r].pc = "finishing", ![r].action = None, ![r].errors = @ + 1,
                          ![r].verdict = "failed"]
  ELSE run' = [run EXCEPT ![r].pc = "turn", ![r].action = None, ![r].errors = @ + 1,
                          ![r].iteration = @ + 1]

-----------------------------------------------------------------------------
(* run_task                                                                *)

\* The workspace is created, the history is read and is empty.
Start(r) ==
  /\ At(r, "idle")
  /\ AppendEvent(r, "user_message")
  /\ Goto(r, "turn")
  /\ UNCHANGED <<rows, approvals>>

InLoop(r) == At(r, "turn") /\ run[r].iteration < MaxIterations

\* agent_loop_max_runtime_seconds is over.
TimeOut(r) ==
  /\ InLoop(r)
  /\ AppendEvent(r, "error")
  /\ Conclude(r, "failed")
  /\ UNCHANGED <<rows, approvals>>

\* No answer, an answer without an action, or the budget of the run is spent.
ModelFails(r) ==
  /\ InLoop(r)
  /\ AppendEvent(r, "error")
  /\ Erred(r)
  /\ UNCHANGED <<rows, approvals>>

FinishAction(r) ==
  /\ InLoop(r)
  /\ AppendEvent(r, "agent_thought")
  /\ Conclude(r, "completed")
  /\ UNCHANGED <<rows, approvals>>

Think(r, action) ==
  /\ InLoop(r)
  /\ AppendEvent(r, "agent_thought")
  /\ run' = [run EXCEPT ![r].pc = "calling", ![r].action = action]
  /\ UNCHANGED <<rows, approvals>>

Exhaust(r) ==
  /\ At(r, "turn")
  /\ run[r].iteration = MaxIterations
  /\ Conclude(r, "failed")
  /\ UNCHANGED <<log, rows, approvals>>

Summarize(r) ==
  /\ At(r, "finishing")
  /\ AppendEvent(r, "run_summary")
  /\ Goto(r, "exporting")
  /\ UNCHANGED <<rows, approvals>>

\* The events are written to the workspace and the result is returned.
Export(r) ==
  /\ At(r, "exporting")
  /\ Goto(r, "returned")
  /\ UNCHANGED <<log, rows, approvals>>

-----------------------------------------------------------------------------
(* execute_action                                                          *)

\* What the policies say, after the call is in the log.
Decision(action) ==
  CASE action = "blocked" -> "blocked" [] action = "guarded" -> "asking" [] OTHER -> "handling"

CallTool(r) ==
  /\ At(r, "calling")
  /\ AppendEvent(r, "tool_call")
  /\ Goto(r, Decision(run[r].action))
  /\ UNCHANGED <<rows, approvals>>

Block(r) ==
  /\ At(r, "blocked")
  /\ AppendEvent(r, "error")
  /\ Erred(r)
  /\ UNCHANGED <<rows, approvals>>

AddApproval(r, with_call) ==
  approvals' = Append(approvals, [by |-> r, with_call |-> with_call, status |-> "pending"])

\* The policies do not look for approvals that were given before.
Ask(r) ==
  /\ At(r, "asking")
  /\ AddApproval(r, FALSE)
  /\ Goto(r, "announcing")
  /\ UNCHANGED <<log, rows>>

AnnounceAndWait(r) ==   \* mutant: the run waits for the answer in its worker
  /\ At(r, "announcing")
  /\ \E i \in DOMAIN approvals : approvals[i].by = r /\ approvals[i].status = "approved"
  /\ AppendEvent(r, "approval_requested")
  /\ Conclude(r, "paused")
  /\ UNCHANGED <<rows, approvals>>

AnnounceGoesOn(r) ==   \* mutant: pending_approval is taken for an ordinary observation
  /\ At(r, "announcing")
  /\ AppendEvent(r, "approval_requested")
  /\ run' = [run EXCEPT ![r].pc = "turn", ![r].action = None, ![r].errors = 0,
                        ![r].iteration = @ + 1]
  /\ UNCHANGED <<rows, approvals>>

Announce(r) ==
  /\ At(r, "announcing")
  /\ AppendEvent(r, "approval_requested")
  /\ Conclude(r, "paused")
  /\ UNCHANGED <<rows, approvals>>

\* No such tool: the KeyError leaves run_task.
NoTool(r) ==
  /\ At(r, "handling") /\ run[r].action = "message"
  /\ Goto(r, "died")
  /\ UNCHANGED <<log, rows, approvals>>

Handle(r) ==
  /\ At(r, "handling") /\ run[r].action = "open"
  /\ Goto(r, "noting")
  /\ UNCHANGED <<log, rows, approvals>>

\* The command is run or refused; the shell tool keeps a row of it.
HandleCommand(r) ==
  /\ At(r, "handling") /\ run[r].action \in {"shell", "install"}
  /\ rows' = [rows EXCEPT ![r] = @ + 1]
  /\ Goto(r, "noting")
  /\ UNCHANGED <<log, approvals>>

\* The shell tool finds that the command needs an approval and does not run it.
HoldCommand(r) ==
  /\ At(r, "handling") /\ run[r].action \in {"shell", "install"}
  /\ rows' = [rows EXCEPT ![r] = @ + 1]
  /\ AddApproval(r, TRUE)
  /\ Goto(r, "noting")
  /\ UNCHANGED log

\* An approval of a tool call cannot be resolved: its tool_call is loaded lazily,
\* which raises in an AsyncSession.
Resolve(r, i, status) ==
  /\ At(r, "handling") /\ run[r].action = "approval"
  /\ ~approvals[i].with_call
  /\ approvals' = [approvals EXCEPT ![i].status = status]
  /\ Goto(r, "noting")
  /\ UNCHANGED <<log, rows>>

HandlerRaisesQuietly(r) ==   \* mutant: the exception is only returned
  /\ At(r, "handling") \/ At(r, "noting")
  /\ run[r].action # "message"
  /\ Erred(r)
  /\ UNCHANGED <<log, rows, approvals>>

\* Before its effect or after it.
HandlerRaises(r) ==
  /\ At(r, "handling") \/ At(r, "noting")
  /\ run[r].action # "message"
  /\ AppendEvent(r, "error")
  /\ Erred(r)
  /\ UNCHANGED <<rows, approvals>>

\* Some handlers append an event of their own.
Note(r) ==
  /\ At(r, "noting")
  /\ \/ run[r].action \in {"open", "shell", "approval"} /\ AppendEvent(r, "effect")
     \/ run[r].action \in {"open", "install"} /\ UNCHANGED log
  /\ Goto(r, "recording")
  /\ UNCHANGED <<rows, approvals>>

RecordForTools(r) ==   \* mutant: an approval is not taken for a call
  /\ At(r, "recording")
  /\ IF run[r].action \in {"shell", "approval"} THEN UNCHANGED rows ELSE rows' = [rows EXCEPT ![r] = @ + 1]
  /\ Goto(r, "reporting")
  /\ UNCHANGED <<log, approvals>>

\* _record_tool_call; the row of a command is already there.
Record(r) ==
  /\ At(r, "recording")
  /\ IF run[r].action = "shell" THEN UNCHANGED rows ELSE rows' = [rows EXCEPT ![r] = @ + 1]
  /\ Goto(r, "reporting")
  /\ UNCHANGED <<log, approvals>>

ReportKept(r) ==   \* mutant: a result does not reset the errors
  /\ At(r, "reporting")
  /\ AppendEvent(r, "tool_result")
  /\ run' = [run EXCEPT ![r].pc = "turn", ![r].action = None, ![r].iteration = @ + 1]
  /\ UNCHANGED <<rows, approvals>>

\* An observation that is no error, whether or not it is a success.
Report(r) ==
  /\ At(r, "reporting")
  /\ AppendEvent(r, "tool_result")
  /\ run' = [run EXCEPT ![r].pc = "turn", ![r].action = None, ![r].errors = 0,
                        ![r].iteration = @ + 1]
  /\ UNCHANGED <<rows, approvals>>

-----------------------------------------------------------------------------
\* The process dies, or an exception of the database or of every model leaves run_task.
Die(r) ==
  /\ Alive(r)
  /\ Goto(r, "died")
  /\ UNCHANGED <<log, rows, approvals>>

\* /approve, whatever the status of the approval was.
Approve(i) ==
  /\ approvals' = [approvals EXCEPT ![i].status = "approved"]
  /\ UNCHANGED <<run, log, rows>>

Step(r) ==
  \/ Start(r) \/ TimeOut(r) \/ ModelFails(r) \/ FinishAction(r)
  \/ \E action \in Actions[r] : Think(r, action)
  \/ Exhaust(r) \/ Summarize(r) \/ Export(r)
  \/ CallTool(r) \/ Block(r) \/ Ask(r) \/ Announce(r) \/ NoTool(r)
  \/ Handle(r) \/ HandleCommand(r) \/ HoldCommand(r) \/ HandlerRaises(r)
  \/ \E i \in DOMAIN approvals, status \in {"approved", "rejected"} : Resolve(r, i, status)
  \/ Note(r) \/ Record(r) \/ Report(r)

Next ==
  \/ \E r \in Run : Step(r) \/ Die(r)
  \/ \E i \in DOMAIN approvals : Approve(i)

Spec == Init /\ [][Next]_vars

\* The handler of an action runs.
InHandler(r) == At(r, "handling") /\ run[r].action # "message"

\* A run is one coroutine: where it waits for nobody, it goes on.  Nothing makes the
\* model answer or a handler return: the runtime limit is looked at between two
\* turns only, and tools/shell_command.py 305-306 reads to the end of the output
\* after the kill.
FairSpec == Spec /\ \A r \in Run : WF_vars(~InLoop(r) /\ ~InHandler(r) /\ Step(r))
-----------------------------------------------------------------------------
Looping(r) == Alive(r) /\ ~(run[r].pc \in {"finishing", "exporting"})

\* The events of a run are numbered from 1 in the order in which they were
\* committed, however many runs of the task are writing (docs/events.md:
\* "sequence-ordered per task or run"; _next_agent_event_sequence).
EventsAreNumbered == \A r \in Run : \A i \in DOMAIN log[r] : log[r][i].sequence = i

\* The errors that have occurred since the last result of a tool.
RecentErrors(r) ==
  {i \in DOMAIN log[r] : /\ log[r][i].type = "error"
                         /\ \A j \in DOMAIN log[r] : j > i => log[r][j].type # "tool_result"}

\* The loop's counter is what the log tells: errors of the model, of the policies
\* and of the tools in a row, and as long as the loop goes on there are fewer than
\* MaxErrors of them (repeated_errors).
ErrorsAreInARow ==
  \A r \in Run : Looping(r) =>
    /\ run[r].errors = Cardinality(RecentErrors(r))
    /\ run[r].errors < MaxErrors

Concluding == {"tool_result", "error", "approval_requested"}

\* The log can be replayed: its numbers are without a gap, between two decisions of
\* the model there is the outcome of the first, whichever path execute_action took,
\* and nothing follows the summary.
LogTellsOutcomes ==
  /\ EventsAreNumbered
  /\ \A r \in Run : \A i \in DOMAIN log[r] :
       /\ log[r][i].type = "run_summary" => i = Len(log[r])
       /\ \A j \in i + 1 .. Len(log[r]) :
            log[r][i].type = "agent_thought" /\ log[r][j].type = "agent_thought" =>
              \E k \in i + 1 .. j - 1 : log[r][k].type \in Concluding

\* A result in the log has a row in tool_calls, whoever wrote it: the shell tool or
\* _record_tool_call, which relies on the handler to know.
ResultsOf(r) == {i \in DOMAIN log[r] : log[r][i].type = "tool_result"}
ResultsHaveRows == \A r \in Run : Cardinality(ResultsOf(r)) <= rows[r]

\* The approvals that the policies asked for in run r.  The others of the run belong
\* to calls that the shell tool holds.
AskedBy(r) == {i \in DOMAIN approvals : approvals[i].by = r /\ ~approvals[i].with_call}

\* A run returns "paused" exactly when its policies asked for an approval; it asked
\* for one, the log announces it, and the summary is the last event.  These are
\* the only approvals that docs/harness.md:13, "pauses on approval", is true of: a call
\* held by the shell tool leaves an approval in the table too, but the run goes
\* on, and may return "completed" with that approval still pending (run_task,
\* _create_approval).
PoliciesAlonePause ==
  \A r \in Run : At(r, "returned") =>
    /\ log[r][Len(log[r])].type = "run_summary"
    /\ run[r].verdict = "paused" <=>
         \E i \in DOMAIN log[r] : log[r][i].type = "approval_requested"
    /\ run[r].verdict = "paused" <=> AskedBy(r) # {}
    /\ \A i, j \in AskedBy(r) : i = j

\* However the model answers, a run ends, unless a model or a tool is waited for for
\* ever; it waits for no person (agent_loop_max_iterations).
RunEnds ==
  \A r \in Run :
    []<>~InLoop(r) /\ []<>~InHandler(r) => (Alive(r) ~> run[r].pc \in {"returned", "died"})
=============================================================================
