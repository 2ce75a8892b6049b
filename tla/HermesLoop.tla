----------------------------- MODULE HermesLoop -----------------------------
(***************************************************************************)
(* The conversation loop of one agent run: execute_step of agent/nodes.py  *)
(* with the ToolCallGuardrails of agent/model_client.py.  In each          *)
(* iteration the guardrails are consulted once, the model answers with     *)
(* text or with a batch of tool calls, and the calls are executed in       *)
(* order.  A tool call is known by the signature the guardrails compare.   *)
(***************************************************************************)
EXTENDS Naturals, Sequences, FiniteSets

CONSTANTS
  Sig,            \* signatures (name and arguments) of ordinary tool calls
  MaxIterations,  \* MAX_HERMES_ITERATIONS, also given to the guardrails
  MaxFailures,    \* max_consecutive_failures
  Window,         \* how many recent failures are searched for a repetition
  MaxCalls        \* bound: tool calls in one answer of the model

ASSUME LoopAssumption ==
  /\ MaxIterations \in Nat \ {0}
  /\ MaxFailures \in Nat \ {0}
  /\ Window \in Nat \ {0}
  /\ MaxCalls \in Nat \ {0}
  /\ Sig \cap {"task_complete", "task_failed"} = {}

VARIABLES
  pc,         \* where the loop is
  iteration,  \* iterations completed
  count,      \* _iteration_count: the tool calls recorded
  fails,      \* _consecutive_failures
  recent,     \* _recent_calls: signatures of the failed calls
  turn,       \* tool calls of the current answer not executed yet
  status,     \* final_status
  reason,     \* history: why the loop ended
  log         \* history: the calls executed, with their outcomes

loopVars == <<pc, iteration, count, fails, recent, turn, status, reason, log>>

Terminal == {"task_complete", "task_failed"}
Call == Sig \cup Terminal
CallOutcome == {"completed", "failed", "pending_approval"}
Entry == [call : Call, outcome : CallOutcome]
Reason == Terminal \cup {"none", "answered", "model_error", "halted", "exhausted", "raised"}

LoopTypeOK ==
  /\ pc \in {"turn", "calls", "done"}
  /\ iteration \in 0..MaxIterations
  /\ count \in Nat
  /\ fails \in Nat
  /\ recent \in Seq(Sig)
  /\ turn \in Seq(Call)
  /\ status \in {"running", "completed", "failed", "raised"}
  /\ reason \in Reason
  /\ log \in Seq(Entry)

LoopInit ==
  /\ pc = "turn"
  /\ iteration = 0
  /\ count = 0
  /\ fails = 0
  /\ recent = <<>>
  /\ turn = <<>>
  /\ status = "running"
  /\ reason = "none"
  /\ log = <<>>

-----------------------------------------------------------------------------
\* The last Window failures repeat at most two signatures, however many calls
\* succeeded in between.
Repetitive ==
  /\ Len(recent) >= Window
  /\ Cardinality({recent[i] : i \in Len(recent) - Window + 1 .. Len(recent)}) <= 2

ShouldHaltLate ==   \* mutant: > for >=
  \/ count > MaxIterations
  \/ fails > MaxFailures
  \/ Repetitive

ShouldHalt ==
  \/ count >= MaxIterations
  \/ fails >= MaxFailures
  \/ Repetitive

RecordSuccessKept ==   \* mutant: the streak of failures survives a success
  count' = count + 1 /\ UNCHANGED <<fails, recent>>

RecordSuccess ==
  /\ count' = count + 1
  /\ fails' = 0
  /\ UNCHANGED recent

RecordFailure(sig) ==
  /\ count' = count + 1
  /\ fails' = fails + 1
  /\ recent' = Append(recent, sig)

Finish(result, why) ==
  /\ pc' = "done"
  /\ turn' = <<>>
  /\ status' = result
  /\ reason' = why
  /\ UNCHANGED iteration

-----------------------------------------------------------------------------
Halt ==
  /\ pc = "turn"
  /\ iteration < MaxIterations
  /\ ShouldHalt
  /\ Finish("failed", "halted")
  /\ UNCHANGED <<count, fails, recent, log>>

AskModel == pc = "turn" /\ iteration < MaxIterations /\ ~ShouldHalt

\* Text, an empty answer, or the text that get_next_turn makes of an exception:
\* each of them completes the task.
Answer(why) ==
  /\ AskModel
  /\ Finish("completed", why)
  /\ UNCHANGED <<count, fails, recent, log>>

CallTools(calls) ==
  /\ AskModel
  /\ turn' = calls
  /\ pc' = "calls"
  /\ UNCHANGED <<iteration, count, fails, recent, status, reason, log>>

\* The call at the head of the batch is done; the last one ends the iteration.
NextCall ==
  /\ turn' = Tail(turn)
  /\ IF Tail(turn) = <<>>
     THEN pc' = "turn" /\ iteration' = iteration + 1
     ELSE UNCHANGED <<pc, iteration>>
  /\ UNCHANGED <<status, reason>>

\* An ordinary tool call.  A command that needs approval is not run; a hint is
\* fed back and the guardrails see a success.
ExecuteTool(outcome) ==
  /\ pc = "calls"
  /\ Head(turn) \in Sig
  /\ log' = Append(log, [call |-> Head(turn), outcome |-> outcome])
  /\ IF outcome = "failed" THEN RecordFailure(Head(turn)) ELSE RecordSuccess
  /\ NextCall

ExecuteTerminalBreaksOnce ==   \* mutant: the break leaves the inner loop only
  /\ pc = "calls"
  /\ \/ /\ Head(turn) = "task_complete"
        /\ log' = Append(log, [call |-> "task_complete", outcome |-> "completed"])
        /\ RecordSuccess
     \/ /\ Head(turn) = "task_failed"
        /\ log' = Append(log, [call |-> "task_failed", outcome |-> "failed"])
        /\ UNCHANGED <<count, fails, recent>>
  /\ turn' = <<>> /\ pc' = "turn" /\ iteration' = iteration + 1
  /\ UNCHANGED <<status, reason>>

ExecuteTerminalUncounted ==   \* mutant: task_failed goes back to the model, uncounted
  /\ pc = "calls"
  /\ \/ /\ Head(turn) = "task_complete"
        /\ log' = Append(log, [call |-> "task_complete", outcome |-> "completed"])
        /\ RecordSuccess
        /\ Finish("completed", "task_complete")
     \/ /\ Head(turn) = "task_failed"
        /\ turn' = <<>> /\ pc' = "turn"
        /\ UNCHANGED <<iteration, count, fails, recent, status, reason, log>>

\* task_complete and task_failed end the run; the calls behind them are dropped.
ExecuteTerminal ==
  /\ pc = "calls"
  /\ \/ /\ Head(turn) = "task_complete"
        /\ log' = Append(log, [call |-> "task_complete", outcome |-> "completed"])
        /\ RecordSuccess
        /\ Finish("completed", "task_complete")
     \/ /\ Head(turn) = "task_failed"
        /\ log' = Append(log, [call |-> "task_failed", outcome |-> "failed"])
        /\ UNCHANGED <<count, fails, recent>>
        /\ Finish("failed", "task_failed")

\* The arguments of the next call are not of the shape the progress line slices:
\* the exception leaves execute_step, before the call and outside its own handler.
Raise ==
  /\ pc = "calls"
  /\ Finish("raised", "raised")
  /\ UNCHANGED <<count, fails, recent, log>>

\* range(MAX_HERMES_ITERATIONS) runs out; final_status keeps its initial value.
Exhaust ==
  /\ pc = "turn"
  /\ iteration = MaxIterations
  /\ Finish("completed", "exhausted")
  /\ UNCHANGED <<count, fails, recent, log>>

Batch == UNION {[1..n -> Call] : n \in 1..MaxCalls}

LoopNext ==
  \/ Halt
  \/ \E why \in {"answered", "model_error"} : Answer(why)
  \/ \E calls \in Batch : CallTools(calls)
  \/ \E outcome \in CallOutcome : ExecuteTool(outcome)
  \/ ExecuteTerminal
  \/ Raise
  \/ Exhaust

LoopSpec == LoopInit /\ [][LoopNext]_loopVars

\* The loop waits for a tool.
InTool == pc = "calls" /\ Head(turn) \in Sig

\* The loop is one coroutine: where it waits for nobody, it goes on.  Nothing makes
\* the model answer or a tool return (get_next_turn sets no limit, and
\* tools/shell_command.py 305-306 reads to the end of the output after the kill).
LoopFairSpec == LoopSpec /\ WF_loopVars(Halt \/ ExecuteTerminal \/ Exhaust)
-----------------------------------------------------------------------------
Failure(entry) == entry.call \in Sig /\ entry.outcome = "failed"

\* The guardrails know the real history: the streak they count is the number of
\* failures since the last call that succeeded, over batch boundaries, and they
\* have seen every call (record_success, record_failure).
StreakIsReal ==
  reason # "task_failed" =>
    /\ count = Len(log)
    /\ fails <= Len(log)
    /\ \A i \in Len(log) - fails + 1 .. Len(log) : Failure(log[i])
    /\ fails < Len(log) => ~Failure(log[Len(log) - fails])

StreakLimit == MaxFailures + MaxCalls

\* Failures in a row are cut: however the model batches its calls, a run of
\* failures is shorter than StreakLimit (should_halt is consulted between
\* batches only).
FailureRunIsCut ==
  \A i \in 1..Len(log) : i + StreakLimit - 1 <= Len(log) =>
    \E j \in i .. i + StreakLimit - 1 : ~Failure(log[j])

\* However the model batches its calls, a run executes fewer than
\* MaxIterations + MaxCalls of them.
CallBudget == Len(log) < MaxIterations + MaxCalls

\* Nothing is executed after task_complete or task_failed, and a run ends with
\* that verdict exactly when the last call executed gave it (for / else / break
\* of execute_step).
TerminalIsLast ==
  /\ \A i \in 1 .. Len(log) - 1 : log[i].call \notin Terminal
  /\ Len(log) > 0 /\ log[Len(log)].call \in Terminal =>
       pc = "done" /\ reason = log[Len(log)].call
  /\ reason \in Terminal => Len(log) > 0 /\ log[Len(log)].call = reason

\* The loop ends, whatever the model answers and the tools return, unless one of
\* them is waited for for ever (the limits of execute_step and of should_halt).
LoopEnds == []<>~AskModel /\ []<>~InTool => <>(pc = "done")
=============================================================================
