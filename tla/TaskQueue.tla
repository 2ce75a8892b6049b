------------------------------ MODULE TaskQueue ------------------------------
(***************************************************************************)
(* The task queue of db/task_queue.py, the workers of workers/main.py that *)
(* claim from it, and the gateway commands of gateways/service.py that     *)
(* steer it.                                                               *)
(*                                                                         *)
(* Every operation is one database transaction in two steps: it selects    *)
(* the row FOR UPDATE SKIP LOCKED (a locked row is passed over, not waited *)
(* for), then commits what it wrote.  A worker opens a fresh session for   *)
(* each operation.  A gateway command loads the row in the same session    *)
(* before it locks it; the session keeps the loaded attributes             *)
(* (expire_on_commit=False, no populate_existing), so an assignment of the *)
(* value that was loaded is no change and is not written.                  *)
(***************************************************************************)
EXTENDS Naturals, Sequences

CONSTANTS
  Task,        \* identities of the task rows that may be created
  Worker,      \* worker processes
  OnceWorker,  \* the workers started with --once
  Chat,        \* concurrent gateway sessions
  Priorities,  \* the priorities in use
  None,        \* SQL NULL; also "nobody holds the row lock"
  ChildInsert, \* holder of a row lock taken by the insert of a child row
  MaxTraffic,  \* bound: gateway commands and child-row inserts
  MaxCrashes   \* bound: worker crashes

\* db/task_queue.py 14-20: the order in which pending tasks are served.
TASK_PRIORITY_RANK ==
  [urgent |-> 0, high |-> 1, normal |-> 2, low |-> 3, backlog |-> 4]

TERMINAL_TASK_STATUSES == {"completed", "failed", "cancelled"}

ASSUME QueueAssumption ==
  /\ OnceWorker \subseteq Worker
  /\ Worker \cap Chat = {}
  /\ None \notin Task \cup Worker \cup Chat
  /\ ChildInsert \notin Worker \cup Chat \cup {None}
  /\ Priorities # {} /\ Priorities \subseteq DOMAIN TASK_PRIORITY_RANK
  /\ MaxTraffic \in Nat
  /\ MaxCrashes \in Nat

VARIABLES
  task,     \* the tasks table; "absent" until the row is inserted
  runs,     \* the task_runs of each task, indexed by attempt_number
  lock,     \* who holds the row lock of each task
  wpc,      \* where each worker is in worker_loop
  job,      \* the task object the worker holds
  attempt,  \* history: the attempt the worker's claim opened
  outcome,  \* the status the worker is about to record
  cpc,      \* where each gateway session is
  cop,      \* the status or the priority its command writes
  ctodo,    \* the tasks the command has not handled yet
  csnap,    \* the rows as the session loaded them
  clisted,  \* the tasks a bulk cancel counts in its reply
  orphan,   \* history: tasks whose worker crashed or whose report was skipped
  clock,    \* created_at of the youngest task
  traffic,  \* commands and child inserts so far
  crashes   \* crashes so far

workerVars == <<wpc, job, attempt, outcome>>
chatVars == <<cpc, cop, ctodo, csnap, clisted>>
vars == <<task, runs, lock, workerVars, chatVars, orphan, clock, traffic, crashes>>

RowStatus == {"absent", "pending", "running", "paused"} \cup TERMINAL_TASK_STATUSES
ActiveStatus == {"pending", "running", "paused"}
WorkerPc == {"idle", "claiming", "working", "reporting", "committing", "crashed", "stopped"}
Outcome == {"completed", "paused", "failed"}
Steer == {"paused", "pending", "cancelled"}   \* pause_task, resume_task, cancel_task

Row == [status : RowStatus, priority : Priorities, created : Nat,
        worker : Worker \cup {None}, started : BOOLEAN, completed : BOOLEAN]
Run == [worker : Worker, status : RowStatus, completed : BOOLEAN]

NoRow == [status |-> "absent", priority |-> CHOOSE p \in Priorities : TRUE, created |-> 0,
          worker |-> None, started |-> FALSE, completed |-> FALSE]

TypeOK ==
  /\ task \in [Task -> Row]
  /\ runs \in [Task -> Seq(Run)]
  /\ lock \in [Task -> Worker \cup Chat \cup {ChildInsert, None}]
  /\ wpc \in [Worker -> WorkerPc]
  /\ job \in [Worker -> Task \cup {None}]
  /\ attempt \in [Worker -> Nat]
  /\ outcome \in [Worker -> Outcome \cup {"none"}]
  /\ cpc \in [Chat -> {"idle", "loaded", "locked"}]
  /\ cop \in [Chat -> Steer \cup Priorities \cup {"none"}]
  /\ ctodo \in [Chat -> SUBSET Task]
  /\ csnap \in [Chat -> [Task -> Row]]
  /\ clisted \in [Chat -> SUBSET Task]
  /\ orphan \in SUBSET Task
  /\ clock \in Nat
  /\ traffic \in Nat
  /\ crashes \in Nat

Init ==
  /\ task = [t \in Task |-> NoRow]
  /\ runs = [t \in Task |-> <<>>]
  /\ lock = [t \in Task |-> None]
  /\ wpc = [w \in Worker |-> "idle"]
  /\ job = [w \in Worker |-> None]
  /\ attempt = [w \in Worker |-> 0]
  /\ outcome = [w \in Worker |-> "none"]
  /\ cpc = [c \in Chat |-> "idle"]
  /\ cop = [c \in Chat |-> "none"]
  /\ ctodo = [c \in Chat |-> {}]
  /\ csnap = [c \in Chat |-> [t \in Task |-> NoRow]]
  /\ clisted = [c \in Chat |-> {}]
  /\ orphan = {}
  /\ clock = 0
  /\ traffic = 0
  /\ crashes = 0

-----------------------------------------------------------------------------
(* The order of the queue and the two kinds of row update.                 *)

\* ORDER BY priority rank, created_at.
Before(r, s) ==
  \/ TASK_PRIORITY_RANK[r.priority] < TASK_PRIORITY_RANK[s.priority]
  \/ /\ TASK_PRIORITY_RANK[r.priority] = TASK_PRIORITY_RANK[s.priority]
     /\ r.created < s.created

\* t comes first among the tasks S of the table rows.
IsFirst(t, S, rows) == t \in S /\ \A u \in S \ {t} : Before(rows[t], rows[u])

\* The value a column has after the flush: only a change to what was loaded is written.
Net(loaded, stored, new) == IF new = loaded THEN stored ELSE new

\* update_task_status on the stored row r by a session that loaded the row as s.
UpdatedRow(r, s, status) ==
  [r EXCEPT !.status = Net(s.status, @, status),
            !.worker = Net(s.worker, @, None),
            !.completed = IF status \in TERMINAL_TASK_STATUSES
                          THEN TRUE ELSE Net(s.completed, @, FALSE)]

\* ... and on the latest task run.
UpdatedRun(r, status) ==
  [r EXCEPT !.status = status,
            !.completed = r.completed \/ status \in TERMINAL_TASK_STATUSES \cup {"paused"}]

UpdatedRunsForgotten(rs, status) == rs   \* mutant: the attempt's row is not updated

UpdatedRuns(rs, status) ==
  IF rs = <<>> THEN rs ELSE [rs EXCEPT ![Len(rs)] = UpdatedRun(rs[Len(rs)], status)]

ClaimedRow(r, w) ==
  [r EXCEPT !.status = "running", !.worker = w, !.started = TRUE, !.completed = FALSE]

NewRun(w) == [worker |-> w, status |-> "running", completed |-> FALSE]

\* _next_attempt_number
AttemptNumber(rs) == Len(rs) + 1

-----------------------------------------------------------------------------
(* Creating tasks.  A gateway message creates a pending task; the planner  *)
(* of agent/nodes.py inserts its subtasks paused.                          *)

CreateTask(t, priority, status) ==
  /\ task[t].status = "absent"
  /\ task' = [task EXCEPT ![t] =
       [NoRow EXCEPT !.status = status, !.priority = priority,
                     !.created = clock + 1]]
  /\ clock' = clock + 1
  /\ UNCHANGED <<runs, lock, workerVars, chatVars, orphan, traffic, crashes>>

-----------------------------------------------------------------------------
(* worker_loop                                                             *)

ClaimableNoSkip == {t \in Task : task[t].status = "pending"}   \* mutant: no FOR UPDATE SKIP LOCKED

Claimable == {t \in Task : task[t].status = "pending" /\ lock[t] = None}

ClaimSelect(w, t) ==
  /\ wpc[w] = "idle"
  /\ IsFirst(t, Claimable, task)
  /\ lock' = [lock EXCEPT ![t] = w]
  /\ wpc' = [wpc EXCEPT ![w] = "claiming"]
  /\ job' = [job EXCEPT ![w] = t]
  /\ UNCHANGED <<task, runs, attempt, outcome, chatVars, orphan, clock, traffic, crashes>>

ClaimNothingStops(w) ==   \* mutant: every worker exits on an empty queue
  /\ wpc[w] = "idle"
  /\ Claimable = {}
  /\ wpc' = [wpc EXCEPT ![w] = "stopped"]
  /\ UNCHANGED <<task, runs, lock, job, attempt, outcome, chatVars, orphan, clock, traffic, crashes>>

ClaimNothing(w) ==
  /\ wpc[w] = "idle"
  /\ Claimable = {}
  /\ wpc' = [wpc EXCEPT ![w] = IF w \in OnceWorker THEN "stopped" ELSE "idle"]
  /\ UNCHANGED <<task, runs, lock, job, attempt, outcome, chatVars, orphan, clock, traffic, crashes>>

ClaimCommit(w) ==
  /\ wpc[w] = "claiming"
  /\ LET t == job[w] IN
       /\ task' = [task EXCEPT ![t] = ClaimedRow(@, w)]
       /\ runs' = [runs EXCEPT ![t] = Append(@, NewRun(w))]
       /\ attempt' = [attempt EXCEPT ![w] = AttemptNumber(runs[t])]
       /\ lock' = [lock EXCEPT ![t] = None]
       /\ orphan' = orphan \ {t}
  /\ wpc' = [wpc EXCEPT ![w] = "working"]
  /\ UNCHANGED <<job, outcome, chatVars, clock, traffic, crashes>>

Rest(w) ==
  /\ wpc' = [wpc EXCEPT ![w] = IF w \in OnceWorker THEN "stopped" ELSE "idle"]
  /\ job' = [job EXCEPT ![w] = None]
  /\ attempt' = [attempt EXCEPT ![w] = 0]
  /\ outcome' = [outcome EXCEPT ![w] = "none"]

FinishWorkSwallowed(w, result) ==   \* mutant: an exception is logged but not reported
  /\ wpc[w] = "working"
  /\ IF result = "failed" THEN Rest(w)
     ELSE /\ outcome' = [outcome EXCEPT ![w] = result]
          /\ wpc' = [wpc EXCEPT ![w] = "reporting"]
          /\ UNCHANGED <<job, attempt>>
  /\ UNCHANGED <<task, runs, lock, chatVars, orphan, clock, traffic, crashes>>

\* handle_task returns, or raises (then the worker fails the task).
FinishWork(w, result) ==
  /\ wpc[w] = "working"
  /\ outcome' = [outcome EXCEPT ![w] = result]
  /\ wpc' = [wpc EXCEPT ![w] = "reporting"]
  /\ UNCHANGED <<task, runs, lock, job, attempt, chatVars, orphan, clock, traffic, crashes>>

ReportSelect(w) ==
  /\ wpc[w] = "reporting"
  /\ lock[job[w]] = None
  /\ lock' = [lock EXCEPT ![job[w]] = w]
  /\ wpc' = [wpc EXCEPT ![w] = "committing"]
  /\ UNCHANGED <<task, runs, job, attempt, outcome, chatVars, orphan, clock, traffic, crashes>>

\* The row is locked by someone else: update_task_status returns None, which
\* worker_loop does not look at.
ReportSkipped(w) ==
  /\ wpc[w] = "reporting"
  /\ lock[job[w]] # None
  /\ orphan' = orphan \cup {job[w]}
  /\ Rest(w)
  /\ UNCHANGED <<task, runs, lock, chatVars, clock, traffic, crashes>>

ReportCommitRepeated(w) ==   \* mutant: the report is retried after it was committed
  /\ wpc[w] = "committing"
  /\ LET t == job[w] IN
       /\ task' = [task EXCEPT ![t] = UpdatedRow(@, @, outcome[w])]
       /\ runs' = [runs EXCEPT ![t] = UpdatedRuns(@, outcome[w])]
       /\ lock' = [lock EXCEPT ![t] = None]
  /\ wpc' = [wpc EXCEPT ![w] = "reporting"]
  /\ UNCHANGED <<job, attempt, outcome, chatVars, orphan, clock, traffic, crashes>>

ReportCommit(w) ==
  /\ wpc[w] = "committing"
  /\ LET t == job[w] IN
       /\ task' = [task EXCEPT ![t] = UpdatedRow(@, @, outcome[w])]
       /\ runs' = [runs EXCEPT ![t] = UpdatedRuns(@, outcome[w])]
       /\ lock' = [lock EXCEPT ![t] = None]
  /\ Rest(w)
  /\ UNCHANGED <<chatVars, orphan, clock, traffic, crashes>>

\* A crash rolls back the open transaction; nothing is kept in the process.
Crash(w) ==
  /\ wpc[w] \notin {"crashed", "stopped"}
  /\ crashes < MaxCrashes
  /\ crashes' = crashes + 1
  /\ lock' = [t \in Task |-> IF lock[t] = w THEN None ELSE lock[t]]
  /\ orphan' = IF wpc[w] \in {"working", "reporting", "committing"}
               THEN orphan \cup {job[w]} ELSE orphan
  /\ wpc' = [wpc EXCEPT ![w] = "crashed"]
  /\ job' = [job EXCEPT ![w] = None]
  /\ attempt' = [attempt EXCEPT ![w] = 0]
  /\ outcome' = [outcome EXCEPT ![w] = "none"]
  /\ UNCHANGED <<task, runs, chatVars, clock, traffic>>

Restart(w) ==
  /\ wpc[w] = "crashed"
  /\ wpc' = [wpc EXCEPT ![w] = "idle"]
  /\ UNCHANGED <<task, runs, lock, job, attempt, outcome, chatVars, orphan, clock, traffic, crashes>>

-----------------------------------------------------------------------------
(* Gateway sessions                                                        *)

\* The rows S are now in the session's identity map.
Load(c, op, S, listed) ==
  /\ cpc[c] = "idle"
  /\ traffic < MaxTraffic
  /\ traffic' = traffic + 1
  /\ cpc' = [cpc EXCEPT ![c] = "loaded"]
  /\ cop' = [cop EXCEPT ![c] = op]
  /\ ctodo' = [ctodo EXCEPT ![c] = S]
  /\ csnap' = [csnap EXCEPT ![c] = [t \in Task |-> IF t \in S THEN task[t] ELSE NoRow]]
  /\ clisted' = [clisted EXCEPT ![c] = listed]
  /\ UNCHANGED <<task, runs, lock, workerVars, orphan, clock, crashes>>

\* /pause, /resume, /cancel and /prioritize of one task: whatever its status is.
Command(c, op, t) ==
  /\ task[t].status # "absent"
  /\ Load(c, op, {t}, {})

\* "cancel all tasks": lists the active tasks, then cancels them one by one.
BulkCancel(c) ==
  LET active == {t \in Task : task[t].status \in ActiveStatus}
  IN  active # {} /\ Load(c, "cancelled", active, active)

\* The command is done with task t.
Handled(c, t) ==
  LET rest == ctodo[c] \ {t}
  IN  /\ ctodo' = [ctodo EXCEPT ![c] = rest]
      /\ cpc' = [cpc EXCEPT ![c] = IF rest = {} THEN "idle" ELSE "loaded"]
      /\ cop' = [cop EXCEPT ![c] = IF rest = {} THEN "none" ELSE @]
      /\ csnap' = [csnap EXCEPT ![c] = [@ EXCEPT ![t] = NoRow]]
      /\ clisted' = [clisted EXCEPT ![c] = IF rest = {} THEN {} ELSE @]

CommandSelect(c, t) ==
  /\ cpc[c] = "loaded"
  /\ IsFirst(t, ctodo[c], csnap[c])
  /\ lock[t] = None
  /\ lock' = [lock EXCEPT ![t] = c]
  /\ cpc' = [cpc EXCEPT ![c] = "locked"]
  /\ UNCHANGED <<task, runs, workerVars, cop, ctodo, csnap, clisted, orphan, clock, traffic, crashes>>

\* The row is locked: a single command fails, a bulk cancel goes on.
CommandSkipped(c, t) ==
  /\ cpc[c] = "loaded"
  /\ IsFirst(t, ctodo[c], csnap[c])
  /\ lock[t] # None
  /\ Handled(c, t)
  /\ UNCHANGED <<task, runs, lock, workerVars, orphan, clock, traffic, crashes>>

CommandCommit(c, t) ==
  /\ cpc[c] = "locked"
  /\ lock[t] = c
  /\ \/ /\ cop[c] \in Steer
        /\ task' = [task EXCEPT ![t] = UpdatedRow(@, csnap[c][t], cop[c])]
        /\ runs' = [runs EXCEPT ![t] = UpdatedRuns(@, cop[c])]
     \/ /\ cop[c] \in Priorities
        /\ task' = [task EXCEPT ![t].priority = Net(csnap[c][t].priority, @, cop[c])]
        /\ UNCHANGED runs
  /\ lock' = [lock EXCEPT ![t] = None]
  /\ Handled(c, t)
  /\ UNCHANGED <<workerVars, orphan, clock, traffic, crashes>>

\* Another transaction inserts a row that references the task (an event, a
\* message, a tool call): until it commits, the task row is locked.
InsertChild(t) ==
  /\ task[t].status # "absent"
  /\ lock[t] = None
  /\ traffic < MaxTraffic
  /\ traffic' = traffic + 1
  /\ lock' = [lock EXCEPT ![t] = ChildInsert]
  /\ UNCHANGED <<task, runs, workerVars, chatVars, orphan, clock, crashes>>

InsertDone(t) ==
  /\ lock[t] = ChildInsert
  /\ lock' = [lock EXCEPT ![t] = None]
  /\ UNCHANGED <<task, runs, workerVars, chatVars, orphan, clock, traffic, crashes>>

-----------------------------------------------------------------------------
Create == \E t \in Task, p \in Priorities, s \in {"pending", "paused"} : CreateTask(t, p, s)

\* The return of handle_task, which waits for models and tools.
WorkEnds(w) == \E r \in Outcome : FinishWork(w, r)

\* The steps of worker_loop itself.
LoopStep(w) ==
  \/ \E t \in Task : ClaimSelect(w, t)
  \/ ClaimNothing(w)
  \/ ClaimCommit(w)
  \/ ReportSelect(w)
  \/ ReportSkipped(w)
  \/ ReportCommit(w)

WorkerStep(w) == LoopStep(w) \/ WorkEnds(w)

CommandStep(c) == \E t \in Task : CommandSelect(c, t) \/ CommandSkipped(c, t) \/ CommandCommit(c, t)

Next ==
  \/ Create
  \/ \E w \in Worker : WorkerStep(w) \/ Crash(w) \/ Restart(w)
  \/ \E c \in Chat : \/ \E t \in Task, op \in Steer \cup Priorities : Command(c, op, t)
                     \/ BulkCancel(c)
                     \/ CommandStep(c)
  \/ \E t \in Task : InsertChild(t) \/ InsertDone(t)

Spec == Init /\ [][Next]_vars

\* A worker that runs goes on through its loop, is restarted by its supervisor,
\* and every open transaction commits; nobody has to send a command.  Nothing
\* makes handle_task return: a tool may wait without a limit
\* (tools/shell_command.py 305-306 reads to the end of the output after the kill).
Fairness ==
  /\ \A w \in Worker : WF_vars(LoopStep(w)) /\ WF_vars(Restart(w))
  /\ \A c \in Chat : WF_vars(CommandStep(c))
  /\ \A t \in Task : WF_vars(InsertDone(t))

FairSpec == Spec /\ Fairness
-----------------------------------------------------------------------------
(* What the queue guarantees.                                              *)

Executing(w) == wpc[w] \in {"working", "reporting", "committing"}

\* At most one attempt of a task is recorded as running, it is the latest one,
\* and the task itself is then running: a resumed task never leaves an older
\* attempt "running" behind (claim_next_task, update_task_status).
OneAttemptRunning ==
  \A t \in Task : \A i \in DOMAIN runs[t] :
    runs[t][i].status = "running" => i = Len(runs[t]) /\ task[t].status = "running"

\* A task is running only while the worker of its latest attempt executes it,
\* unless that worker crashed or its report found the row locked: these two are
\* the only ways a task is left running with nobody to finish it
\* (worker_loop has no lease and does not look at what update_task_status returns).
RunningIsOwned ==
  \A t \in Task : task[t].status = "running" /\ t \notin orphan =>
    \E w \in Worker : Executing(w) /\ job[w] = t /\ attempt[w] = Len(runs[t])

\* A step that opens an attempt takes a task that is pending at that very
\* moment, not only when the worker selected it; and nothing else makes a task
\* running (claim_next_task holds the row lock from SELECT to commit).
ClaimsArePending ==
  [][\A t \in Task :
       (Len(runs'[t]) > Len(runs[t]) \/ (task'[t].status = "running" /\ task[t].status # "running"))
         => /\ task[t].status = "pending"
            /\ task'[t].status = "running"
            /\ Len(runs'[t]) = Len(runs[t]) + 1]_vars

\* A pending task that a poll passed over, because another transaction had its row
\* locked, or whose claimer died before the commit, is not lost: as long as the
\* handle_task of some polling worker always returns, it is claimed at a later poll
\* or a command takes it off the queue.  This is about a bounded set of tasks: the
\* order of the queue has no ageing, so low tasks do wait for ever under an endless
\* supply of urgent ones (worker_loop, claim_next_task).
PendingIsServed ==
  (\E w \in Worker \ OnceWorker : []<>(wpc[w] # "working"))
    => \A t \in Task : task[t].status = "pending" ~> task[t].status # "pending"

\* A running task comes to rest or is orphaned, unless the handle_task of a worker
\* that executes it never returns (worker_loop).
RunningComesToRest ==
  \A t \in Task :
    (\A w \in Worker : []<>~(wpc[w] = "working" /\ job[w] = t))
      => (task[t].status = "running" ~> (task[t].status # "running" \/ t \in orphan))

-----------------------------------------------------------------------------
(* The queue implements TaskLifecycle.                                     *)

Executors(t) == {w \in Worker : Executing(w) /\ job[w] = t}
StatusOf == [t \in Task |-> task[t].status]
AttemptsOf == [t \in Task |-> Len(runs[t])]
OpenOf == [t \in Task |-> {attempt[w] : w \in Executors(t)}]

Lifecycle == INSTANCE TaskLifecycle WITH
  status <- StatusOf, attempts <- AttemptsOf, open <- OpenOf

\* Rows, locks, skipped updates, stale sessions and crashes show a client
\* nothing but steps of TaskLifecycle (db/task_queue.py, workers/main.py).
ImplementsLifecycle == Lifecycle!Spec
=============================================================================
