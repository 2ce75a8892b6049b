--------------------------- MODULE TaskQueueProofs ---------------------------
(***************************************************************************)
(* Proofs about TaskQueue, for every set of tasks, workers and gateway     *)
(* sessions and every bound.                                               *)
(*                                                                         *)
(* The properties rest on one inductive invariant.  Locks ties the row     *)
(* locks to the program counters of their holders: whoever is between its  *)
(* SELECT and its COMMIT is the only one who writes the row.  With it, a   *)
(* task selected for a claim is still pending when the claim commits.      *)
(***************************************************************************)
EXTENDS TaskQueue, SequenceTheorems, TLAPS

\* A worker in the middle of a task holds a task object, and an outcome when it reports one.
Jobs ==
  \A w \in Worker :
    /\ wpc[w] \in {"claiming", "working", "reporting", "committing"} => job[w] \in Task
    /\ wpc[w] \in {"reporting", "committing"} => outcome[w] \in Outcome

\* The row locks and the transactions that hold them.
Locks ==
  /\ \A w \in Worker : wpc[w] \in {"claiming", "committing"} => lock[job[w]] = w
  /\ \A w \in Worker, t \in Task :
       lock[t] = w => wpc[w] \in {"claiming", "committing"} /\ job[w] = t
  /\ \A c \in Chat, t \in Task : lock[t] = c => cpc[c] = "locked" /\ t \in ctodo[c]
  /\ \A c \in Chat : \A t, u \in Task : lock[t] = c /\ lock[u] = c => t = u

\* A selected task is still pending; a task a command or a worker holds exists.
Held ==
  /\ \A w \in Worker : wpc[w] = "claiming" => task[job[w]].status = "pending"
  /\ \A w \in Worker : Executing(w) => task[job[w]].status # "absent"
  /\ \A c \in Chat, t \in Task :
       t \in ctodo[c] => task[t].status # "absent" /\ csnap[c][t].status # "absent"

\* The attempt a worker executes is recorded under its name.
Attempts ==
  \A w \in Worker : Executing(w) =>
    attempt[w] \in 1..Len(runs[job[w]]) /\ runs[job[w]][attempt[w]].worker = w

IInv == TypeOK /\ Jobs /\ Locks /\ Held /\ Attempts /\ OneAttemptRunning /\ RunningIsOwned

-----------------------------------------------------------------------------
(* The operators of the row updates.                                       *)

LEMMA NoRowType == NoRow \in Row
BY QueueAssumption DEF NoRow, Row, RowStatus

LEMMA UpdatedRowType ==
  ASSUME NEW r \in Row, NEW s \in Row, NEW status \in RowStatus
  PROVE  UpdatedRow(r, s, status) \in Row
BY DEF UpdatedRow, Net, Row

\* A session that loaded the row as it is stored writes what it is told to.
LEMMA UpdatedRowFresh ==
  ASSUME NEW r \in Row, NEW status \in RowStatus
  PROVE  UpdatedRow(r, r, status).status = status
BY DEF UpdatedRow, Net, Row

\* A stale session writes its status or leaves the stored one alone.
LEMMA UpdatedRowStatus ==
  ASSUME NEW r \in Row, NEW s \in Row, NEW status \in RowStatus
  PROVE  UpdatedRow(r, s, status).status \in {status, r.status}
BY DEF UpdatedRow, Net, Row

LEMMA UpdatedRunsType ==
  ASSUME NEW rs \in Seq(Run), NEW status \in RowStatus
  PROVE  /\ UpdatedRuns(rs, status) \in Seq(Run)
         /\ Len(UpdatedRuns(rs, status)) = Len(rs)
         /\ \A i \in 1..Len(rs) :
              /\ UpdatedRuns(rs, status)[i].worker = rs[i].worker
              /\ UpdatedRuns(rs, status)[i].status = IF i = Len(rs) THEN status ELSE rs[i].status
<1>1. CASE rs = <<>>
  BY <1>1 DEF UpdatedRuns
<1>2. CASE rs # <<>>
  <2>1. Len(rs) \in 1..Len(rs)
    BY <1>2
  <2>2. rs[Len(rs)] \in Run
    BY <2>1
  <2>3. /\ UpdatedRun(rs[Len(rs)], status) \in Run
        /\ UpdatedRun(rs[Len(rs)], status).worker = rs[Len(rs)].worker
        /\ UpdatedRun(rs[Len(rs)], status).status = status
    BY <2>2 DEF UpdatedRun, Run
  <2>4. QED
    BY <1>2, <2>1, <2>3 DEF UpdatedRuns
<1>3. QED
  BY <1>1, <1>2

LEMMA ClaimedRunsType ==
  ASSUME NEW rs \in Seq(Run), NEW w \in Worker
  PROVE  /\ Append(rs, NewRun(w)) \in Seq(Run)
         /\ Len(Append(rs, NewRun(w))) = Len(rs) + 1
         /\ \A i \in 1..Len(rs) : Append(rs, NewRun(w))[i] = rs[i]
         /\ Append(rs, NewRun(w))[Len(rs) + 1] = NewRun(w)
<1>1. NewRun(w) \in Run
  BY DEF NewRun, Run, RowStatus
<1>2. QED
  BY <1>1

LEMMA ClaimedRowType ==
  ASSUME NEW r \in Row, NEW w \in Worker
  PROVE  ClaimedRow(r, w) \in Row /\ ClaimedRow(r, w).status = "running"
BY DEF ClaimedRow, Row, RowStatus

-----------------------------------------------------------------------------
(* Each action preserves the invariant.                                    *)

LEMMA CreateInv ==
  ASSUME IInv, NEW t \in Task, NEW p \in Priorities, NEW s \in {"pending", "paused"},
         CreateTask(t, p, s)
  PROVE  IInv'
<1> USE DEF IInv, CreateTask
<1> DEFINE row == [NoRow EXCEPT !.status = s, !.priority = p, !.created = clock + 1]
<1>0. row \in Row /\ row.status = s
  <2>1. clock + 1 \in Nat /\ s \in RowStatus
    BY DEF TypeOK, RowStatus
  <2>2. NoRow \in [status : RowStatus, priority : Priorities, created : Nat,
                    worker : Worker \cup {None}, started : BOOLEAN, completed : BOOLEAN]
    BY NoRowType DEF Row
  <2>3. QED
    BY <2>1, <2>2 DEF Row
<1>1. TypeOK'
  <2>1. task' = [task EXCEPT ![t] = row] /\ clock' = clock + 1
    OBVIOUS
  <2> HIDE DEF row, CreateTask
  <2>2. task' \in [Task -> Row] /\ clock' \in Nat
    BY <2>1, <1>0 DEF TypeOK
  <2>3. QED
    BY <2>2 DEF TypeOK, CreateTask, workerVars, chatVars
<1>2. \A u \in Task : u # t => task'[u] = task[u]
  BY DEF TypeOK
<1>3. task'[t].status = s
  BY NoRowType DEF TypeOK, Row
<1>4. Jobs'
  BY DEF Jobs, workerVars
<1>5. Locks'
  BY DEF Locks, workerVars, chatVars
<1>6. Held'
  BY <1>2, <1>3 DEF Held, Jobs, Executing, workerVars, chatVars
<1>7. Attempts'
  BY DEF Attempts, Executing, workerVars
<1>8. OneAttemptRunning'
  BY <1>2, <1>3 DEF OneAttemptRunning
<1>9. RunningIsOwned'
  BY <1>2, <1>3 DEF RunningIsOwned, Executing, workerVars
<1>10. QED
  BY <1>1, <1>4, <1>5, <1>6, <1>7, <1>8, <1>9

LEMMA ClaimSelectInv ==
  ASSUME IInv, NEW w \in Worker, NEW t \in Task, ClaimSelect(w, t)
  PROVE  IInv'
<1> USE DEF IInv, ClaimSelect
<1>1. TypeOK'
  BY DEF TypeOK, WorkerPc, chatVars
<1>2. t \in Claimable
  BY DEF IsFirst
<1>3. Jobs'
  BY DEF Jobs, TypeOK
<1>4. Locks'
  BY <1>2, QueueAssumption DEF Locks, Jobs, TypeOK, Claimable, chatVars
<1>5. Held'
  BY <1>2 DEF Held, TypeOK, Claimable, Executing, chatVars
<1>6. Attempts'
  BY DEF Attempts, TypeOK, Executing
<1>7. OneAttemptRunning'
  BY DEF OneAttemptRunning
<1>8. RunningIsOwned'
  BY DEF RunningIsOwned, TypeOK, Executing
<1>9. QED
  BY <1>1, <1>3, <1>4, <1>5, <1>6, <1>7, <1>8

LEMMA ClaimNothingInv ==
  ASSUME IInv, NEW w \in Worker, ClaimNothing(w)
  PROVE  IInv'
<1> USE DEF IInv, ClaimNothing
<1>1. TypeOK'
  BY DEF TypeOK, WorkerPc, chatVars
<1>2. Jobs' /\ Locks' /\ Held' /\ Attempts'
  BY DEF Jobs, Locks, Held, Attempts, TypeOK, Executing, chatVars
<1>3. OneAttemptRunning' /\ RunningIsOwned'
  BY DEF OneAttemptRunning, RunningIsOwned, TypeOK, Executing
<1>4. QED
  BY <1>1, <1>2, <1>3

LEMMA ClaimCommitInv ==
  ASSUME IInv, NEW w \in Worker, ClaimCommit(w)
  PROVE  IInv'
<1> DEFINE t == job[w]
<1> USE DEF IInv
<1>1. t \in Task /\ wpc[w] = "claiming" /\ lock[t] = w /\ task[t].status = "pending"
  BY DEF ClaimCommit, Jobs, Locks, Held
<1>2. /\ task' = [task EXCEPT ![t] = ClaimedRow(task[t], w)]
      /\ runs' = [runs EXCEPT ![t] = Append(runs[t], NewRun(w))]
      /\ attempt' = [attempt EXCEPT ![w] = Len(runs[t]) + 1]
      /\ lock' = [lock EXCEPT ![t] = None]
      /\ orphan' = orphan \ {t}
      /\ wpc' = [wpc EXCEPT ![w] = "working"]
      /\ UNCHANGED <<job, outcome, chatVars, clock, traffic, crashes>>
  BY DEF ClaimCommit, AttemptNumber
<1>3. task[t] \in Row /\ runs[t] \in Seq(Run)
  BY <1>1 DEF TypeOK
<1>4. ClaimedRow(task[t], w) \in Row /\ ClaimedRow(task[t], w).status = "running"
  BY <1>3, ClaimedRowType
<1>5. /\ Append(runs[t], NewRun(w)) \in Seq(Run)
      /\ Len(Append(runs[t], NewRun(w))) = Len(runs[t]) + 1
      /\ \A i \in 1..Len(runs[t]) : Append(runs[t], NewRun(w))[i] = runs[t][i]
      /\ Append(runs[t], NewRun(w))[Len(runs[t]) + 1] = NewRun(w)
  BY <1>3, ClaimedRunsType
<1>6. Len(runs[t]) \in Nat
  BY <1>3
<1>7. NewRun(w).worker = w /\ NewRun(w).status = "running"
  BY DEF NewRun
<1>8. TypeOK'
  BY <1>1, <1>2, <1>4, <1>5, <1>6 DEF TypeOK, WorkerPc, chatVars
<1>9. /\ \A u \in Task : u # t => task'[u] = task[u] /\ runs'[u] = runs[u]
      /\ task'[t].status = "running"
      /\ Len(runs'[t]) = Len(runs[t]) + 1
      /\ \A i \in 1..Len(runs[t]) : runs'[t][i] = runs[t][i]
      /\ runs'[t][Len(runs[t]) + 1].worker = w
  BY <1>1, <1>2, <1>4, <1>5, <1>7 DEF TypeOK
<1>10. Jobs'
  BY <1>1, <1>2 DEF Jobs, TypeOK
<1>11. Locks'
  BY <1>1, <1>2, QueueAssumption DEF Locks, TypeOK, chatVars
<1>12. Held'
  BY <1>1, <1>2, <1>9 DEF Held, Locks, Jobs, TypeOK, Executing, chatVars
<1>13. Attempts'
  <2> SUFFICES ASSUME NEW v \in Worker, Executing(v)'
      PROVE  (attempt[v] \in 1..Len(runs[job[v]]) /\ runs[job[v]][attempt[v]].worker = v)'
    BY DEF Attempts
  <2>1. CASE v = w
    BY <2>1, <1>1, <1>2, <1>6, <1>9 DEF TypeOK
  <2>2. CASE v # w
    <3>1. Executing(v) /\ job'[v] = job[v] /\ attempt'[v] = attempt[v] /\ job[v] \in Task
      BY <2>2, <1>2 DEF Executing, TypeOK, Jobs
    <3>2. attempt[v] \in 1..Len(runs[job[v]]) /\ runs[job[v]][attempt[v]].worker = v
      BY <3>1 DEF Attempts
    <3>3. QED
      BY <3>1, <3>2, <1>1, <1>6, <1>9
  <2>3. QED
    BY <2>1, <2>2
<1>14. OneAttemptRunning'
  <2> SUFFICES ASSUME NEW u \in Task, NEW i \in DOMAIN runs'[u], runs'[u][i].status = "running"
      PROVE  i = Len(runs'[u]) /\ task'[u].status = "running"
    BY DEF OneAttemptRunning
  <2>1. CASE u = t
    <3>1. i \in 1..Len(runs[t]) + 1
      BY <2>1, <1>1, <1>2, <1>5 DEF TypeOK
    <3>2. i \in 1..Len(runs[t]) => runs[t][i].status = "running" /\ i \in DOMAIN runs[t]
      BY <2>1, <1>9, <1>3
    <3>3. ~(i \in 1..Len(runs[t]))
      BY <3>2, <1>1 DEF OneAttemptRunning
    <3>4. QED
      BY <3>1, <3>3, <2>1, <1>6, <1>9
  <2>2. CASE u # t
    BY <2>2, <1>9 DEF OneAttemptRunning
  <2>3. QED
    BY <2>1, <2>2
<1>15. RunningIsOwned'
  <2> SUFFICES ASSUME NEW u \in Task, task'[u].status = "running", u \notin orphan'
      PROVE  \E v \in Worker : Executing(v)' /\ job'[v] = u /\ attempt'[v] = Len(runs'[u])
    BY DEF RunningIsOwned
  <2>1. CASE u = t
    BY <2>1, <1>1, <1>2, <1>9 DEF Executing, TypeOK
  <2>2. CASE u # t
    <3>1. PICK v \in Worker : Executing(v) /\ job[v] = u /\ attempt[v] = Len(runs[u])
      BY <2>2, <1>2, <1>9 DEF RunningIsOwned
    <3>2. v # w
      BY <3>1, <1>1 DEF Executing
    <3>3. QED
      BY <3>1, <3>2, <2>2, <1>2, <1>9 DEF Executing, TypeOK
  <2>3. QED
    BY <2>1, <2>2
<1>16. QED
  BY <1>8, <1>10, <1>11, <1>12, <1>13, <1>14, <1>15

LEMMA FinishWorkInv ==
  ASSUME IInv, NEW w \in Worker, NEW r \in Outcome, FinishWork(w, r)
  PROVE  IInv'
<1> USE DEF IInv, FinishWork
<1>1. TypeOK'
  BY DEF TypeOK, WorkerPc, Outcome, chatVars
<1>2. Jobs' /\ Locks' /\ Held' /\ Attempts'
  BY DEF Jobs, Locks, Held, Attempts, TypeOK, Executing, chatVars
<1>3. OneAttemptRunning' /\ RunningIsOwned'
  BY DEF OneAttemptRunning, RunningIsOwned, TypeOK, Executing
<1>4. QED
  BY <1>1, <1>2, <1>3

LEMMA ReportSelectInv ==
  ASSUME IInv, NEW w \in Worker, ReportSelect(w)
  PROVE  IInv'
<1> USE DEF IInv, ReportSelect
<1>1. TypeOK'
  BY DEF TypeOK, WorkerPc, chatVars
<1>2. Jobs'
  BY DEF Jobs, TypeOK
<1>3. Locks'
  BY QueueAssumption DEF Locks, Jobs, TypeOK, chatVars
<1>4. Held' /\ Attempts'
  BY DEF Jobs, Held, Attempts, TypeOK, Executing, chatVars
<1>5. OneAttemptRunning' /\ RunningIsOwned'
  BY DEF OneAttemptRunning, RunningIsOwned, TypeOK, Executing
<1>6. QED
  BY <1>1, <1>2, <1>3, <1>4, <1>5

LEMMA ReportSkippedInv ==
  ASSUME IInv, NEW w \in Worker, ReportSkipped(w)
  PROVE  IInv'
<1> USE DEF IInv, ReportSkipped, Rest
<1>1. TypeOK'
  BY DEF TypeOK, Jobs, WorkerPc, chatVars
<1>2. Jobs' /\ Locks' /\ Held' /\ Attempts'
  BY DEF Jobs, Locks, Held, Attempts, TypeOK, Executing, chatVars
<1>3. OneAttemptRunning'
  BY DEF OneAttemptRunning
<1>4. RunningIsOwned'
  <2> SUFFICES ASSUME NEW t \in Task, task[t].status = "running", t \notin orphan'
      PROVE  \E v \in Worker : Executing(v)' /\ job'[v] = t /\ attempt'[v] = Len(runs[t])
    BY DEF RunningIsOwned
  <2>1. PICK v \in Worker : Executing(v) /\ job[v] = t /\ attempt[v] = Len(runs[t])
    BY DEF RunningIsOwned
  <2>2. v # w
    BY <2>1
  <2>3. QED
    BY <2>1, <2>2 DEF TypeOK, Executing
<1>5. QED
  BY <1>1, <1>2, <1>3, <1>4

LEMMA CrashInv ==
  ASSUME IInv, NEW w \in Worker, Crash(w)
  PROVE  IInv'
<1> USE DEF IInv, Crash
<1>1. TypeOK'
  BY DEF TypeOK, Jobs, WorkerPc, chatVars
<1>2. Jobs' /\ Held' /\ Attempts'
  BY DEF Jobs, Held, Attempts, TypeOK, Executing, chatVars
<1>3. Locks'
  BY QueueAssumption DEF Locks, TypeOK, Jobs, chatVars
<1>4. OneAttemptRunning'
  BY DEF OneAttemptRunning
<1>5. RunningIsOwned'
  <2> SUFFICES ASSUME NEW t \in Task, task[t].status = "running", t \notin orphan'
      PROVE  \E v \in Worker : Executing(v)' /\ job'[v] = t /\ attempt'[v] = Len(runs[t])
    BY DEF RunningIsOwned
  <2>1. PICK v \in Worker : Executing(v) /\ job[v] = t /\ attempt[v] = Len(runs[t])
    BY DEF RunningIsOwned
  <2>2. v # w
    BY <2>1 DEF Executing
  <2>3. QED
    BY <2>1, <2>2 DEF TypeOK, Executing
<1>6. QED
  BY <1>1, <1>2, <1>3, <1>4, <1>5

LEMMA RestartInv ==
  ASSUME IInv, NEW w \in Worker, Restart(w)
  PROVE  IInv'
<1> USE DEF IInv, Restart
<1>1. TypeOK'
  BY DEF TypeOK, WorkerPc, chatVars
<1>2. Jobs' /\ Locks' /\ Held' /\ Attempts'
  BY DEF Jobs, Locks, Held, Attempts, TypeOK, Executing, chatVars
<1>3. ~Executing(w) /\ \A v \in Worker : Executing(v) => v # w
  BY DEF Executing
<1>4. \A v \in Worker : v # w => wpc'[v] = wpc[v]
  BY DEF TypeOK
<1>5. OneAttemptRunning'
  BY DEF OneAttemptRunning
<1>6. RunningIsOwned'
  BY <1>3, <1>4 DEF RunningIsOwned, Executing
<1>7. QED
  BY <1>1, <1>2, <1>5, <1>6

\* What an update of the row and of the latest attempt of t by whoever holds
\* its lock leaves of the invariant's parts about rows and attempts.
LEMMA UpdateInv ==
  ASSUME IInv, NEW t \in Task, NEW s \in Row, NEW status \in RowStatus \ {"absent", "running"},
         task[t].status # "absent",
         task' = [task EXCEPT ![t] = UpdatedRow(task[t], s, status)],
         runs' = [runs EXCEPT ![t] = UpdatedRuns(runs[t], status)]
  PROVE  /\ task' \in [Task -> Row]
         /\ runs' \in [Task -> Seq(Run)]
         /\ \A u \in Task : u # t => task'[u] = task[u]
         /\ task'[t].status \in {status, task[t].status}
         /\ \A u \in Task : task[u].status # "absent" => task'[u].status # "absent"
         /\ \A u \in Task : Len(runs'[u]) = Len(runs[u]) /\ Len(runs[u]) \in Nat
         /\ \A u \in Task : \A i \in 1..Len(runs[u]) : runs'[u][i].worker = runs[u][i].worker
         /\ OneAttemptRunning'
<1> USE DEF IInv
<1>1. task[t] \in Row /\ \A u \in Task : runs[u] \in Seq(Run)
  BY DEF TypeOK
<1>2. UpdatedRow(task[t], s, status) \in Row
  BY <1>1, UpdatedRowType
<1>3. UpdatedRow(task[t], s, status).status \in {status, task[t].status}
  BY <1>1, UpdatedRowStatus
<1>4. /\ UpdatedRuns(runs[t], status) \in Seq(Run)
      /\ Len(UpdatedRuns(runs[t], status)) = Len(runs[t])
      /\ \A i \in 1..Len(runs[t]) :
           /\ UpdatedRuns(runs[t], status)[i].worker = runs[t][i].worker
           /\ UpdatedRuns(runs[t], status)[i].status
                = IF i = Len(runs[t]) THEN status ELSE runs[t][i].status
  BY <1>1, UpdatedRunsType
<1>5. task' \in [Task -> Row] /\ runs' \in [Task -> Seq(Run)]
  BY <1>2, <1>4 DEF TypeOK
<1>6. /\ \A u \in Task : u # t => task'[u] = task[u] /\ runs'[u] = runs[u]
      /\ task'[t].status \in {status, task[t].status}
      /\ runs'[t] = UpdatedRuns(runs[t], status)
  BY <1>3 DEF TypeOK
<1>7. \A u \in Task : Len(runs'[u]) = Len(runs[u]) /\ Len(runs[u]) \in Nat
  BY <1>1, <1>4, <1>6
<1>8. \A u \in Task : \A i \in 1..Len(runs[u]) : runs'[u][i].worker = runs[u][i].worker
  BY <1>4, <1>6
<1>9. OneAttemptRunning'
  <2> SUFFICES ASSUME NEW u \in Task, NEW i \in DOMAIN runs'[u], runs'[u][i].status = "running"
      PROVE  i = Len(runs'[u]) /\ task'[u].status = "running"
    BY DEF OneAttemptRunning
  <2>1. CASE u # t
    BY <2>1, <1>6 DEF OneAttemptRunning
  <2>2. CASE u = t
    <3>1. i \in 1..Len(runs[t]) /\ DOMAIN runs[t] = 1..Len(runs[t])
      BY <2>2, <1>1, <1>5, <1>7
    <3>2. i # Len(runs[t]) /\ runs[t][i].status = "running"
      BY <2>2, <3>1, <1>4, <1>6
    <3>3. QED
      BY <3>1, <3>2 DEF OneAttemptRunning
  <2>3. QED
    BY <2>1, <2>2
<1>10. QED
  BY <1>5, <1>6, <1>7, <1>8, <1>9

LEMMA ReportCommitInv ==
  ASSUME IInv, NEW w \in Worker, ReportCommit(w)
  PROVE  IInv'
<1> DEFINE t == job[w]
<1> USE DEF IInv
<1>1. /\ t \in Task /\ wpc[w] = "committing" /\ lock[t] = w
      /\ outcome[w] \in RowStatus \ {"absent", "running"} /\ task[t] \in Row
      /\ task[t].status # "absent"
  BY DEF ReportCommit, Jobs, Locks, Held, Executing, TypeOK, Outcome, RowStatus,
         TERMINAL_TASK_STATUSES
<1>2. /\ task' = [task EXCEPT ![t] = UpdatedRow(task[t], task[t], outcome[w])]
      /\ runs' = [runs EXCEPT ![t] = UpdatedRuns(runs[t], outcome[w])]
      /\ lock' = [lock EXCEPT ![t] = None]
      /\ Rest(w)
      /\ UNCHANGED <<chatVars, orphan, clock, traffic, crashes>>
  BY DEF ReportCommit
<1>3. /\ task' \in [Task -> Row]
      /\ runs' \in [Task -> Seq(Run)]
      /\ \A u \in Task : u # t => task'[u] = task[u]
      /\ \A u \in Task : task[u].status # "absent" => task'[u].status # "absent"
      /\ \A u \in Task : Len(runs'[u]) = Len(runs[u]) /\ Len(runs[u]) \in Nat
      /\ \A u \in Task : \A i \in 1..Len(runs[u]) : runs'[u][i].worker = runs[u][i].worker
      /\ OneAttemptRunning'
  BY <1>1, <1>2, UpdateInv
<1>4. task'[t].status = outcome[w] /\ task'[t].status # "running"
  BY <1>1, <1>2, UpdatedRowFresh DEF TypeOK
<1>5. TypeOK'
  BY <1>2, <1>3 DEF TypeOK, Rest, WorkerPc, chatVars
<1>6. Jobs'
  BY <1>2 DEF Jobs, Rest, TypeOK
<1>7. Locks'
  BY <1>1, <1>2, QueueAssumption DEF Locks, Rest, TypeOK, chatVars
<1>8. Held'
  <2>1. \A v \in Worker : (wpc[v] = "claiming")' => wpc[v] = "claiming" /\ job'[v] = job[v] /\ job[v] # t
    BY <1>1, <1>2 DEF Rest, TypeOK, Locks
  <2>2. \A v \in Worker : Executing(v)' => Executing(v) /\ job'[v] = job[v] /\ job[v] \in Task
    BY <1>2 DEF Rest, TypeOK, Jobs, Executing
  <2>3. UNCHANGED <<ctodo, csnap>>
    BY <1>2 DEF chatVars
  <2>4. QED
    BY <2>1, <2>2, <2>3, <1>3 DEF Held, Jobs, TypeOK
<1>9. Attempts'
  <2>1. \A v \in Worker : Executing(v)' =>
          Executing(v) /\ job'[v] = job[v] /\ attempt'[v] = attempt[v] /\ job[v] \in Task
    BY <1>2 DEF Rest, TypeOK, Jobs, Executing
  <2>2. QED
    BY <2>1, <1>3 DEF Attempts
<1>10. RunningIsOwned'
  <2> SUFFICES ASSUME NEW u \in Task, task'[u].status = "running", u \notin orphan
      PROVE  \E v \in Worker : Executing(v)' /\ job'[v] = u /\ attempt'[v] = Len(runs'[u])
    BY <1>2 DEF RunningIsOwned
  <2>1. u # t
    BY <1>4
  <2>2. PICK v \in Worker : Executing(v) /\ job[v] = u /\ attempt[v] = Len(runs[u])
    BY <2>1, <1>3 DEF RunningIsOwned
  <2>3. QED
    BY <2>1, <2>2, <1>2, <1>3 DEF Rest, TypeOK, Executing
<1>11. QED
  BY <1>3, <1>5, <1>6, <1>7, <1>8, <1>9, <1>10

LEMMA LoadInv ==
  ASSUME IInv, NEW c \in Chat, NEW op \in Steer \cup Priorities,
         NEW S \in SUBSET Task, NEW listed \in SUBSET Task,
         \A t \in S : task[t].status # "absent",
         Load(c, op, S, listed)
  PROVE  IInv'
<1> USE DEF IInv, Load
<1>1. TypeOK'
  BY NoRowType DEF TypeOK, workerVars
<1>2. Jobs' /\ Attempts'
  BY DEF Jobs, Attempts, Executing, workerVars
<1>3. Locks'
  BY DEF Locks, TypeOK, workerVars
<1>4. Held'
  BY DEF Held, TypeOK, Executing, workerVars
<1>5. OneAttemptRunning' /\ RunningIsOwned'
  BY DEF OneAttemptRunning, RunningIsOwned, Executing, workerVars
<1>6. QED
  BY <1>1, <1>2, <1>3, <1>4, <1>5

LEMMA CommandSelectInv ==
  ASSUME IInv, NEW c \in Chat, NEW t \in Task, CommandSelect(c, t)
  PROVE  IInv'
<1> USE DEF IInv, CommandSelect
<1>1. TypeOK'
  BY DEF TypeOK, workerVars
<1>2. Jobs' /\ Attempts'
  BY DEF Jobs, Attempts, Executing, workerVars
<1>3. Locks'
  BY QueueAssumption DEF Locks, Jobs, TypeOK, IsFirst, workerVars
<1>4. Held'
  BY DEF Held, TypeOK, Executing, workerVars
<1>5. OneAttemptRunning' /\ RunningIsOwned'
  BY DEF OneAttemptRunning, RunningIsOwned, Executing, workerVars
<1>6. QED
  BY <1>1, <1>2, <1>3, <1>4, <1>5

\* The command's own variables after it is done with t.
LEMMA HandledType ==
  ASSUME TypeOK, NEW c \in Chat, NEW t \in Task, Handled(c, t)
  PROVE  /\ cpc' \in [Chat -> {"idle", "loaded", "locked"}]
         /\ cop' \in [Chat -> Steer \cup Priorities \cup {"none"}]
         /\ ctodo' \in [Chat -> SUBSET Task]
         /\ csnap' \in [Chat -> [Task -> Row]]
         /\ clisted' \in [Chat -> SUBSET Task]
         /\ \A d \in Chat, u \in Task :
              /\ u \in ctodo'[d] => u \in ctodo[d] /\ csnap'[d][u] = csnap[d][u]
              /\ d # c => cpc'[d] = cpc[d] /\ ctodo'[d] = ctodo[d]
BY NoRowType DEF TypeOK, Handled

LEMMA CommandSkippedInv ==
  ASSUME IInv, NEW c \in Chat, NEW t \in Task, CommandSkipped(c, t)
  PROVE  IInv'
<1> USE DEF IInv, CommandSkipped
<1>1. TypeOK'
  BY HandledType DEF TypeOK, workerVars
<1>2. Jobs' /\ Attempts'
  BY DEF Jobs, Attempts, Executing, workerVars
<1>3. Locks'
  <2>1. \A u \in Task : lock[u] # c
    BY DEF Locks
  <2>2. \A d \in Chat : d # c => cpc'[d] = cpc[d] /\ ctodo'[d] = ctodo[d]
    BY HandledType
  <2>3. QED
    BY <2>1, <2>2 DEF Locks, workerVars
<1>4. Held'
  BY HandledType DEF Held, TypeOK, Executing, workerVars
<1>5. OneAttemptRunning' /\ RunningIsOwned'
  BY DEF OneAttemptRunning, RunningIsOwned, Executing, workerVars
<1>6. QED
  BY <1>1, <1>2, <1>3, <1>4, <1>5

\* A commit of a command, whichever column it writes.
LEMMA CommandCommitInv ==
  ASSUME IInv, NEW c \in Chat, NEW t \in Task, CommandCommit(c, t)
  PROVE  IInv'
<1> USE DEF IInv
<1>1. /\ lock[t] = c /\ cpc[c] = "locked" /\ t \in ctodo[c]
      /\ task[t] \in Row /\ csnap[c][t] \in Row /\ task[t].status # "absent"
  BY DEF CommandCommit, TypeOK, Locks, Held
<1>2. /\ lock' = [lock EXCEPT ![t] = None]
      /\ Handled(c, t)
      /\ UNCHANGED <<workerVars, orphan, clock, traffic, crashes>>
  BY DEF CommandCommit
<1>3. /\ task' \in [Task -> Row]
      /\ runs' \in [Task -> Seq(Run)]
      /\ \A u \in Task : u # t => task'[u] = task[u]
      /\ task'[t].status \in Steer \cup {task[t].status}
      /\ \A u \in Task : task[u].status # "absent" => task'[u].status # "absent"
      /\ \A u \in Task : Len(runs'[u]) = Len(runs[u]) /\ Len(runs[u]) \in Nat
      /\ \A u \in Task : \A i \in 1..Len(runs[u]) : runs'[u][i].worker = runs[u][i].worker
      /\ OneAttemptRunning'
  <2>1. CASE /\ cop[c] \in Steer
             /\ task' = [task EXCEPT ![t] = UpdatedRow(task[t], csnap[c][t], cop[c])]
             /\ runs' = [runs EXCEPT ![t] = UpdatedRuns(runs[t], cop[c])]
    <3>1. cop[c] \in RowStatus \ {"absent", "running"}
      BY <2>1 DEF Steer, RowStatus, TERMINAL_TASK_STATUSES
    <3>2. task'[t].status \in {cop[c], task[t].status}
      BY <2>1, <3>1, <1>1, UpdateInv
    <3>3. task'[t].status \in Steer \cup {task[t].status}
      BY <3>2, <2>1
    <3>4. QED
      BY <2>1, <3>1, <3>3, <1>1, UpdateInv
  <2>2. CASE /\ cop[c] \in Priorities
             /\ task' = [task EXCEPT ![t].priority = Net(csnap[c][t].priority, task[t].priority, cop[c])]
             /\ UNCHANGED runs
    <3> DEFINE p == Net(csnap[c][t].priority, task[t].priority, cop[c])
    <3>1. p \in Priorities
      BY <2>2, <1>1 DEF Net, Row
    <3>2. task' = [task EXCEPT ![t] = [task[t] EXCEPT !.priority = p]]
      BY <2>2, <1>1 DEF TypeOK
    <3> HIDE DEF p
    <3>3. [task[t] EXCEPT !.priority = p] \in Row /\ [task[t] EXCEPT !.priority = p].status = task[t].status
      BY <3>1, <1>1 DEF Row
    <3>4. /\ task' \in [Task -> Row]
          /\ \A u \in Task : u # t => task'[u] = task[u]
          /\ task'[t].status = task[t].status
      BY <3>2, <3>3 DEF TypeOK
    <3>5. \A u \in Task : runs[u] \in Seq(Run) /\ Len(runs[u]) \in Nat
      BY DEF TypeOK
    <3>6. OneAttemptRunning'
      BY <2>2, <3>4 DEF OneAttemptRunning
    <3>7. QED
      BY <2>2, <3>4, <3>5, <3>6 DEF TypeOK
  <2>3. QED
    BY <2>1, <2>2 DEF CommandCommit
<1>4. task'[t].status = "running" => task[t].status = "running"
  BY <1>3 DEF Steer
<1>5. TypeOK'
  BY <1>2, <1>3, HandledType DEF TypeOK, workerVars
<1>6. Jobs'
  BY <1>2 DEF Jobs, workerVars
<1>7. Locks'
  <2>1. lock'[t] = None /\ \A u \in Task : u # t => lock'[u] = lock[u] /\ lock[u] # c
    BY <1>1, <1>2 DEF Locks, TypeOK
  <2>2. \A d \in Chat : d # c => cpc'[d] = cpc[d] /\ ctodo'[d] = ctodo[d]
    BY <1>2, HandledType
  <2>3. \A v \in Worker : wpc[v] \in {"claiming", "committing"} => job[v] # t
    BY <1>1, QueueAssumption DEF Locks
  <2>4. QED
    BY <2>1, <2>2, <2>3, <1>2, QueueAssumption DEF Locks, Jobs, workerVars
<1>8. Held'
  <2>1. \A v \in Worker : wpc[v] = "claiming" => job[v] # t
    BY <1>1, QueueAssumption DEF Locks, Jobs, TypeOK
  <2>2. QED
    BY <2>1, <1>2, <1>3, HandledType DEF Held, Jobs, TypeOK, Executing, workerVars
<1>9. Attempts'
  BY <1>2, <1>3 DEF Attempts, Jobs, Executing, workerVars
<1>10. RunningIsOwned'
  <2> SUFFICES ASSUME NEW u \in Task, task'[u].status = "running", u \notin orphan
      PROVE  \E v \in Worker : Executing(v)' /\ job'[v] = u /\ attempt'[v] = Len(runs'[u])
    BY <1>2 DEF RunningIsOwned
  <2>1. task[u].status = "running"
    BY <1>3, <1>4
  <2>2. PICK v \in Worker : Executing(v) /\ job[v] = u /\ attempt[v] = Len(runs[u])
    BY <2>1 DEF RunningIsOwned
  <2>3. QED
    BY <2>2, <1>2, <1>3 DEF Executing, workerVars
<1>11. QED
  BY <1>3, <1>5, <1>6, <1>7, <1>8, <1>9, <1>10

\* A child insert touches the lock of one row, which nobody else holds.
LEMMA InsertInv ==
  ASSUME IInv, NEW t \in Task, InsertChild(t) \/ InsertDone(t)
  PROVE  IInv'
<1> USE DEF IInv
<1>1. /\ UNCHANGED <<task, runs, workerVars, chatVars, orphan, clock, crashes>>
      /\ lock[t] \in {None, ChildInsert}
      /\ lock' = [lock EXCEPT ![t] = lock'[t]] /\ lock'[t] \in {None, ChildInsert}
      /\ traffic' \in Nat
  <2>1. CASE InsertChild(t)
    BY <2>1 DEF InsertChild, TypeOK
  <2>2. CASE InsertDone(t)
    BY <2>2 DEF InsertDone, TypeOK
  <2>3. QED
    BY <2>1, <2>2
<1>2. TypeOK'
  BY <1>1 DEF TypeOK, workerVars, chatVars
<1>3. Jobs' /\ Attempts' /\ Held'
  BY <1>1 DEF Jobs, Attempts, Held, Executing, workerVars, chatVars
<1>4. Locks'
  <2>1. \A u \in Task : u # t => lock'[u] = lock[u]
    BY <1>1 DEF TypeOK
  <2>2. \A h \in Worker \cup Chat : lock[t] # h /\ lock'[t] # h
    BY <1>1, QueueAssumption
  <2>3. \A w \in Worker : wpc[w] \in {"claiming", "committing"} => job[w] \in Task \ {t}
    BY <2>2 DEF Locks, Jobs
  <2>4. QED
    BY <1>1, <2>1, <2>2, <2>3 DEF Locks, workerVars, chatVars
<1>5. OneAttemptRunning' /\ RunningIsOwned'
  BY <1>1 DEF OneAttemptRunning, RunningIsOwned, Executing, workerVars
<1>6. QED
  BY <1>2, <1>3, <1>4, <1>5

-----------------------------------------------------------------------------
LEMMA InitInv == Init => IInv
<1> SUFFICES ASSUME Init PROVE IInv
  OBVIOUS
<1>1. TypeOK
  BY NoRowType DEF Init, TypeOK, WorkerPc
<1>2. Jobs /\ Locks /\ Held /\ Attempts
  BY QueueAssumption DEF Init, Jobs, Locks, Held, Attempts, Executing
<1>3. OneAttemptRunning /\ RunningIsOwned
  BY DEF Init, OneAttemptRunning, RunningIsOwned, NoRow
<1>4. QED
  BY <1>1, <1>2, <1>3 DEF IInv

LEMMA NextInv == IInv /\ [Next]_vars => IInv'
<1> SUFFICES ASSUME IInv, [Next]_vars PROVE IInv'
  OBVIOUS
<1>1. CASE UNCHANGED vars
  BY <1>1 DEF vars, workerVars, chatVars, IInv, TypeOK, Jobs, Locks, Held, Attempts,
              Executing, OneAttemptRunning, RunningIsOwned
<1>2. CASE Create
  BY <1>2, CreateInv DEF Create
<1>3. ASSUME NEW w \in Worker, WorkerStep(w) \/ Crash(w) \/ Restart(w)
      PROVE  IInv'
  <2>1. CASE WorkerStep(w)
    BY <2>1, ClaimSelectInv, ClaimNothingInv, ClaimCommitInv, FinishWorkInv, ReportSelectInv,
       ReportSkippedInv, ReportCommitInv DEF WorkerStep, LoopStep, WorkEnds
  <2>2. QED
    BY <2>1, <1>3, CrashInv, RestartInv
<1>4. ASSUME NEW c \in Chat, NEW t \in Task, NEW op \in Steer \cup Priorities, Command(c, op, t)
      PROVE  IInv'
  BY <1>4, LoadInv DEF Command
<1>5. ASSUME NEW c \in Chat, BulkCancel(c)
      PROVE  IInv'
  <2> DEFINE active == {t \in Task : task[t].status \in ActiveStatus}
  <2>1. active \in SUBSET Task /\ \A t \in active : task[t].status # "absent"
    BY DEF ActiveStatus
  <2>2. Load(c, "cancelled", active, active) /\ "cancelled" \in Steer \cup Priorities
    BY <1>5 DEF BulkCancel, Steer
  <2> HIDE DEF active
  <2>3. QED
    BY <2>1, <2>2, LoadInv
<1>6. ASSUME NEW c \in Chat, CommandStep(c)
      PROVE  IInv'
  BY <1>6, CommandSelectInv, CommandSkippedInv, CommandCommitInv DEF CommandStep
<1>7. ASSUME NEW t \in Task, InsertChild(t) \/ InsertDone(t)
      PROVE  IInv'
  BY <1>7, InsertInv
<1>8. QED
  BY <1>1, <1>2, <1>3, <1>4, <1>5, <1>6, <1>7 DEF Next

THEOREM Invariant == Spec => []IInv
BY InitInv, NextInv, PTL DEF Spec

\* Every table and every process state keeps its type.
THEOREM TypeCorrect == Spec => []TypeOK
<1>1. IInv => TypeOK
  BY DEF IInv
<1>2. QED
  BY <1>1, Invariant, PTL

\* At most one attempt of a task is recorded as running, and it is the latest
\* (claim_next_task, update_task_status).
THEOREM OneAttempt == Spec => []OneAttemptRunning
<1>1. IInv => OneAttemptRunning
  BY DEF IInv
<1>2. QED
  BY <1>1, Invariant, PTL

\* A task is left running without its worker only after a crash or a skipped
\* report (worker_loop).
THEOREM Owned == Spec => []RunningIsOwned
<1>1. IInv => RunningIsOwned
  BY DEF IInv
<1>2. QED
  BY <1>1, Invariant, PTL

-----------------------------------------------------------------------------
(***************************************************************************)
(* The task queue implements TaskLifecycle, for every set of tasks,        *)
(* workers and gateway sessions: each action is a step of TaskLifecycle or *)
(* changes nothing a client sees.  The inductive invariant supplies what   *)
(* the abstract guards ask for: a claimed task is pending, a steered task  *)
(* exists, and an attempt that is closed is executed by one worker only.   *)
(***************************************************************************)

\* The workers other than w keep what they execute.
OthersKeep(w) ==
  \A v \in Worker \ {w} :
    /\ Executing(v)' <=> Executing(v)
    /\ job'[v] = job[v] /\ attempt'[v] = attempt[v]

-----------------------------------------------------------------------------
(* How the set of open attempts changes with one worker.                   *)

LEMMA OpenKept ==
  ASSUME NEW w \in Worker, OthersKeep(w), Executing(w)' <=> Executing(w),
         Executing(w) => job'[w] = job[w] /\ attempt'[w] = attempt[w]
  PROVE  UNCHANGED OpenOf
<1>1. ASSUME NEW t \in Task
      PROVE  Executors(t)' = Executors(t) /\ \A v \in Executors(t) : attempt'[v] = attempt[v]
  BY DEF Executors, OthersKeep
<1>2. QED
  BY <1>1 DEF OpenOf

LEMMA OpenClosed ==
  ASSUME IInv, NEW w \in Worker, OthersKeep(w), Executing(w), ~Executing(w)'
  PROVE  /\ job[w] \in Task /\ attempt[w] \in OpenOf[job[w]]
         /\ OpenOf' = [OpenOf EXCEPT ![job[w]] = OpenOf[job[w]] \ {attempt[w]}]
<1>1. job[w] \in Task
  BY DEF IInv, Jobs, Executing
<1>2. w \in Executors(job[w])
  BY DEF Executors
<1>3. attempt[w] \in OpenOf[job[w]]
  BY <1>1, <1>2 DEF OpenOf
<1>4. ASSUME NEW t \in Task
      PROVE  /\ Executors(t)' = Executors(t) \ {w}
             /\ \A v \in Executors(t) \ {w} : attempt'[v] = attempt[v]
  BY DEF Executors, OthersKeep
<1>5. ASSUME NEW v \in Executors(job[w]) \ {w} PROVE attempt[v] # attempt[w]
  BY <1>5 DEF Executors, IInv, Attempts
<1>6. OpenOf'[job[w]] = OpenOf[job[w]] \ {attempt[w]}
  <2>1. OpenOf'[job[w]] = {attempt[v] : v \in Executors(job[w]) \ {w}}
    BY <1>1, <1>4 DEF OpenOf
  <2>2. OpenOf[job[w]] = {attempt[v] : v \in Executors(job[w])}
    BY <1>1 DEF OpenOf
  <2>3. QED
    BY <2>1, <2>2, <1>5
<1>7. ASSUME NEW t \in Task, t # job[w] PROVE OpenOf'[t] = OpenOf[t]
  <2>1. w \notin Executors(t)
    BY <1>7 DEF Executors
  <2>2. QED
    BY <1>4, <2>1 DEF OpenOf
<1>8. QED
  BY <1>1, <1>3, <1>6, <1>7 DEF OpenOf

LEMMA OpenOpened ==
  ASSUME NEW w \in Worker, OthersKeep(w), ~Executing(w), Executing(w)', job'[w] \in Task
  PROVE  OpenOf' = [OpenOf EXCEPT ![job'[w]] = OpenOf[job'[w]] \cup {attempt'[w]}]
<1>1. ASSUME NEW t \in Task
      PROVE  /\ Executors(t)' = IF t = job'[w] THEN Executors(t) \cup {w} ELSE Executors(t)
             /\ w \notin Executors(t)
             /\ \A v \in Executors(t) : attempt'[v] = attempt[v]
  BY DEF Executors, OthersKeep
<1>2. OpenOf'[job'[w]] = OpenOf[job'[w]] \cup {attempt'[w]}
  BY <1>1 DEF OpenOf
<1>3. \A t \in Task \ {job'[w]} : OpenOf'[t] = OpenOf[t]
  BY <1>1 DEF OpenOf
<1>4. QED
  BY <1>2, <1>3 DEF OpenOf

-----------------------------------------------------------------------------
(* The steps.                                                              *)

Mapped == <<StatusOf, AttemptsOf, OpenOf>>

\* A step that neither writes a row nor changes who executes what.
LEMMA RowsKept ==
  ASSUME UNCHANGED <<task, runs>> PROVE UNCHANGED <<StatusOf, AttemptsOf>>
BY DEF StatusOf, AttemptsOf

LEMMA WorkersKept ==
  ASSUME UNCHANGED workerVars PROVE UNCHANGED OpenOf
BY DEF OpenOf, Executors, Executing, workerVars

LEMMA CreateStep ==
  ASSUME IInv, NEW t \in Task, NEW p \in Priorities, NEW s \in {"pending", "paused"},
         CreateTask(t, p, s)
  PROVE  Lifecycle!Submit(t)
<1>1. StatusOf[t] = "absent"
  BY DEF CreateTask, StatusOf
<1>2. UNCHANGED <<AttemptsOf, OpenOf>>
  BY WorkersKept DEF CreateTask, AttemptsOf
<1>3. [NoRow EXCEPT !.status = s, !.priority = p, !.created = clock + 1].status = s
  BY DEF NoRow
<1>4. StatusOf' = [StatusOf EXCEPT ![t] = s]
  BY <1>3 DEF CreateTask, StatusOf, IInv, TypeOK
<1>5. QED
  BY <1>1, <1>2, <1>4 DEF Lifecycle!Submit

LEMMA ClaimCommitStep ==
  ASSUME IInv, NEW w \in Worker, ClaimCommit(w)
  PROVE  Lifecycle!Start(job[w])
<1> DEFINE t == job[w]
<1>1. t \in Task /\ task[t].status = "pending" /\ task[t] \in Row /\ runs[t] \in Seq(Run)
  BY DEF ClaimCommit, IInv, Jobs, Held, TypeOK
<1>2. OthersKeep(w) /\ ~Executing(w) /\ Executing(w)' /\ job'[w] = t
      /\ attempt'[w] = Len(runs[t]) + 1
  BY DEF ClaimCommit, OthersKeep, Executing, IInv, TypeOK, AttemptNumber
<1>3. OpenOf' = [OpenOf EXCEPT ![t] = OpenOf[t] \cup {AttemptsOf[t] + 1}]
  BY <1>1, <1>2, OpenOpened DEF AttemptsOf
<1>4. StatusOf' = [StatusOf EXCEPT ![t] = "running"]
  BY <1>1, ClaimedRowType DEF StatusOf, ClaimCommit, IInv, TypeOK
<1>5. AttemptsOf' = [AttemptsOf EXCEPT ![t] = AttemptsOf[t] + 1]
  BY <1>1, ClaimedRunsType DEF AttemptsOf, ClaimCommit, IInv, TypeOK
<1>6. StatusOf[t] = "pending"
  BY <1>1 DEF StatusOf
<1>7. QED
  BY <1>3, <1>4, <1>5, <1>6 DEF Lifecycle!Start

LEMMA ReportCommitStep ==
  ASSUME IInv, NEW w \in Worker, ReportCommit(w)
  PROVE  job[w] \in Task /\ \E a \in OpenOf[job[w]] : Lifecycle!Report(job[w], a)
<1> DEFINE t == job[w]
<1>1. t \in Task /\ task[t] \in Row /\ runs[t] \in Seq(Run) /\ outcome[w] \in Outcome
      /\ outcome[w] \in RowStatus
  BY DEF ReportCommit, IInv, Jobs, TypeOK, Outcome, RowStatus, TERMINAL_TASK_STATUSES
<1>2. OthersKeep(w) /\ Executing(w) /\ ~Executing(w)'
  BY DEF ReportCommit, Rest, OthersKeep, Executing, IInv, TypeOK
<1>3. attempt[w] \in OpenOf[t] /\ OpenOf' = [OpenOf EXCEPT ![t] = OpenOf[t] \ {attempt[w]}]
  BY <1>2, OpenClosed
<1>4. StatusOf' = [StatusOf EXCEPT ![t] = outcome[w]]
  BY <1>1, UpdatedRowFresh DEF StatusOf, ReportCommit, IInv, TypeOK
<1>5. AttemptsOf' = AttemptsOf
  BY <1>1, UpdatedRunsType DEF AttemptsOf, ReportCommit, IInv, TypeOK
<1>6. QED
  BY <1>1, <1>3, <1>4, <1>5 DEF Lifecycle!Report, Outcome

\* A crash in the middle of a task and a skipped report both lose the attempt.
LEMMA LoseStep ==
  ASSUME IInv, NEW w \in Worker, ReportSkipped(w) \/ Crash(w), Executing(w)
  PROVE  job[w] \in Task /\ \E a \in OpenOf[job[w]] : Lifecycle!Lose(job[w], a)
<1>1. OthersKeep(w) /\ ~Executing(w)'
  BY DEF ReportSkipped, Crash, Rest, OthersKeep, Executing, IInv, TypeOK
<1>2. UNCHANGED <<StatusOf, AttemptsOf>>
  BY RowsKept DEF ReportSkipped, Crash
<1>3. QED
  BY <1>1, <1>2, OpenClosed DEF Lifecycle!Lose

LEMMA SteerStep ==
  ASSUME IInv, NEW c \in Chat, NEW t \in Task, CommandCommit(c, t)
  PROVE  Lifecycle!SteerTask(t) \/ UNCHANGED Mapped
<1>1. t \in ctodo[c] /\ task[t] \in Row /\ csnap[c][t] \in Row /\ runs[t] \in Seq(Run)
  BY DEF CommandCommit, IInv, Locks, TypeOK
<1>2. StatusOf[t] # "absent"
  BY <1>1 DEF IInv, Held, StatusOf
<1>3. UNCHANGED OpenOf
  BY WorkersKept DEF CommandCommit
<1>4. CASE /\ cop[c] \in Steer
           /\ task' = [task EXCEPT ![t] = UpdatedRow(@, csnap[c][t], cop[c])]
           /\ runs' = [runs EXCEPT ![t] = UpdatedRuns(@, cop[c])]
  <2>1. cop[c] \in RowStatus
    BY <1>4 DEF Steer, RowStatus, TERMINAL_TASK_STATUSES
  <2>2. AttemptsOf' = AttemptsOf
    BY <1>1, <1>4, <2>1, UpdatedRunsType DEF AttemptsOf, IInv, TypeOK
  <2>3. \E s \in {cop[c], task[t].status} : StatusOf' = [StatusOf EXCEPT ![t] = s]
    BY <1>1, <1>4, <2>1, UpdatedRowStatus DEF StatusOf, IInv, TypeOK
  <2>4. CASE StatusOf' = [StatusOf EXCEPT ![t] = cop[c]]
    BY <1>2, <1>3, <1>4, <2>2, <2>4 DEF Lifecycle!SteerTask, Steer
  <2>5. CASE StatusOf' = [StatusOf EXCEPT ![t] = task[t].status]
    <3>1. StatusOf' = StatusOf
      BY <2>5 DEF StatusOf
    <3>2. QED
      BY <3>1, <2>2, <1>3 DEF Mapped
  <2>6. QED
    BY <2>3, <2>4, <2>5
<1>5. CASE cop[c] \in Priorities /\ UNCHANGED runs
           /\ task' = [task EXCEPT ![t].priority = Net(csnap[c][t].priority, @, cop[c])]
  <2> DEFINE p == Net(csnap[c][t].priority, task[t].priority, cop[c])
  <2>1. task' = [task EXCEPT ![t] = [task[t] EXCEPT !.priority = p]]
    BY <1>5 DEF IInv, TypeOK
  <2> HIDE DEF p
  <2>2. [task[t] EXCEPT !.priority = p].status = task[t].status
    BY <1>1 DEF Row
  <2>3. UNCHANGED <<StatusOf, AttemptsOf>>
    BY <2>1, <2>2, <1>5 DEF StatusOf, AttemptsOf, IInv, TypeOK
  <2>4. QED
    BY <2>3, <1>3 DEF Mapped
<1>6. QED
  BY <1>4, <1>5 DEF CommandCommit

LEMMA LifecycleStep ==
  IInv /\ [Next]_vars => [Lifecycle!Next]_Mapped
<1> SUFFICES ASSUME IInv, Next
    PROVE  (\E t \in Task : \/ Lifecycle!Submit(t) \/ Lifecycle!Start(t) \/ Lifecycle!SteerTask(t)
                            \/ \E a \in OpenOf[t] : Lifecycle!Report(t, a) \/ Lifecycle!Lose(t, a))
           \/ UNCHANGED Mapped
  <2>1. UNCHANGED vars => UNCHANGED Mapped
    BY RowsKept, WorkersKept DEF vars, Mapped
  <2>2. QED
    BY <2>1 DEF Lifecycle!Next
<1>1. CASE Create
  BY <1>1, CreateStep DEF Create
<1>2. ASSUME NEW w \in Worker, WorkerStep(w)
      PROVE  \/ \E t \in Task : \/ Lifecycle!Start(t)
                               \/ \E a \in OpenOf[t] : Lifecycle!Report(t, a) \/ Lifecycle!Lose(t, a)
             \/ UNCHANGED Mapped
  <2>1. CASE \/ \E t \in Task : ClaimSelect(w, t)
             \/ ClaimNothing(w)
             \/ \E r \in Outcome : FinishWork(w, r)
             \/ ReportSelect(w)
    <3>1. UNCHANGED <<task, runs>> /\ OthersKeep(w) /\ (Executing(w)' <=> Executing(w))
          /\ (Executing(w) => job'[w] = job[w] /\ attempt'[w] = attempt[w])
      BY <2>1 DEF ClaimSelect, ClaimNothing, FinishWork, ReportSelect, OthersKeep, Executing,
                  IInv, TypeOK
    <3>2. QED
      BY <3>1, RowsKept, OpenKept DEF Mapped
  <2>2. CASE ClaimCommit(w)
    BY <2>2, ClaimCommitStep DEF ClaimCommit, IInv, Jobs
  <2>3. CASE ReportSkipped(w)
    BY <2>3, LoseStep DEF ReportSkipped, Executing
  <2>4. CASE ReportCommit(w)
    BY <2>4, ReportCommitStep
  <2>5. QED
    BY <1>2, <2>1, <2>2, <2>3, <2>4 DEF WorkerStep, LoopStep, WorkEnds
<1>3. ASSUME NEW w \in Worker, Crash(w) \/ Restart(w)
      PROVE  \/ \E t \in Task : \E a \in OpenOf[t] : Lifecycle!Lose(t, a)
             \/ UNCHANGED Mapped
  <2>1. CASE Executing(w)
    BY <1>3, <2>1, LoseStep DEF Restart, Executing
  <2>2. CASE ~Executing(w)
    <3>1. UNCHANGED <<task, runs>> /\ OthersKeep(w) /\ ~Executing(w) /\ ~Executing(w)'
      BY <1>3, <2>2 DEF Crash, Restart, OthersKeep, Executing, IInv, TypeOK
    <3>2. QED
      BY <3>1, RowsKept, OpenKept DEF Mapped
  <2>3. QED
    BY <2>1, <2>2
<1>4. ASSUME NEW c \in Chat,
             \/ \E t \in Task, op \in Steer \cup Priorities : Command(c, op, t)
             \/ BulkCancel(c)
      PROVE  UNCHANGED Mapped
  BY <1>4, RowsKept, WorkersKept DEF Command, BulkCancel, Load, Mapped
<1>5. ASSUME NEW c \in Chat, CommandStep(c)
      PROVE  (\E t \in Task : Lifecycle!SteerTask(t)) \/ UNCHANGED Mapped
  <2>1. ASSUME NEW t \in Task, CommandSelect(c, t) \/ CommandSkipped(c, t)
        PROVE  UNCHANGED Mapped
    BY <2>1, RowsKept, WorkersKept DEF CommandSelect, CommandSkipped, Mapped
  <2>2. QED
    BY <1>5, <2>1, SteerStep DEF CommandStep
<1>6. ASSUME NEW t \in Task, InsertChild(t) \/ InsertDone(t)
      PROVE  UNCHANGED Mapped
  BY <1>6, RowsKept, WorkersKept DEF InsertChild, InsertDone, Mapped
<1>7. QED
  BY <1>1, <1>2, <1>3, <1>4, <1>5, <1>6 DEF Next

LEMMA LifecycleInit == Init => Lifecycle!Init
<1> SUFFICES ASSUME Init PROVE Lifecycle!Init
  OBVIOUS
<1>1. \A t \in Task : Executors(t) = {}
  BY DEF Init, Executors, Executing
<1>2. QED
  BY <1>1 DEF Init, Lifecycle!Init, StatusOf, AttemptsOf, OpenOf, NoRow

\* Rows, locks, skipped updates, stale sessions and crashes show a client of the
\* queue nothing but steps of TaskLifecycle (db/task_queue.py, workers/main.py).
THEOREM Refinement == Spec => ImplementsLifecycle
<1>1. [Lifecycle!Next]_Mapped <=> [Lifecycle!Next]_(Lifecycle!lifecycleVars)
  BY DEF Mapped, Lifecycle!lifecycleVars
<1>2. QED
  BY <1>1, Invariant, LifecycleInit, LifecycleStep, PTL DEF Spec, ImplementsLifecycle, Lifecycle!Spec

\* A step that opens an attempt, and only such a step makes a task running, takes a
\* task that is pending at that moment (claim_next_task).
THEOREM ClaimsPending == Spec => ClaimsArePending
<1> DEFINE Claim(t) ==
      (Len(runs'[t]) > Len(runs[t]) \/ (task'[t].status = "running" /\ task[t].status # "running"))
         => /\ task[t].status = "pending"
            /\ task'[t].status = "running"
            /\ Len(runs'[t]) = Len(runs[t]) + 1
<1>1. IInv /\ IInv' /\ [Next]_vars => [\A t \in Task : Claim(t)]_vars
  <2> SUFFICES ASSUME IInv, IInv', [Next]_vars, NEW t \in Task PROVE Claim(t)
    OBVIOUS
  <2>1. /\ StatusOf[t] = task[t].status /\ StatusOf'[t] = task'[t].status
        /\ AttemptsOf[t] = Len(runs[t]) /\ AttemptsOf'[t] = Len(runs'[t])
        /\ Len(runs[t]) \in Nat
    BY DEF StatusOf, AttemptsOf, IInv, TypeOK
  <2>2. CASE UNCHANGED Mapped
    BY <2>1, <2>2 DEF Mapped
  <2>3. CASE Lifecycle!Next
    <3>1. PICK u \in Task : \/ Lifecycle!Submit(u) \/ Lifecycle!Start(u) \/ Lifecycle!SteerTask(u)
                            \/ \E a \in OpenOf[u] : Lifecycle!Report(u, a) \/ Lifecycle!Lose(u, a)
      BY <2>3 DEF Lifecycle!Next
    <3>2. CASE Lifecycle!Start(u)
      <4>1. /\ StatusOf[u] = "pending"
            /\ StatusOf'[t] = IF t = u THEN "running" ELSE StatusOf[t]
            /\ AttemptsOf'[t] = IF t = u THEN AttemptsOf[t] + 1 ELSE AttemptsOf[t]
        BY <3>2 DEF Lifecycle!Start, StatusOf, AttemptsOf
      <4>2. CASE t = u
        BY <2>1, <4>1, <4>2
      <4>3. CASE t # u
        BY <2>1, <4>1, <4>3
      <4>4. QED
        BY <4>2, <4>3
    <3>3. CASE ~Lifecycle!Start(u)
      <4>1. AttemptsOf' = AttemptsOf
        BY <3>1, <3>3 DEF Lifecycle!Submit, Lifecycle!SteerTask, Lifecycle!Report, Lifecycle!Lose
      <4>2. StatusOf'[t] \in {StatusOf[t], "pending", "paused", "completed", "failed", "cancelled"}
        BY <3>1, <3>3 DEF Lifecycle!Submit, Lifecycle!SteerTask, Lifecycle!Report, Lifecycle!Lose,
                          StatusOf
      <4>3. QED
        BY <2>1, <4>1, <4>2
    <3>4. QED
      BY <3>2, <3>3
  <2>4. QED
    BY <2>2, <2>3, LifecycleStep
<1>2. QED
  BY <1>1, Invariant, PTL DEF Spec, ClaimsArePending
=============================================================================
