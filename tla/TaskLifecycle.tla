--------------------------- MODULE TaskLifecycle ---------------------------
(***************************************************************************)
(* What a client of the task queue may rely on, without rows, locks,       *)
(* sessions or workers: each task has a status, and the numbers of the     *)
(* attempts that are still being executed.  A claim opens the next attempt *)
(* of a pending task; an open attempt reports once, or is lost; a user may *)
(* steer a task whatever its status is.  An outcome is therefore never     *)
(* recorded for a task nobody was working on, and an attempt never reports *)
(* twice.                                                                  *)
(***************************************************************************)
EXTENDS Naturals

CONSTANT Task

VARIABLES
  status,    \* status of each task, "absent" before it is created
  attempts,  \* how many attempts each task has had
  open       \* the attempts of each task still being executed

lifecycleVars == <<status, attempts, open>>

Init ==
  /\ status = [t \in Task |-> "absent"]
  /\ attempts = [t \in Task |-> 0]
  /\ open = [t \in Task |-> {}]

Submit(t) ==
  /\ status[t] = "absent"
  /\ \E s \in {"pending", "paused"} : status' = [status EXCEPT ![t] = s]
  /\ UNCHANGED <<attempts, open>>

Start(t) ==
  /\ status[t] = "pending"
  /\ status' = [status EXCEPT ![t] = "running"]
  /\ attempts' = [attempts EXCEPT ![t] = @ + 1]
  /\ open' = [open EXCEPT ![t] = @ \cup {attempts[t] + 1}]

Report(t, a) ==
  /\ a \in open[t]
  /\ \E s \in {"completed", "failed", "paused"} : status' = [status EXCEPT ![t] = s]
  /\ open' = [open EXCEPT ![t] = @ \ {a}]
  /\ UNCHANGED attempts

Lose(t, a) ==
  /\ a \in open[t]
  /\ open' = [open EXCEPT ![t] = @ \ {a}]
  /\ UNCHANGED <<status, attempts>>

SteerTask(t) ==
  /\ status[t] # "absent"
  /\ \E s \in {"pending", "paused", "cancelled"} : status' = [status EXCEPT ![t] = s]
  /\ UNCHANGED <<attempts, open>>

Next ==
  \E t \in Task :
    \/ Submit(t)
    \/ Start(t)
    \/ SteerTask(t)
    \/ \E a \in open[t] : Report(t, a) \/ Lose(t, a)

Spec == Init /\ [][Next]_lifecycleVars
=============================================================================
