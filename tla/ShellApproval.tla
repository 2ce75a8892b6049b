---------------------------- MODULE ShellApproval ----------------------------
(***************************************************************************)
(* Shell commands and their approvals: ShellCommandTool of                 *)
(* tools/shell_command.py with /approve of gateways/service.py.            *)
(* submit_command classifies a command and refuses it, runs it, or leaves  *)
(* it in tool_calls with a request for approval.                           *)
(* execute_approved_tool_call takes it up again: it reads the row, checks, *)
(* and writes, in a transaction without a row lock, so several callers may *)
(* do so at once.  A caller may die, or be left by an exception, between   *)
(* any two steps.                                                          *)
(***************************************************************************)
EXTENDS Integers

CONSTANTS
  Call,       \* rows of tool_calls that may come to exist
  Caller,     \* coroutines that call the tool
  MaxStarts,  \* bound: a call that was started this often is not taken up again
  None

\* What the risk rules say of a command: run it, ask first, or never run it.
Grade == {"safe", "risky", "blocked"}

Open   == {"blocked", "pending_approval"}      \* statuses that may be executed
Ended  == {"completed", "failed", "timed_out"}
Status == Open \cup Ended \cup {"running"}

ASSUME ShellAssumption ==
  /\ MaxStarts \in Nat
  /\ None \notin Call

VARIABLES
  call,      \* tool_calls: the status, the command's grade, approved_by_user
  approval,  \* approvals: the status of the request of a call, or "none"
  caller,    \* per caller: where it is, its call, and what its session has read
  starts,    \* history: how many processes a call was given
  refused,   \* history: the call was refused because of its directory
  stale,     \* history: a decision was written over a status it was not based on
  lost       \* history: an executing caller died

vars == <<call, approval, caller, starts, refused, stale, lost>>

State == [
  pc      : {"idle", "deciding", "writing", "starting", "executing", "draining"},
  call    : Call \cup {None},
  seen    : Status,            \* the status its session has loaded
  known   : BOOLEAN,           \* approved_by_user as it was loaded
  verdict : Open \cup {"running"}]

NoCall == [status |-> "none", grade |-> "safe", held |-> FALSE, by_user |-> FALSE]
Row    == [status : Status \cup {"none"}, grade : Grade,
           held : BOOLEAN,     \* external: its descendants keep the pipes open
           by_user : BOOLEAN]

TypeOK ==
  /\ call \in [Call -> Row]
  /\ approval \in [Call -> {"none", "pending", "approved"}]
  /\ caller \in [Caller -> State]
  /\ starts \in [Call -> Nat]
  /\ refused \subseteq Call
  /\ stale \subseteq Call
  /\ lost \subseteq Call

Idle == [pc |-> "idle", call |-> None, seen |-> "blocked", known |-> FALSE,
         verdict |-> "blocked"]

Init ==
  /\ call = [c \in Call |-> NoCall]
  /\ approval = [c \in Call |-> "none"]
  /\ caller = [p \in Caller |-> Idle]
  /\ starts = [c \in Call |-> 0]
  /\ refused = {} /\ stale = {} /\ lost = {}

At(p, stage) == caller[p].pc = stage
Mine(p) == caller[p].call
Exists(c) == call[c].status # "none"

-----------------------------------------------------------------------------
(* submit_command: the row, and the approval if one is needed, are one     *)
(* commit.  Whether the directory exists is up to the file system.         *)

Insert(c, status, grade) ==
  /\ ~Exists(c)
  /\ \E held \in BOOLEAN :
       call' = [call EXCEPT ![c] = [status |-> status, grade |-> grade,
                                    held |-> held, by_user |-> FALSE]]

\* A rule blocks the command, or its directory is missing or out of bounds.
SubmitRefused(p, c) ==
  /\ At(p, "idle")
  /\ \E grade \in Grade, found \in BOOLEAN :
       /\ grade = "blocked" \/ ~found
       /\ Insert(c, "blocked", grade)
       /\ refused' = IF found THEN refused ELSE refused \cup {c}
  /\ UNCHANGED <<approval, caller, starts, stale, lost>>

SubmitHeld(p, c) ==
  /\ At(p, "idle")
  /\ Insert(c, "pending_approval", "risky")
  /\ approval' = [approval EXCEPT ![c] = "pending"]
  /\ UNCHANGED <<caller, starts, refused, stale, lost>>

SubmitSafe(p, c) ==
  /\ At(p, "idle")
  /\ Insert(c, "running", "safe")
  /\ caller' = [caller EXCEPT ![p] = [Idle EXCEPT !.pc = "starting", !.call = c]]
  /\ UNCHANGED <<approval, starts, refused, stale, lost>>

\* /approve: whatever the status of the request or of the call.
Approve(c) ==
  /\ approval[c] # "none"
  /\ approval' = [approval EXCEPT ![c] = "approved"]
  /\ call' = [call EXCEPT ![c].by_user = TRUE]
  /\ UNCHANGED <<caller, starts, refused, stale, lost>>

-----------------------------------------------------------------------------
(* execute_approved_tool_call.                                             *)

LoadAgain(p, c) ==   \* mutant: a call that has ended may be tried again
  /\ At(p, "idle")
  /\ call[c].status \in Open \cup Ended
  /\ starts[c] < MaxStarts
  /\ caller' = [caller EXCEPT ![p] = [Idle EXCEPT !.pc = "deciding", !.call = c,
                                        !.seen = call[c].status, !.known = call[c].by_user]]
  /\ UNCHANGED <<call, approval, starts, refused, stale, lost>>

\* The row is read; one that is running or has ended is returned as it is.
Load(p, c) ==
  /\ At(p, "idle")
  /\ call[c].status \in Open
  /\ starts[c] < MaxStarts
  /\ caller' = [caller EXCEPT ![p] = [Idle EXCEPT !.pc = "deciding", !.call = c,
                                        !.seen = call[c].status, !.known = call[c].by_user]]
  /\ UNCHANGED <<call, approval, starts, refused, stale, lost>>

\* approved_by_user was loaded with the row, the approval is read now.
Approved(p) == caller[p].known \/ approval[Mine(p)] = "approved"

AllowsUnlessBlocked(p) ==   \* mutant: a row that waited for an approval has it
  call[Mine(p)].grade = "safe" \/ (call[Mine(p)].grade = "risky" /\ caller[p].seen = "pending_approval")

Allows(p) == call[Mine(p)].grade = "safe" \/ (call[Mine(p)].grade = "risky" /\ Approved(p))

\* The command is classified again, and its directory looked up again.
Verdict(p, found) ==
  IF ~found \/ call[Mine(p)].grade = "blocked" THEN "blocked"
  ELSE IF Allows(p) THEN "running" ELSE "pending_approval"

Decide(p) ==
  /\ At(p, "deciding")
  /\ \E found \in BOOLEAN :
       caller' = [caller EXCEPT ![p].pc = "writing", ![p].verdict = Verdict(p, found)]
  /\ UNCHANGED <<call, approval, starts, refused, stale, lost>>

\* A status that equals the loaded one is no change, and is not written.
Net(p, c, status) == IF caller[p].seen = status THEN call[c].status ELSE status

\* The decision is committed, without a look at the status the row has by now.
Write(p) ==
  /\ At(p, "writing")
  /\ call' = [call EXCEPT ![Mine(p)].status = Net(p, Mine(p), caller[p].verdict)]
  /\ stale' = IF caller[p].seen \in {caller[p].verdict, call[Mine(p)].status}
              THEN stale ELSE stale \cup {Mine(p)}
  /\ caller' = [caller EXCEPT ![p] =
       IF caller[p].verdict = "running" THEN [caller[p] EXCEPT !.pc = "starting"] ELSE Idle]
  /\ UNCHANGED <<approval, starts, refused, lost>>

-----------------------------------------------------------------------------
(* _execute_tool_call.                                                     *)

\* Another session loads the row and the process is created.
Start(p) ==
  /\ At(p, "starting")
  /\ caller' = [caller EXCEPT ![p].pc = "executing", ![p].seen = call[Mine(p)].status]
  /\ starts' = [starts EXCEPT ![Mine(p)] = @ + 1]
  /\ UNCHANGED <<call, approval, refused, stale, lost>>

Conclude(p, status) ==
  /\ call' = [call EXCEPT ![Mine(p)].status = Net(p, Mine(p), status)]
  /\ caller' = [caller EXCEPT ![p] = Idle]
  /\ UNCHANGED <<approval, starts, refused, stale, lost>>

\* communicate() ends when the process has, and nobody holds its pipes.
Finish(p) ==
  /\ At(p, "executing")
  /\ ~call[Mine(p)].held
  /\ \E status \in {"completed", "failed"} : Conclude(p, status)

TimeOutQuietly(p) ==   \* mutant: the timeout is raised to the caller
  /\ At(p, "executing")
  /\ caller' = [caller EXCEPT ![p] = Idle]
  /\ UNCHANGED <<call, approval, starts, refused, stale, lost>>

\* The shell is killed; then its output is read to the end.
TimeOut(p) ==
  /\ At(p, "executing")
  /\ caller' = [caller EXCEPT ![p].pc = "draining"]
  /\ UNCHANGED <<call, approval, starts, refused, stale, lost>>

Drain(p) ==
  /\ At(p, "draining")
  /\ ~call[Mine(p)].held
  /\ Conclude(p, "timed_out")

\* A crash of the process, or an exception such as that of create_subprocess_shell.
Die(p) ==
  /\ ~At(p, "idle")
  /\ lost' = IF caller[p].pc \in {"starting", "executing", "draining"}
             THEN lost \cup {Mine(p)} ELSE lost
  /\ caller' = [caller EXCEPT ![p] = Idle]
  /\ UNCHANGED <<call, approval, starts, refused, stale>>

Step(p) == Decide(p) \/ Write(p) \/ Start(p) \/ Finish(p) \/ TimeOut(p) \/ Drain(p)

Next ==
  \/ \E p \in Caller : Step(p) \/ Die(p)
  \/ \E p \in Caller, c \in Call :
       SubmitRefused(p, c) \/ SubmitHeld(p, c) \/ SubmitSafe(p, c) \/ Load(p, c)
  \/ \E c \in Call : Approve(c)

Spec == Init /\ [][Next]_vars

\* A coroutine that is not dead goes on; nobody has to call the tool.
FairSpec == Spec /\ \A p \in Caller : WF_vars(Step(p))

-----------------------------------------------------------------------------
(* Properties.                                                             *)

\* A process is created for a blocked command never, and for a risky one only
\* when its own request was approved, however often, and by how many callers, it is
\* taken up (_is_tool_call_approved).
RiskyRunsApproved ==
  \A c \in Call : starts[c] > 0 =>
    \/ call[c].grade = "safe"
    \/ call[c].grade = "risky" /\ approval[c] = "approved"

\* A command is run once, and an executable row was never run, unless somebody's
\* decision was written over a status it had not seen: without a row lock that is
\* possible, and is the only way (execute_approved_tool_call).
RunsOnce ==
  \A c \in Call \ stale : starts[c] <= 1 /\ (call[c].status \in Open => starts[c] = 0)

\* A call that is running has somebody who will conclude it, or had somebody who
\* died: overlapping callers never leave it running to nobody.
RunningIsExecuted ==
  \A c \in Call : call[c].status = "running" =>
    \/ \E p \in Caller : Mine(p) = c /\ caller[p].pc \in {"starting", "executing", "draining"}
    \/ c \in lost

\* A call that waits for an approval can be approved: it has its request, unless it was
\* refused for its directory and then found to be risky by execute_approved_tool_call.
HeldIsAskedFor ==
  \A c \in Call : call[c].status = "pending_approval" => approval[c] # "none" \/ c \in refused

\* A running call is concluded, by its timeout at the latest, unless its executor died
\* or its descendants keep the output open after the shell was killed.
ExecutionEnds ==
  \A c \in Call : call[c].status = "running" ~>
    call[c].status # "running" \/ c \in lost \/ call[c].held
=============================================================================
