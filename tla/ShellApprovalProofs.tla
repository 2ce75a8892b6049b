------------------------ MODULE ShellApprovalProofs ------------------------
(***************************************************************************)
(* Theorems about ShellApproval for any number of calls and of callers     *)
(* that take them up at the same time.                                     *)
(***************************************************************************)
EXTENDS ShellApproval, TLAPS

Runs(p) == caller[p].pc \in {"starting", "executing", "draining"}

\* The grade and the approval allow a process.  Neither is ever taken back.
Permitted(c) ==
  \/ call[c].grade = "safe"
  \/ call[c].grade = "risky" /\ approval[c] = "approved"

\* What a caller has read and decided.
CallerInv(p) == ~At(p, "idle") =>
  /\ Mine(p) \in Call
  /\ Exists(Mine(p))
  /\ caller[p].pc \in {"deciding", "writing"} => caller[p].seen \in Open
  /\ caller[p].known => approval[Mine(p)] = "approved"
  /\ At(p, "writing") /\ caller[p].verdict = "running" => Permitted(Mine(p))
  /\ At(p, "writing") /\ caller[p].verdict = "pending_approval" =>
       call[Mine(p)].grade = "risky"
  /\ Runs(p) => Permitted(Mine(p))

\* What the row of a call, its approval and its processes have to do with each other.
RowInv(c) ==
  /\ ~Exists(c) => starts[c] = 0 /\ approval[c] = "none"
  /\ call[c].by_user => approval[c] = "approved"
  /\ starts[c] > 0 => Permitted(c)
  /\ call[c].status = "pending_approval" => call[c].grade = "risky"
  /\ Exists(c) /\ call[c].grade = "risky" => approval[c] # "none" \/ c \in refused

\* Unless a decision was made over a status it had not seen, there is one executor.
OneExecutor(c) == c \notin stale =>
  /\ starts[c] <= 1
  /\ call[c].status \in Open => starts[c] = 0
  /\ \A p \in Caller : Runs(p) /\ Mine(p) = c =>
       /\ call[c].status = "running"
       /\ At(p, "starting") => starts[c] = 0
       /\ \A q \in Caller : Runs(q) /\ Mine(q) = c => q = p

\* Somebody will write the end of a running call, for he has seen it running.
Executed(c) == call[c].status = "running" =>
  \/ \E p \in Caller : /\ Mine(p) = c
                       /\ Runs(p)
                       /\ ~At(p, "starting") => caller[p].seen = "running"
  \/ c \in lost

IInv ==
  /\ TypeOK
  /\ \A p \in Caller : CallerInv(p)
  /\ \A c \in Call : RowInv(c) /\ OneExecutor(c) /\ Executed(c)

THEOREM Initially == Init => IInv
<1> SUFFICES ASSUME Init PROVE IInv
  OBVIOUS
<1>1. Idle \in State
  BY DEF Idle, State, Open, Ended, Status
<1>2. TypeOK
  BY <1>1 DEF Init, TypeOK, NoCall, Row, Grade
<1>3. \A p \in Caller : CallerInv(p)
  BY DEF Init, CallerInv, At, Idle
<1>4. ASSUME NEW c \in Call PROVE RowInv(c) /\ OneExecutor(c) /\ Executed(c)
  <2>1. /\ call[c] = NoCall /\ approval[c] = "none" /\ starts[c] = 0
    BY DEF Init
  <2>2. call[c].status = "none" /\ call[c].grade = "safe"
    BY <2>1 DEF NoCall
  <2>3. \A p \in Caller : ~Runs(p)
    BY DEF Init, Runs, Idle
  <2>4. call[c].by_user = FALSE
    BY <2>1 DEF NoCall
  <2>5. RowInv(c)
    BY <2>1, <2>2, <2>4 DEF RowInv, Exists
  <2>6. OneExecutor(c)
    BY <2>1, <2>2, <2>3 DEF OneExecutor, Open
  <2> QED
    BY <2>2, <2>5, <2>6 DEF Executed
<1> QED
  BY <1>2, <1>3, <1>4 DEF IInv

-----------------------------------------------------------------------------
(* Every action preserves the invariant.                                   *)

LEMMA SubmitRefusedStep ==
  ASSUME IInv, NEW p \in Caller, NEW c \in Call, SubmitRefused(p, c)
  PROVE  IInv'
<1>1. TypeOK'
  BY DEF SubmitRefused, Insert, IInv, CallerInv, TypeOK, State, Row, Grade, Status, Open, Ended, At, Mine, Exists
<1>2. ASSUME NEW q \in Caller PROVE CallerInv(q)'
  BY DEF SubmitRefused, Insert, IInv, CallerInv, RowInv, TypeOK, State, Row, At, Mine, Exists, Permitted, Runs
<1>3. ASSUME NEW d \in Call PROVE RowInv(d)'
  BY DEF SubmitRefused, Insert, IInv, CallerInv, RowInv, TypeOK, State, Row, At, Mine, Exists, Permitted, Runs
<1>4. ASSUME NEW d \in Call PROVE OneExecutor(d)'
  BY DEF SubmitRefused, Insert, IInv, CallerInv, OneExecutor, RowInv, TypeOK, State, Row, Open, Ended, At, Mine, Exists, Runs
<1>5. ASSUME NEW d \in Call PROVE Executed(d)'
  BY DEF SubmitRefused, Insert, IInv, CallerInv, Executed, TypeOK, State, Row, Open, Ended, At, Mine, Exists, Runs
<1> QED
  BY <1>1, <1>2, <1>3, <1>4, <1>5 DEF IInv

LEMMA SubmitHeldStep ==
  ASSUME IInv, NEW p \in Caller, NEW c \in Call, SubmitHeld(p, c)
  PROVE  IInv'
<1>1. TypeOK'
  BY DEF SubmitHeld, Insert, IInv, CallerInv, TypeOK, State, Row, Grade, Status, Open, Ended, At, Mine, Exists
<1>2. ASSUME NEW q \in Caller PROVE CallerInv(q)'
  BY DEF SubmitHeld, Insert, IInv, CallerInv, RowInv, TypeOK, State, Row, At, Mine, Exists, Permitted, Runs
<1>3. ASSUME NEW d \in Call PROVE RowInv(d)'
  BY DEF SubmitHeld, Insert, IInv, CallerInv, RowInv, TypeOK, State, Row, At, Mine, Exists, Permitted, Runs
<1>4. ASSUME NEW d \in Call PROVE OneExecutor(d)'
  BY DEF SubmitHeld, Insert, IInv, CallerInv, OneExecutor, RowInv, TypeOK, State, Row, Open, Ended, At, Mine, Exists, Runs
<1>5. ASSUME NEW d \in Call PROVE Executed(d)'
  BY DEF SubmitHeld, Insert, IInv, CallerInv, Executed, TypeOK, State, Row, Open, Ended, At, Mine, Exists, Runs
<1> QED
  BY <1>1, <1>2, <1>3, <1>4, <1>5 DEF IInv

LEMMA SubmitSafeStep ==
  ASSUME IInv, NEW p \in Caller, NEW c \in Call, SubmitSafe(p, c)
  PROVE  IInv'
<1>1. TypeOK'
  <2> DEFINE t == [Idle EXCEPT !.pc = "starting", !.call = c]
  <2>1. t \in State
    BY DEF Idle, State, Open, Ended, Status
  <2>2. caller' = [caller EXCEPT ![p] = t] /\ caller \in [Caller -> State]
    BY DEF SubmitSafe, IInv, TypeOK
  <2> HIDE DEF t
  <2>3. caller' \in [Caller -> State]
    BY <2>1, <2>2
  <2>4. call' \in [Call -> Row]
    BY DEF SubmitSafe, Insert, IInv, TypeOK, Row, Grade, Status
  <2> QED
    BY <2>3, <2>4 DEF SubmitSafe, IInv, TypeOK
<1>2. ASSUME NEW q \in Caller PROVE CallerInv(q)'
  BY DEF SubmitSafe, Insert, Idle, IInv, CallerInv, RowInv, TypeOK, State, Row, At, Mine, Exists, Permitted, Runs
<1>3. ASSUME NEW d \in Call PROVE RowInv(d)'
  BY DEF SubmitSafe, Insert, Idle, IInv, CallerInv, RowInv, TypeOK, State, Row, At, Mine, Exists, Permitted, Runs
<1>4. ASSUME NEW d \in Call PROVE OneExecutor(d)'
  BY DEF SubmitSafe, Insert, Idle, IInv, CallerInv, OneExecutor, RowInv, TypeOK, State, Row, Open, Ended, At, Mine, Exists, Runs
<1>5. ASSUME NEW d \in Call PROVE Executed(d)'
  BY DEF SubmitSafe, Insert, Idle, IInv, CallerInv, Executed, TypeOK, State, Row, Open, Ended, At, Mine, Exists, Runs
<1> QED
  BY <1>1, <1>2, <1>3, <1>4, <1>5 DEF IInv

LEMMA ApproveStep ==
  ASSUME IInv, NEW c \in Call, Approve(c)
  PROVE  IInv'
<1>1. TypeOK'
  <2> DEFINE r == [call[c] EXCEPT !.by_user = TRUE]
  <2>1. r \in Row
    BY DEF IInv, TypeOK, Row
  <2>2. call' = [call EXCEPT ![c] = r] /\ call \in [Call -> Row]
    BY DEF Approve, IInv, TypeOK
  <2> HIDE DEF r
  <2>3. call' \in [Call -> Row]
    BY <2>1, <2>2
  <2> QED
    BY <2>3 DEF Approve, IInv, TypeOK
<1>2. ASSUME NEW q \in Caller PROVE CallerInv(q)'
  BY DEF Approve, IInv, CallerInv, RowInv, TypeOK, State, Row, At, Mine, Exists, Permitted, Runs
<1>3. ASSUME NEW d \in Call PROVE RowInv(d)'
  BY DEF Approve, IInv, CallerInv, RowInv, TypeOK, State, Row, At, Mine, Exists, Permitted, Runs
<1>4. ASSUME NEW d \in Call PROVE OneExecutor(d)'
  BY DEF Approve, IInv, CallerInv, OneExecutor, RowInv, TypeOK, State, Row, Open, Ended, At, Mine, Exists, Runs
<1>5. ASSUME NEW d \in Call PROVE Executed(d)'
  BY DEF Approve, IInv, CallerInv, Executed, TypeOK, State, Row, Open, Ended, At, Mine, Exists, Runs
<1> QED
  BY <1>1, <1>2, <1>3, <1>4, <1>5 DEF IInv

LEMMA LoadStep ==
  ASSUME IInv, NEW p \in Caller, NEW c \in Call, Load(p, c)
  PROVE  IInv'
<1>1. TypeOK'
  BY DEF Load, Idle, IInv, CallerInv, TypeOK, State, Row, Grade, Status, Open, Ended, At, Mine, Exists
<1>2. ASSUME NEW q \in Caller PROVE CallerInv(q)'
  <2> DEFINE t == [Idle EXCEPT !.pc = "deciding", !.call = c, !.seen = call[c].status,
                               !.known = call[c].by_user]
  <2>1. caller' = [caller EXCEPT ![p] = t] /\ caller \in [Caller -> State]
    BY DEF Load, IInv, TypeOK
  <2>2. /\ t.pc = "deciding" /\ t.call = c /\ t.seen = call[c].status
        /\ t.known = call[c].by_user
    BY DEF Idle
  <2> HIDE DEF t
  <2>3. CASE q # p
    BY <2>1, <2>3 DEF Load, IInv, CallerInv, At, Mine, Exists, Permitted, Runs
  <2>4. CASE q = p
    <3>1. caller'[p] = t
      BY <2>1
    <3>2. call[c].status \in Open /\ Exists(c)
      BY DEF Load, Exists, Open
    <3>3. t.known => approval[c] = "approved"
      BY <2>2 DEF IInv, RowInv
    <3> QED
      BY <2>2, <2>4, <3>1, <3>2, <3>3 DEF Load, CallerInv, At, Mine, Exists, Permitted, Runs
  <2> QED
    BY <2>3, <2>4
<1>3. ASSUME NEW d \in Call PROVE RowInv(d)'
  BY DEF Load, Idle, IInv, CallerInv, RowInv, TypeOK, State, Row, At, Mine, Exists, Permitted, Runs
<1>4. ASSUME NEW d \in Call PROVE OneExecutor(d)'
  BY DEF Load, Idle, IInv, CallerInv, OneExecutor, RowInv, TypeOK, State, Row, Open, Ended, At, Mine, Exists, Runs
<1>5. ASSUME NEW d \in Call PROVE Executed(d)'
  BY DEF Load, Idle, IInv, CallerInv, Executed, TypeOK, State, Row, Open, Ended, At, Mine, Exists, Runs
<1> QED
  BY <1>1, <1>2, <1>3, <1>4, <1>5 DEF IInv

LEMMA DecideStep ==
  ASSUME IInv, NEW p \in Caller, Decide(p)
  PROVE  IInv'
<1>0. PICK found \in BOOLEAN :
         caller' = [caller EXCEPT ![p].pc = "writing", ![p].verdict = Verdict(p, found)]
  BY DEF Decide
<1> DEFINE t == [caller[p] EXCEPT !.pc = "writing", !.verdict = Verdict(p, found)]
<1>a. /\ caller[p] \in State /\ caller \in [Caller -> State] /\ Mine(p) \in Call
      /\ caller[p].pc = "deciding"
  BY DEF Decide, IInv, CallerInv, TypeOK, At
<1>b. t \in State
  BY <1>a DEF State, Verdict, Open
<1>c. /\ t.pc = "writing" /\ t.verdict = Verdict(p, found) /\ t.call = Mine(p)
      /\ t.seen = caller[p].seen /\ t.known = caller[p].known
  BY <1>a DEF State, Mine
<1>d. caller' = [caller EXCEPT ![p] = t]
  BY <1>0
<1> HIDE DEF t
<1>1. TypeOK'
  BY <1>a, <1>b, <1>d DEF Decide, IInv, TypeOK
<1>2. ASSUME NEW q \in Caller PROVE CallerInv(q)'
  <2>1. CASE q # p
    BY <1>a, <1>d, <2>1 DEF Decide, IInv, CallerInv, At, Mine, Exists, Permitted, Runs
  <2>2. CASE q = p
    <3>1. caller'[p] = t
      BY <1>a, <1>d
    <3>2. /\ Exists(Mine(p)) /\ caller[p].seen \in Open
          /\ caller[p].known => approval[Mine(p)] = "approved"
      BY <1>a DEF IInv, CallerInv, At
    <3>3. Verdict(p, found) = "running" => Permitted(Mine(p))
      BY <3>2 DEF Verdict, Allows, Approved, Permitted
    <3>4. Verdict(p, found) = "pending_approval" => call[Mine(p)].grade = "risky"
      BY <1>a DEF Verdict, Allows, IInv, TypeOK, Row, Grade
    <3> QED
      BY <1>a, <1>c, <2>2, <3>1, <3>2, <3>3, <3>4
      DEF Decide, CallerInv, At, Mine, Exists, Permitted, Runs
  <2> QED
    BY <2>1, <2>2
<1>3. ASSUME NEW d \in Call PROVE RowInv(d)'
  BY <1>a, <1>c, <1>d DEF Decide, IInv, CallerInv, RowInv, TypeOK, State, Row, At, Mine, Exists, Permitted, Runs
<1>4. ASSUME NEW d \in Call PROVE OneExecutor(d)'
  BY <1>a, <1>c, <1>d DEF Decide, IInv, CallerInv, OneExecutor, RowInv, TypeOK, State, Row, Open, Ended, At, Mine, Exists, Runs
<1>5. ASSUME NEW d \in Call PROVE Executed(d)'
  BY <1>a, <1>c, <1>d DEF Decide, IInv, CallerInv, Executed, TypeOK, State, Row, Open, Ended, At, Mine, Exists, Runs
<1> QED
  BY <1>1, <1>2, <1>3, <1>4, <1>5 DEF IInv

LEMMA WriteStep ==
  ASSUME IInv, NEW p \in Caller, Write(p)
  PROVE  IInv'
<1>1. TypeOK'
  BY DEF Write, Net, Idle, IInv, CallerInv, TypeOK, State, Row, Grade, Status, Open, Ended, At, Mine, Exists
<1>a. /\ Mine(p) \in Call /\ Exists(Mine(p)) /\ caller[p] \in State
      /\ caller[p].verdict = "running" => Permitted(Mine(p))
      /\ caller[p].verdict = "pending_approval" => call[Mine(p)].grade = "risky"
      /\ caller[p].known => approval[Mine(p)] = "approved"
      /\ caller[p].pc = "writing"
  BY DEF Write, IInv, TypeOK, CallerInv, At
<1>b. /\ call'[Mine(p)].status \in {call[Mine(p)].status, caller[p].verdict}
      /\ call'[Mine(p)].grade = call[Mine(p)].grade
      /\ call'[Mine(p)].by_user = call[Mine(p)].by_user
      /\ \A d \in Call \ {Mine(p)} : call'[d] = call[d]
      /\ UNCHANGED <<approval, starts, refused>>
  BY <1>a DEF Write, Net, IInv, TypeOK, Row
<1>c. \A d \in Call : (Exists(d) => Exists(d)') /\ (Permitted(d) => Permitted(d)')
  BY <1>a, <1>b DEF Exists, Permitted, State, Open
<1>2. ASSUME NEW q \in Caller PROVE CallerInv(q)'
  <2>1. CASE q # p
    <3>1. caller'[q] = caller[q]
      BY <2>1 DEF Write
    <3>2. CallerInv(q)
      BY DEF IInv
    <3>3. \A d \in Call : call'[d].grade = call[d].grade
      BY <1>b
    <3> QED
      BY <1>b, <1>c, <3>1, <3>2, <3>3 DEF CallerInv, At, Mine, Runs
  <2>2. CASE q = p
    <3>1. CASE caller[p].verdict = "running"
      <4>1. caller'[p] = [caller[p] EXCEPT !.pc = "starting"]
        BY <3>1 DEF Write, IInv, TypeOK
      <4>2. /\ caller'[p].pc = "starting" /\ caller'[p].call = caller[p].call
            /\ caller'[p].known = caller[p].known
        BY <1>a, <4>1 DEF State
      <4> QED
        BY <1>a, <1>b, <1>c, <2>2, <3>1, <4>2 DEF CallerInv, At, Mine, Runs
    <3>2. CASE caller[p].verdict # "running"
      <4>1. caller'[p] = Idle
        BY <3>2 DEF Write, IInv, TypeOK
      <4> QED
        BY <2>2, <4>1 DEF CallerInv, At, Idle
    <3> QED
      BY <3>1, <3>2
  <2> QED
    BY <2>1, <2>2
<1>3. ASSUME NEW d \in Call PROVE RowInv(d)'
  <2>1. RowInv(d)
    BY DEF IInv
  <2>2. CASE d # Mine(p)
    BY <1>b, <2>1, <2>2 DEF RowInv, Exists, Permitted
  <2>3. CASE d = Mine(p)
    <3>1. call'[d].by_user => approval'[d] = "approved"
      BY <1>b, <2>1, <2>3 DEF RowInv
    <3>2. starts'[d] > 0 => Permitted(d)'
      BY <1>b, <1>c, <2>1, <2>3 DEF RowInv
    <3>3. call'[d].status = "pending_approval" => call'[d].grade = "risky"
      BY <1>a, <1>b, <2>1, <2>3 DEF RowInv
    <3> QED
      BY <1>a, <1>b, <1>c, <2>1, <2>3, <3>1, <3>2, <3>3 DEF RowInv, Exists
  <2> QED
    BY <2>2, <2>3
<1>4. ASSUME NEW d \in Call PROVE OneExecutor(d)'
  BY DEF Write, Net, Idle, IInv, CallerInv, OneExecutor, RowInv, TypeOK, State, Row, Open, Ended, At, Mine, Exists, Runs
<1>5. ASSUME NEW d \in Call PROVE Executed(d)'
  BY DEF Write, Net, Idle, IInv, CallerInv, Executed, TypeOK, State, Row, Open, Ended, At, Mine, Exists, Runs
<1> QED
  BY <1>1, <1>2, <1>3, <1>4, <1>5 DEF IInv

LEMMA StartStep ==
  ASSUME IInv, NEW p \in Caller, Start(p)
  PROVE  IInv'
<1>1. TypeOK'
  <2> DEFINE t == [caller[p] EXCEPT !.pc = "executing", !.seen = call[Mine(p)].status]
  <2>1. caller[p] \in State /\ Mine(p) \in Call /\ call[Mine(p)].status \in Status
    BY DEF Start, IInv, CallerInv, TypeOK, Row, At, Exists
  <2>2. t \in State
    BY <2>1 DEF State
  <2>3. caller' = [caller EXCEPT ![p] = t] /\ caller \in [Caller -> State]
    BY DEF Start, IInv, TypeOK
  <2> HIDE DEF t
  <2>4. caller' \in [Caller -> State]
    BY <2>2, <2>3
  <2> QED
    BY <2>1, <2>4 DEF Start, IInv, TypeOK
<1>2. ASSUME NEW q \in Caller PROVE CallerInv(q)'
  BY DEF Start, IInv, CallerInv, RowInv, TypeOK, State, Row, At, Mine, Exists, Permitted, Runs
<1>3. ASSUME NEW d \in Call PROVE RowInv(d)'
  BY DEF Start, IInv, CallerInv, RowInv, TypeOK, State, Row, At, Mine, Exists, Permitted, Runs
<1>4. ASSUME NEW d \in Call PROVE OneExecutor(d)'
  BY DEF Start, IInv, CallerInv, OneExecutor, RowInv, TypeOK, State, Row, Open, Ended, At, Mine, Exists, Runs
<1>5. ASSUME NEW d \in Call PROVE Executed(d)'
  BY DEF Start, IInv, CallerInv, Executed, TypeOK, State, Row, Open, Ended, At, Mine, Exists, Runs
<1> QED
  BY <1>1, <1>2, <1>3, <1>4, <1>5 DEF IInv

LEMMA FinishStep ==
  ASSUME IInv, NEW p \in Caller, Finish(p)
  PROVE  IInv'
<1>1. TypeOK'
  <2>1. PICK status \in {"completed", "failed"} : Conclude(p, status)
    BY DEF Finish
  <2>2. call[Mine(p)].status \in Status /\ Mine(p) \in Call
    BY DEF Finish, IInv, CallerInv, TypeOK, Row, At, Exists
  <2>3. Net(p, Mine(p), status) \in Status
    BY <2>2 DEF Net, Ended, Status
  <2>4. call' \in [Call -> Row]
    BY <2>1, <2>3 DEF Conclude, IInv, TypeOK, Row
  <2>5. Idle \in State
    BY DEF Idle, State, Open, Ended, Status
  <2> QED
    BY <2>1, <2>4, <2>5 DEF Conclude, IInv, TypeOK
<1>2. ASSUME NEW q \in Caller PROVE CallerInv(q)'
  BY DEF Finish, Conclude, Net, Idle, IInv, CallerInv, RowInv, TypeOK, State, Row, At, Mine, Exists, Permitted, Runs
<1>3. ASSUME NEW d \in Call PROVE RowInv(d)'
  BY DEF Finish, Conclude, Net, Idle, IInv, CallerInv, RowInv, TypeOK, State, Row, At, Mine, Exists, Permitted, Runs
<1>4. ASSUME NEW d \in Call PROVE OneExecutor(d)'
  BY DEF Finish, Conclude, Net, Idle, IInv, CallerInv, OneExecutor, RowInv, TypeOK, State, Row, Open, Ended, At, Mine, Exists, Runs
<1>5. ASSUME NEW d \in Call PROVE Executed(d)'
  BY DEF Finish, Conclude, Net, Idle, IInv, CallerInv, Executed, TypeOK, State, Row, Open, Ended, At, Mine, Exists, Runs
<1> QED
  BY <1>1, <1>2, <1>3, <1>4, <1>5 DEF IInv

LEMMA TimeOutStep ==
  ASSUME IInv, NEW p \in Caller, TimeOut(p)
  PROVE  IInv'
<1>1. TypeOK'
  BY DEF TimeOut, IInv, CallerInv, TypeOK, State, Row, Grade, Status, Open, Ended, At, Mine, Exists
<1>2. ASSUME NEW q \in Caller PROVE CallerInv(q)'
  BY DEF TimeOut, IInv, CallerInv, RowInv, TypeOK, State, Row, At, Mine, Exists, Permitted, Runs
<1>3. ASSUME NEW d \in Call PROVE RowInv(d)'
  BY DEF TimeOut, IInv, CallerInv, RowInv, TypeOK, State, Row, At, Mine, Exists, Permitted, Runs
<1>4. ASSUME NEW d \in Call PROVE OneExecutor(d)'
  BY DEF TimeOut, IInv, CallerInv, OneExecutor, RowInv, TypeOK, State, Row, Open, Ended, At, Mine, Exists, Runs
<1>5. ASSUME NEW d \in Call PROVE Executed(d)'
  BY DEF TimeOut, IInv, CallerInv, Executed, TypeOK, State, Row, Open, Ended, At, Mine, Exists, Runs
<1> QED
  BY <1>1, <1>2, <1>3, <1>4, <1>5 DEF IInv

LEMMA DrainStep ==
  ASSUME IInv, NEW p \in Caller, Drain(p)
  PROVE  IInv'
<1>1. TypeOK'
  BY DEF Drain, Conclude, Net, Idle, IInv, CallerInv, TypeOK, State, Row, Grade, Status, Open, Ended, At, Mine, Exists
<1>2. ASSUME NEW q \in Caller PROVE CallerInv(q)'
  BY DEF Drain, Conclude, Net, Idle, IInv, CallerInv, RowInv, TypeOK, State, Row, At, Mine, Exists, Permitted, Runs
<1>3. ASSUME NEW d \in Call PROVE RowInv(d)'
  BY DEF Drain, Conclude, Net, Idle, IInv, CallerInv, RowInv, TypeOK, State, Row, At, Mine, Exists, Permitted, Runs
<1>4. ASSUME NEW d \in Call PROVE OneExecutor(d)'
  BY DEF Drain, Conclude, Net, Idle, IInv, CallerInv, OneExecutor, RowInv, TypeOK, State, Row, Open, Ended, At, Mine, Exists, Runs
<1>5. ASSUME NEW d \in Call PROVE Executed(d)'
  BY DEF Drain, Conclude, Net, Idle, IInv, CallerInv, Executed, TypeOK, State, Row, Open, Ended, At, Mine, Exists, Runs
<1> QED
  BY <1>1, <1>2, <1>3, <1>4, <1>5 DEF IInv

LEMMA DieStep ==
  ASSUME IInv, NEW p \in Caller, Die(p)
  PROVE  IInv'
<1>1. TypeOK'
  BY DEF Die, Idle, IInv, CallerInv, TypeOK, State, Row, Grade, Status, Open, Ended, At, Mine, Exists
<1>2. ASSUME NEW q \in Caller PROVE CallerInv(q)'
  BY DEF Die, Idle, IInv, CallerInv, RowInv, TypeOK, State, Row, At, Mine, Exists, Permitted, Runs
<1>3. ASSUME NEW d \in Call PROVE RowInv(d)'
  BY DEF Die, Idle, IInv, CallerInv, RowInv, TypeOK, State, Row, At, Mine, Exists, Permitted, Runs
<1>4. ASSUME NEW d \in Call PROVE OneExecutor(d)'
  BY DEF Die, Idle, IInv, CallerInv, OneExecutor, RowInv, TypeOK, State, Row, Open, Ended, At, Mine, Exists, Runs
<1>5. ASSUME NEW d \in Call PROVE Executed(d)'
  BY DEF Die, Idle, IInv, CallerInv, Executed, TypeOK, State, Row, Open, Ended, At, Mine, Exists, Runs
<1> QED
  BY <1>1, <1>2, <1>3, <1>4, <1>5 DEF IInv

-----------------------------------------------------------------------------

THEOREM Inductive == Spec => []IInv
<1>1. ASSUME IInv, [Next]_vars PROVE IInv'
  <2>1. CASE \E p \in Caller : Step(p) \/ Die(p)
    BY <1>1, <2>1, DecideStep, WriteStep, StartStep, FinishStep, TimeOutStep, DrainStep,
       DieStep DEF Step
  <2>2. CASE \E p \in Caller, c \in Call :
               SubmitRefused(p, c) \/ SubmitHeld(p, c) \/ SubmitSafe(p, c) \/ Load(p, c)
    BY <1>1, <2>2, SubmitRefusedStep, SubmitHeldStep, SubmitSafeStep, LoadStep
  <2>3. CASE \E c \in Call : Approve(c)
    BY <1>1, <2>3, ApproveStep
  <2>4. CASE UNCHANGED vars
    BY <1>1, <2>4 DEF vars, IInv, TypeOK, CallerInv, RowInv, OneExecutor, Executed, At, Mine,
       Exists, Runs, Permitted
  <2> QED
    BY <1>1, <2>1, <2>2, <2>3, <2>4 DEF Next
<1> QED
  BY <1>1, Initially, PTL DEF Spec

\* The rows, the approvals and the callers keep their types.
THEOREM TypeCorrect == Spec => []TypeOK
<1>1. IInv => TypeOK
  BY DEF IInv
<1> QED
  BY <1>1, Inductive, PTL

\* However many callers take up a call, no process is created for a blocked command,
\* and none for a risky one before its approval.
THEOREM RiskyApproved == Spec => []RiskyRunsApproved
<1>1. IInv => RiskyRunsApproved
  BY DEF IInv, RowInv, Permitted, RiskyRunsApproved
<1> QED
  BY <1>1, Inductive, PTL

\* A command runs a second time only after a decision was written over a status that
\* it was not based on.
THEOREM Once == Spec => []RunsOnce
<1>1. IInv => RunsOnce
  BY DEF IInv, OneExecutor, RunsOnce
<1> QED
  BY <1>1, Inductive, PTL

\* A running call has an executor, or had one that died.
THEOREM Running == Spec => []RunningIsExecuted
<1>1. IInv => RunningIsExecuted
  BY DEF IInv, Executed, Runs, RunningIsExecuted
<1> QED
  BY <1>1, Inductive, PTL

\* A call that waits for an approval has a request for one, unless it was refused
\* for its directory first.
THEOREM Held == Spec => []HeldIsAskedFor
<1>1. IInv => HeldIsAskedFor
  BY DEF IInv, RowInv, Exists, HeldIsAskedFor
<1> QED
  BY <1>1, Inductive, PTL

=============================================================================
