--------------------------- MODULE AgentRunProofs ---------------------------
(***************************************************************************)
(* Proofs about AgentRun, for any number of attempts and any plans, and    *)
(* about TaskAttempts, the attempts with the queue that hands them out.    *)
(*                                                                         *)
(* The rows of task_steps name the attempt that inserted them.  An attempt *)
(* with a plan of its own is that attempt (Owns), so there is only one, and *)
(* the work still ahead of it has not been begun by anyone (Ahead).  Where *)
(* attempts do not overlap, the newest TaskRun and the copy of the metadata *)
(* an attempt works with are its own (Serial).                             *)
(*                                                                         *)
(* The last part is about HermesLoop, the conversation inside execute_step. *)
(***************************************************************************)
EXTENDS TaskAttempts, HermesLoop, SequenceTheorems, TLAPS

Early == {"idle", "claimed", "routing", "opened", "loaded", "planning"}
Busy == {"executing", "working", "recording", "finalizing"}
Late == {"saving", "closing", "committing", "learning"}

HasVerdict(a) == att[a].pc \in Late \/ att[a].outcome \in Verdict

\* What the stage of an attempt says about its own state.
Shape(a) ==
  /\ att[a].pc = "idle" <=> a > claimed
  /\ att[a].pc \in Early => att[a].plan = <<>> /\ att[a].pos = 1
  /\ att[a].outcome # "none" <=> att[a].pc = "ended"
  /\ att[a].outcome \in Verdict => att[a].row = att[a].outcome /\ att[a].verdict = att[a].outcome
  /\ att[a].pc = "learning" => att[a].row = att[a].verdict

ShapeOfMode(a) ==
  /\ mode = "hermes" =>
       /\ att[a].pc \in Busy \/ HasVerdict(a) => att[a].plan = <<"loop">>
       /\ att[a].pos = 1
  /\ mode = "legacy" => att[a].plan \in Seq(StepKind)
  /\ mode = "harness" => att[a].plan = <<>> /\ att[a].pc \notin Busy \cup {"loaded", "planning"}
  /\ att[a].pc = "finalizing" => mode = "hermes" /\ att[a].verdict # "paused"

\* The steps of the task are those of the attempt that has a plan.
Owns(a) ==
  att[a].plan # <<>> =>
    Len(steps) = Len(att[a].plan) /\ \A i \in 1..Len(steps) : steps[i].by = a

Ahead(a) ==
  att[a].plan # <<>> =>
    \A i \in 1..Len(work) :
      i > att[a].pos \/ (i = att[a].pos /\ att[a].pc = "executing") => work[i] = 0

\* The verdict of a conversation is on its step before it is anywhere else.
Written(a) ==
  mode = "hermes" /\ HasVerdict(a) => steps = <<[status |-> att[a].verdict, by |-> a]>>

Lengths == Len(work) = Len(steps)

Core ==
  /\ TypeOK
  /\ Lengths
  /\ WorkOnce
  /\ \A a \in Attempt : Shape(a) /\ ShapeOfMode(a) /\ Owns(a) /\ Ahead(a) /\ Written(a)

\* As long as attempts do not overlap, the one alive is the newest, and what it
\* has looked up is its own or current.
Serial ==
  ~overlap =>
    \A a \in Attempt :
      /\ Alive(a) => a = claimed
      /\ att[a].link \in {0, a} /\ att[a].load \in {0, a} /\ context[a] \in {0, a}
      /\ att[a].pc \in {"routing", "committing"} => att[a].seen = meta

Found ==
  \A a \in Attempt :
    /\ att[a].link = 0 \/ (a <= att[a].link /\ att[a].link <= claimed)
    /\ att[a].load = 0 \/ (a <= att[a].load /\ att[a].load <= claimed)
    /\ att[a].row # "none" => a <= claimed
    /\ Alive(a) => (att[a].row = "none" <=> att[a].pc \in {"claimed", "routing"})
    /\ att[a].pc = "idle" => att[a].row = "none"

Lookups == Serial /\ Found /\ MetadataIsCurrent

IInv == Core /\ Lookups

-----------------------------------------------------------------------------
(* Steps that change one attempt and leave the rows of the plan alone.     *)

LEMMA Quiet ==
  ASSUME Core, NEW a \in Attempt, NEW s \in State, att' = [att EXCEPT ![a] = s],
         UNCHANGED <<mode, claimed, steps, overlap, work>>,
         meta' \in Meta, context' \in [Attempt -> 0..MaxAttempts],
         Shape(a)', ShapeOfMode(a)', Owns(a)', Ahead(a)', Written(a)'
  PROVE  Core'
<1>1. TypeOK'
  BY DEF Core, TypeOK
<1>2. att \in [Attempt -> State]
  BY DEF Core, TypeOK
<1>3. ASSUME NEW b \in Attempt, b # a
      PROVE  Shape(b)' /\ ShapeOfMode(b)' /\ Owns(b)' /\ Ahead(b)' /\ Written(b)'
  <2>1. att'[b] = att[b]
    BY <1>2, <1>3
  <2>2. QED
    BY <2>1, <1>3 DEF Core, Shape, ShapeOfMode, Owns, Ahead, Written, HasVerdict
<1>4. QED
  BY <1>1, <1>3 DEF Core, Lengths, WorkOnce

LEMMA QuietCore ==
  ASSUME Core, NEW a \in Attempt,
         \/ Route(a)
         \/ OpenRun(a)
         \/ \E result \in Verdict : RunHarness(a, result)
         \/ LoadTask(a)
         \/ BuildContext(a)
         \/ \E p \in PlansOf(mode) : PlanConflict(a, p)
         \/ \E result \in Verdict : EndLoop(a, result)
         \/ Worked(a)
         \/ Fail(a)
         \/ Pause(a)
         \/ Skip(a)
         \/ PlanDone(a)
         \/ SaveMemory(a)
         \/ ReadBack(a)
         \/ CloseRun(a)
         \/ Learn(a)
         \/ Die(a)
  PROVE  Core'
<1> DEFINE Mine == Shape(a)' /\ ShapeOfMode(a)' /\ Owns(a)' /\ Ahead(a)' /\ Written(a)'
<1>1. att \in [Attempt -> State] /\ att[a] \in State /\ meta \in Meta
      /\ claimed \in 0..MaxAttempts /\ context \in [Attempt -> 0..MaxAttempts]
  BY DEF Core, TypeOK
<1>2. Shape(a) /\ ShapeOfMode(a) /\ Owns(a) /\ Ahead(a) /\ Written(a)
  BY DEF Core
<1> USE DEF At
<1>3. CASE Route(a)
  <2> DEFINE s == [att[a] EXCEPT !.pc = "routing", !.link = claimed, !.seen = meta]
  <2>1. s \in State /\ att' = [att EXCEPT ![a] = s] /\ att'[a] = s
    BY <1>1, <1>3 DEF Route, NewestRun, State, Verdict
  <2>2. meta' \in Meta /\ context' \in [Attempt -> 0..MaxAttempts]
    BY <1>1, <1>3 DEF Route, State, Meta
  <2>3. Mine
    BY <1>1, <1>2, <1>3, <2>1 DEF Route, NewestRun, Shape, ShapeOfMode, Owns, Ahead, Written,
       HasVerdict, Early, Busy, Late, State, Verdict
  <2>4. QED
    BY <1>3, <2>1, <2>2, <2>3, Quiet DEF Route
<1>4. CASE OpenRun(a)
  <2> DEFINE s == [att[a] EXCEPT !.pc = "opened", !.row = "running"]
  <2>1. s \in State /\ att' = [att EXCEPT ![a] = s] /\ att'[a] = s
    BY <1>1, <1>4 DEF OpenRun, State, Verdict
  <2>2. meta' \in Meta /\ context' \in [Attempt -> 0..MaxAttempts]
    <3>1. att[a].seen \in Meta /\ a \in 0..MaxAttempts
      BY <1>1 DEF State, Attempt
    <3>2. QED
      BY <1>1, <1>4, <3>1 DEF OpenRun, Meta
  <2>3. Mine
    BY <1>1, <1>2, <1>4, <2>1 DEF OpenRun, Shape, ShapeOfMode, Owns, Ahead, Written,
       HasVerdict, Early, Busy, Late, State, Verdict
  <2>4. QED
    BY <1>4, <2>1, <2>2, <2>3, Quiet DEF OpenRun
<1>5. ASSUME NEW result \in Verdict, RunHarness(a, result)
      PROVE  Core'
  <2> DEFINE s == [att[a] EXCEPT !.pc = "closing", !.verdict = result]
  <2>1. s \in State /\ att' = [att EXCEPT ![a] = s] /\ att'[a] = s
    BY <1>1, <1>5 DEF RunHarness, State, Verdict
  <2>2. meta' \in Meta /\ context' \in [Attempt -> 0..MaxAttempts]
    BY <1>1, <1>5 DEF RunHarness, State, Meta
  <2>3. Mine
    BY <1>1, <1>2, <1>5, <2>1 DEF RunHarness, Shape, ShapeOfMode, Owns, Ahead, Written,
       HasVerdict, Early, Busy, Late, State, Verdict
  <2>4. QED
    BY <1>5, <2>1, <2>2, <2>3, Quiet DEF RunHarness
<1>6. CASE LoadTask(a)
  <2> DEFINE s == [att[a] EXCEPT !.pc = "loaded", !.load = claimed]
  <2>1. s \in State /\ att' = [att EXCEPT ![a] = s] /\ att'[a] = s
    BY <1>1, <1>6 DEF LoadTask, NewestRun, State, Verdict
  <2>2. meta' \in Meta /\ context' \in [Attempt -> 0..MaxAttempts]
    BY <1>1, <1>6 DEF LoadTask, State, Meta
  <2>3. Mine
    BY <1>1, <1>2, <1>6, <2>1 DEF LoadTask, NewestRun, Shape, ShapeOfMode, Owns, Ahead, Written,
       HasVerdict, Early, Busy, Late, State, Verdict
  <2>4. QED
    BY <1>6, <2>1, <2>2, <2>3, Quiet DEF LoadTask
<1>7. CASE BuildContext(a)
  <2> DEFINE s == [att[a] EXCEPT !.pc = "planning"]
  <2>1. s \in State /\ att' = [att EXCEPT ![a] = s] /\ att'[a] = s
    BY <1>1, <1>7 DEF BuildContext, State, Verdict
  <2>2. meta' \in Meta /\ context' \in [Attempt -> 0..MaxAttempts]
    <3>1. att[a].seen \in Meta /\ a \in 0..MaxAttempts
      BY <1>1 DEF State, Attempt
    <3>2. QED
      BY <1>1, <1>7, <3>1 DEF BuildContext, Meta
  <2>3. Mine
    BY <1>1, <1>2, <1>7, <2>1 DEF BuildContext, Shape, ShapeOfMode, Owns, Ahead, Written,
       HasVerdict, Early, Busy, Late, State, Verdict
  <2>4. QED
    BY <1>7, <2>1, <2>2, <2>3, Quiet DEF BuildContext
<1>8. ASSUME NEW p \in PlansOf(mode), PlanConflict(a, p)
      PROVE  Core'
  <2> DEFINE s == [att[a] EXCEPT !.pc = "ended", !.outcome = "conflict"]
  <2>1. s \in State /\ att' = [att EXCEPT ![a] = s] /\ att'[a] = s
    BY <1>1, <1>8 DEF PlanConflict, State, Verdict
  <2>2. meta' \in Meta /\ context' \in [Attempt -> 0..MaxAttempts]
    BY <1>1, <1>8 DEF PlanConflict, State, Meta
  <2>3. Mine
    BY <1>1, <1>2, <1>8, <2>1 DEF PlanConflict, Shape, ShapeOfMode, Owns, Ahead, Written,
       HasVerdict, Early, Busy, Late, State, Verdict
  <2>4. QED
    BY <1>8, <2>1, <2>2, <2>3, Quiet DEF PlanConflict
<1>9. ASSUME NEW result \in Verdict, EndLoop(a, result)
      PROVE  Core'
  <2> DEFINE s == [att[a] EXCEPT !.pc = "finalizing", !.verdict = result]
  <2>1. s \in State /\ att' = [att EXCEPT ![a] = s] /\ att'[a] = s
    BY <1>1, <1>9 DEF EndLoop, AtStep, Kind, State, Verdict
  <2>2. meta' \in Meta /\ context' \in [Attempt -> 0..MaxAttempts]
    BY <1>1, <1>9 DEF EndLoop, State, Meta
  <2>3. mode = "hermes"
    <3>1. att[a].pos \in 1..Len(att[a].plan) /\ att[a].plan[att[a].pos] = "loop"
      <4>1. att[a].pos \in Nat \ {0} /\ Len(att[a].plan) \in Nat
        BY <1>1 DEF State
      <4>2. att[a].pos <= Len(att[a].plan) /\ att[a].plan[att[a].pos] = "loop"
        BY <1>9 DEF EndLoop, AtStep, Kind
      <4>3. QED
        BY <4>1, <4>2
    <3>2. mode # "harness"
      BY <1>2, <1>9 DEF EndLoop, AtStep, ShapeOfMode, Busy
    <3>3. mode # "legacy"
      BY <3>1, <1>2 DEF ShapeOfMode, StepKind
    <3>4. QED
      BY <3>2, <3>3, RunAssumption DEF Core, TypeOK, Mode
  <2>4. Mine
    BY <1>1, <1>2, <1>9, <2>1, <2>3 DEF EndLoop, AtStep, Kind, Shape, ShapeOfMode, Owns, Ahead, Written,
       HasVerdict, Early, Busy, Late, State, Verdict
  <2>5. QED
    BY <1>9, <2>1, <2>2, <2>4, Quiet DEF EndLoop
<1>10. CASE Worked(a)
  <2> DEFINE s == [att[a] EXCEPT !.pc = "recording"]
  <2>1. s \in State /\ att' = [att EXCEPT ![a] = s] /\ att'[a] = s
    BY <1>1, <1>10 DEF Worked, AtStep, Kind, State, Verdict
  <2>2. meta' \in Meta /\ context' \in [Attempt -> 0..MaxAttempts]
    BY <1>1, <1>10 DEF Worked, State, Meta
  <2>3. Mine
    BY <1>1, <1>2, <1>10, <2>1 DEF Worked, AtStep, Kind, Shape, ShapeOfMode, Owns, Ahead, Written,
       HasVerdict, Early, Busy, Late, State, Verdict
  <2>4. QED
    BY <1>10, <2>1, <2>2, <2>3, Quiet DEF Worked
<1>11. CASE Fail(a)
  <2> DEFINE s == [att[a] EXCEPT !.pc = "saving", !.verdict = "failed"]
  <2>1. s \in State /\ att' = [att EXCEPT ![a] = s] /\ att'[a] = s
    BY <1>1, <1>11 DEF Fail, Break, AtStep, Kind, State, Verdict
  <2>2. meta' \in Meta /\ context' \in [Attempt -> 0..MaxAttempts]
    BY <1>1, <1>11 DEF Fail, Break, State, Meta
  <2>3. Mine
    BY <1>1, <1>2, <1>11, <2>1 DEF Fail, Break, AtStep, Kind, Shape, ShapeOfMode, Owns, Ahead, Written,
       HasVerdict, Early, Busy, Late, State, Verdict
  <2>4. QED
    BY <1>11, <2>1, <2>2, <2>3, Quiet DEF Fail, Break
<1>12. CASE Pause(a)
  <2> DEFINE s == [att[a] EXCEPT !.pc = "saving", !.verdict = "paused"]
  <2>1. s \in State /\ att' = [att EXCEPT ![a] = s] /\ att'[a] = s
    BY <1>1, <1>12 DEF Pause, Break, AtStep, Kind, State, Verdict
  <2>2. meta' \in Meta /\ context' \in [Attempt -> 0..MaxAttempts]
    BY <1>1, <1>12 DEF Pause, Break, State, Meta
  <2>3. Mine
    BY <1>1, <1>2, <1>12, <2>1 DEF Pause, Break, AtStep, Kind, Shape, ShapeOfMode, Owns, Ahead, Written,
       HasVerdict, Early, Busy, Late, State, Verdict
  <2>4. QED
    BY <1>12, <2>1, <2>2, <2>3, Quiet DEF Pause, Break
<1>13. CASE Skip(a)
  <2> DEFINE s == [att[a] EXCEPT !.pc = "executing", !.pos = att[a].pos + 1]
  <2>1. s \in State /\ att' = [att EXCEPT ![a] = s] /\ att'[a] = s
    BY <1>1, <1>13 DEF Skip, Advance, AtStep, Kind, State, Verdict
  <2>2. meta' \in Meta /\ context' \in [Attempt -> 0..MaxAttempts]
    BY <1>1, <1>13 DEF Skip, State, Meta
  <2>3. Mine
    BY <1>1, <1>2, <1>13, <2>1 DEF Skip, Advance, AtStep, Kind, Shape, ShapeOfMode, Owns, Ahead, Written,
       HasVerdict, Early, Busy, Late, State, Verdict
  <2>4. QED
    BY <1>13, <2>1, <2>2, <2>3, Quiet DEF Skip
<1>14. CASE PlanDone(a)
  <2> DEFINE s == [att[a] EXCEPT !.pc = "saving"]
  <2>1. s \in State /\ att' = [att EXCEPT ![a] = s] /\ att'[a] = s
    BY <1>1, <1>14 DEF PlanDone, State, Verdict
  <2>2. meta' \in Meta /\ context' \in [Attempt -> 0..MaxAttempts]
    BY <1>1, <1>14 DEF PlanDone, State, Meta
  <2>3. mode # "hermes"
    <3> SUFFICES ASSUME mode = "hermes" PROVE FALSE
      OBVIOUS
    <3>1. att[a].plan = <<"loop">> /\ att[a].pos = 1 /\ att[a].pos > Len(att[a].plan)
      BY <1>2, <1>14 DEF PlanDone, ShapeOfMode, Busy
    <3>2. QED
      BY <3>1
  <2>4. Mine
    BY <1>1, <1>2, <1>14, <2>1, <2>3 DEF PlanDone, Shape, ShapeOfMode, Owns, Ahead, Written,
       HasVerdict, Early, Busy, Late, State, Verdict
  <2>5. QED
    BY <1>14, <2>1, <2>2, <2>4, Quiet DEF PlanDone
<1>15. CASE SaveMemory(a)
  <2> DEFINE s == [att[a] EXCEPT !.pc = "closing"]
  <2>1. s \in State /\ att' = [att EXCEPT ![a] = s] /\ att'[a] = s
    BY <1>1, <1>15 DEF SaveMemory, State, Verdict
  <2>2. meta' \in Meta /\ context' \in [Attempt -> 0..MaxAttempts]
    BY <1>1, <1>15 DEF SaveMemory, State, Meta
  <2>3. Mine
    BY <1>1, <1>2, <1>15, <2>1 DEF SaveMemory, Shape, ShapeOfMode, Owns, Ahead, Written,
       HasVerdict, Early, Busy, Late, State, Verdict
  <2>4. QED
    BY <1>15, <2>1, <2>2, <2>3, Quiet DEF SaveMemory
<1>16. CASE ReadBack(a)
  <2> DEFINE s == [att[a] EXCEPT !.pc = "committing", !.seen = meta]
  <2>1. s \in State /\ att' = [att EXCEPT ![a] = s] /\ att'[a] = s
    BY <1>1, <1>16 DEF ReadBack, State, Verdict
  <2>2. meta' \in Meta /\ context' \in [Attempt -> 0..MaxAttempts]
    BY <1>1, <1>16 DEF ReadBack, State, Meta
  <2>3. Mine
    BY <1>1, <1>2, <1>16, <2>1 DEF ReadBack, Shape, ShapeOfMode, Owns, Ahead, Written,
       HasVerdict, Early, Busy, Late, State, Verdict
  <2>4. QED
    BY <1>16, <2>1, <2>2, <2>3, Quiet DEF ReadBack
<1>17. CASE CloseRun(a)
  <2> DEFINE s == IF att[a].verdict = "completed"
                      THEN [att[a] EXCEPT !.pc = "learning", !.row = att[a].verdict]
                      ELSE [att[a] EXCEPT !.pc = "ended", !.row = att[a].verdict,
                                          !.outcome = att[a].verdict]
  <2>1. s \in State /\ att' = [att EXCEPT ![a] = s] /\ att'[a] = s
    BY <1>1, <1>17 DEF CloseRun, State, Verdict
  <2>2. meta' \in Meta /\ context' \in [Attempt -> 0..MaxAttempts]
    <3>1. att[a].seen \in Meta /\ a \in 0..MaxAttempts
      BY <1>1 DEF State, Attempt
    <3>2. QED
      BY <1>1, <1>17, <3>1 DEF CloseRun, Meta
  <2>3. Mine
    BY <1>1, <1>2, <1>17, <2>1 DEF CloseRun, Shape, ShapeOfMode, Owns, Ahead, Written,
       HasVerdict, Early, Busy, Late, State, Verdict
  <2>4. QED
    BY <1>17, <2>1, <2>2, <2>3, Quiet DEF CloseRun
<1>18. CASE Learn(a)
  <2> DEFINE s == [att[a] EXCEPT !.pc = "ended", !.outcome = att[a].verdict]
  <2>1. s \in State /\ att' = [att EXCEPT ![a] = s] /\ att'[a] = s
    BY <1>1, <1>18 DEF Learn, State, Verdict
  <2>2. meta' \in Meta /\ context' \in [Attempt -> 0..MaxAttempts]
    BY <1>1, <1>18 DEF Learn, State, Meta
  <2>3. Mine
    BY <1>1, <1>2, <1>18, <2>1 DEF Learn, Shape, ShapeOfMode, Owns, Ahead, Written,
       HasVerdict, Early, Busy, Late, State, Verdict
  <2>4. QED
    BY <1>18, <2>1, <2>2, <2>3, Quiet DEF Learn
<1>19. CASE Die(a)
  <2> DEFINE s == [att[a] EXCEPT !.pc = "ended", !.outcome = "died"]
  <2>1. s \in State /\ att' = [att EXCEPT ![a] = s] /\ att'[a] = s
    BY <1>1, <1>19 DEF Die, Alive, State, Verdict
  <2>2. meta' \in Meta /\ context' \in [Attempt -> 0..MaxAttempts]
    BY <1>1, <1>19 DEF Die, State, Meta
  <2>3. Mine
    BY <1>1, <1>2, <1>19, <2>1 DEF Die, Alive, Shape, ShapeOfMode, Owns, Ahead, Written,
       HasVerdict, Early, Busy, Late, State, Verdict
  <2>4. QED
    BY <1>19, <2>1, <2>2, <2>3, Quiet DEF Die
<1>20. QED
  BY <1>3, <1>4, <1>5, <1>6, <1>7, <1>8, <1>9, <1>10, <1>11, <1>12, <1>13, <1>14, <1>15, <1>16, <1>17, <1>18, <1>19

-----------------------------------------------------------------------------
(* Steps that change the rows of the plan, or the attempts.                *)

\* Only one attempt ever has a plan of its own.
LEMMA OneOwner ==
  ASSUME Core, NEW a \in Attempt, NEW b \in Attempt,
         att[a].plan # <<>>, att[b].plan # <<>>
  PROVE  a = b
<1>1. att[a].plan \in Seq(StepKind \cup {"loop"}) /\ Owns(a) /\ Owns(b)
  BY DEF Core, TypeOK, State
<1>2. Len(att[a].plan) \in Nat \ {0}
  BY <1>1
<1>3. 1 \in 1..Len(steps) /\ steps[1].by = a /\ steps[1].by = b
  BY <1>1, <1>2 DEF Owns
<1>4. QED
  BY <1>3

LEMMA InitCore == Init => Core
<1> SUFFICES ASSUME Init PROVE Core
  OBVIOUS
<1>1. Idle \in State
  BY RunAssumption DEF Idle, State, Meta, NoMeta, Verdict
<1>2. TypeOK
  <2>1. 0 \in 0..MaxAttempts /\ NoMeta \in Meta
    BY RunAssumption DEF Meta, NoMeta
  <2>2. att \in [Attempt -> State] /\ context \in [Attempt -> 0..MaxAttempts]
    BY <1>1, <2>1 DEF Init
  <2>3. steps \in Seq([status : StepStatus, by : Attempt]) /\ work \in Seq(Nat)
    BY EmptySeq DEF Init
  <2>4. mode \in Modes /\ claimed \in 0..MaxAttempts /\ meta \in Meta
        /\ overlap \in BOOLEAN
    BY <2>1 DEF Init
  <2>5. QED
    BY <2>2, <2>3, <2>4 DEF TypeOK
<1>3. Lengths /\ WorkOnce
  BY DEF Init, Lengths, WorkOnce
<1>4. ASSUME NEW a \in Attempt
      PROVE  Shape(a) /\ ShapeOfMode(a) /\ Owns(a) /\ Ahead(a) /\ Written(a)
  <2>1. att[a] = Idle /\ a > claimed
    BY <1>4, RunAssumption DEF Init, Attempt
  <2>2. QED
    BY <2>1 DEF Idle, Shape, ShapeOfMode, Owns, Ahead, Written, HasVerdict, Early, Busy, Late, Verdict
<1>5. QED
  BY <1>2, <1>3, <1>4 DEF Core

LEMMA ClaimCore == ASSUME Core, Claim PROVE Core'
<1> DEFINE n == claimed + 1
<1>1. att \in [Attempt -> State] /\ claimed \in 0..MaxAttempts /\ n \in Attempt
  BY RunAssumption DEF Core, TypeOK, Claim, Attempt
<1>2. att' = [att EXCEPT ![n] = [att[n] EXCEPT !.pc = "claimed"]] /\ claimed' = n
      /\ UNCHANGED <<mode, steps, work>>
  BY DEF Claim
<1>3. [att[n] EXCEPT !.pc = "claimed"] \in State
  BY <1>1 DEF State
<1> HIDE DEF n
<1>4. TypeOK'
  BY <1>1, <1>2, <1>3 DEF Claim, Core, TypeOK, Attempt
<1>5. ASSUME NEW a \in Attempt
      PROVE  Shape(a)' /\ ShapeOfMode(a)' /\ Owns(a)' /\ Ahead(a)' /\ Written(a)'
  <2>1. Shape(a) /\ ShapeOfMode(a) /\ Owns(a) /\ Ahead(a) /\ Written(a)
    BY DEF Core
  <2>2. CASE a = n
    <3>1. att[a].pc = "idle" /\ att'[a] = [att[a] EXCEPT !.pc = "claimed"] /\ att[a] \in State
      BY <1>1, <1>2, <2>1, <2>2 DEF Shape, n
    <3>2. QED
      BY <1>1, <1>2, <2>1, <2>2, <3>1 DEF Shape, ShapeOfMode, Owns, Ahead, Written, HasVerdict,
         Early, Busy, Late, Verdict, Attempt, State
  <2>3. CASE a # n
    <3>1. att'[a] = att[a]
      BY <1>1, <1>2, <2>3
    <3>2. a > claimed <=> a > claimed'
      BY <1>1, <1>2, <2>3 DEF n, Attempt
    <3>3. QED
      BY <1>2, <2>1, <3>1, <3>2 DEF Shape, ShapeOfMode, Owns, Ahead, Written, HasVerdict
  <2>4. QED
    BY <2>2, <2>3
<1>6. QED
  BY <1>2, <1>4, <1>5 DEF Core, Lengths, WorkOnce

LEMMA PersistPlanCore ==
  ASSUME Core, NEW a \in Attempt, NEW p \in PlansOf(mode), PersistPlan(a, p)
  PROVE  Core'
<1> DEFINE s == [att[a] EXCEPT !.pc = "executing", !.plan = p]
<1>1. att \in [Attempt -> State] /\ att[a] \in State /\ steps \in Seq([status : StepStatus, by : Attempt])
  BY DEF Core, TypeOK
<1>2. p \in Seq(StepKind \cup {"loop"}) /\ (mode = "hermes" => p = <<"loop">>)
      /\ (mode # "hermes" => p \in Seq(StepKind))
  <2>1. CASE mode = "hermes"
    <3>1. p = <<"loop">>
      BY <2>1 DEF PlansOf
    <3>2. QED
      BY <2>1, <3>1
  <2>2. CASE mode # "hermes"
    <3>1. p \in Seq(StepKind)
      BY <2>2, RunAssumption DEF PlansOf
    <3>2. QED
      BY <3>1, <2>2
  <2>3. QED
    BY <2>1, <2>2
<1>3. s \in State /\ att' = [att EXCEPT ![a] = s] /\ att'[a] = s
  BY <1>1, <1>2 DEF PersistPlan, State
<1>4. Shape(a) /\ ShapeOfMode(a) /\ att[a].pc = "planning" /\ att[a].plan = <<>> /\ att[a].pos = 1
      /\ att[a].outcome = "none"
  BY DEF Core, PersistPlan, At, Shape, Early
<1>5. UNCHANGED <<mode, claimed, meta, context, overlap>>
  BY DEF PersistPlan
<1> HIDE DEF s
<1>6. CASE steps # <<>>
  <2>1. UNCHANGED <<steps, work>> /\ p = <<>> /\ mode # "hermes"
    <3>1. UNCHANGED <<steps, work>> /\ p = <<>>
      BY <1>6 DEF PersistPlan
    <3>2. p # <<"loop">>
      BY <3>1
    <3>3. QED
      BY <3>1, <3>2, <1>2
  <2>2. Shape(a)' /\ ShapeOfMode(a)' /\ Owns(a)' /\ Ahead(a)' /\ Written(a)'
    BY <1>2, <1>3, <1>4, <1>5, <2>1 DEF s, State, Shape, ShapeOfMode, Owns, Ahead, Written,
       HasVerdict, Early, Busy, Late, Verdict
  <2>3. QED
    BY <1>3, <1>5, <2>1, <2>2, Quiet DEF Core, TypeOK
<1>7. CASE steps = <<>>
  <2>1. steps' = NewSteps(a, p) /\ work' = [i \in 1..Len(p) |-> 0] /\ Len(p) \in Nat
    BY <1>2, <1>7 DEF PersistPlan
  <2>2. /\ steps' \in Seq([status : StepStatus, by : Attempt]) /\ Len(steps') = Len(p)
        /\ \A i \in 1..Len(p) : steps'[i] = [status |-> "pending", by |-> a]
    BY <2>1 DEF NewSteps, StepStatus
  <2>3. work' \in Seq(Nat) /\ Len(work') = Len(p) /\ \A i \in 1..Len(p) : work'[i] = 0
    BY <2>1
  <2>4. TypeOK'
    BY <1>1, <1>3, <1>5, <2>2, <2>3 DEF Core, TypeOK
  <2>5. Shape(a)' /\ ShapeOfMode(a)' /\ Owns(a)' /\ Ahead(a)' /\ Written(a)'
    <3>1. Shape(a)' /\ ShapeOfMode(a)' /\ Written(a)'
      BY <1>1, <1>2, <1>3, <1>4, <1>5 DEF s, State, Shape, ShapeOfMode, Written,
         HasVerdict, Early, Busy, Late, Verdict
    <3>2. att'[a].plan = p
      BY <1>1, <1>3 DEF s, State
    <3>3. Owns(a)'
      BY <3>2, <2>2 DEF Owns
    <3>4. Ahead(a)'
      BY <2>3 DEF Ahead
    <3>5. QED
      BY <3>1, <3>3, <3>4
  <2>6. ASSUME NEW b \in Attempt, b # a
        PROVE  Shape(b)' /\ ShapeOfMode(b)' /\ Owns(b)' /\ Ahead(b)' /\ Written(b)'
    <3>1. att'[b] = att[b] /\ Shape(b) /\ ShapeOfMode(b) /\ Owns(b) /\ Written(b)
      BY <1>1, <1>3, <2>6 DEF Core
    <3>2. att[b].plan = <<>>
      <4>1. att[b].plan \in Seq(StepKind \cup {"loop"})
        BY <1>1 DEF State
      <4>2. QED
        BY <3>1, <1>7, <4>1 DEF Owns
    <3>3. QED
      BY <1>5, <3>1, <3>2 DEF Shape, ShapeOfMode, Owns, Ahead, Written, HasVerdict
  <2>7. Lengths' /\ WorkOnce'
    BY <2>2, <2>3 DEF Lengths, WorkOnce
  <2>8. QED
    BY <2>4, <2>5, <2>6, <2>7 DEF Core
<1>8. QED
  BY <1>6, <1>7

\* The attempt at a step of its plan: the step and its work are rows of the task.
LEMMA StepRows ==
  ASSUME Core, NEW a \in Attempt, att[a].plan # <<>>
  PROVE  /\ steps \in Seq([status : StepStatus, by : Attempt]) /\ work \in Seq(Nat)
         /\ Len(steps) = Len(att[a].plan) /\ Len(work) = Len(steps) /\ Len(steps) \in Nat \ {0}
         /\ att[a].pos \in Nat \ {0} /\ att[a] \in State /\ att \in [Attempt -> State]
         /\ \A i \in 1..Len(steps) : steps[i] \in [status : StepStatus, by : Attempt] /\ steps[i].by = a
<1>1. att[a] \in State /\ Owns(a) /\ att \in [Attempt -> State]
      /\ steps \in Seq([status : StepStatus, by : Attempt]) /\ work \in Seq(Nat)
  BY DEF Core, TypeOK
<1>2. att[a].plan \in Seq(StepKind \cup {"loop"}) /\ att[a].pos \in Nat \ {0}
  BY <1>1 DEF State
<1>3. Len(att[a].plan) \in Nat \ {0}
  BY <1>2
<1>4. Len(steps) = Len(att[a].plan) /\ \A i \in 1..Len(steps) : steps[i].by = a
  BY <1>1 DEF Owns
<1>5. Len(work) = Len(steps)
  BY DEF Core, Lengths
<1>6. \A i \in 1..Len(steps) : steps[i] \in [status : StepStatus, by : Attempt]
  BY <1>1, ElementOfSeq
<1>7. QED
  BY <1>1, <1>2, <1>3, <1>4, <1>5, <1>6

LEMMA AtStepOwns ==
  ASSUME Core, NEW a \in Attempt, NEW stage, NEW kinds, AtStep(a, stage, kinds)
  PROVE  /\ att[a].pc = stage /\ Kind(a) \in kinds
         /\ att[a].plan # <<>> /\ att[a].pos \in 1..Len(steps)
<1>1. att[a].plan \in Seq(StepKind \cup {"loop"}) /\ att[a].pos \in Nat \ {0}
      /\ att[a].pos <= Len(att[a].plan)
  BY DEF Core, TypeOK, State, AtStep
<1>2. att[a].plan # <<>>
  BY <1>1
<1>3. QED
  BY <1>1, <1>2, StepRows DEF AtStep, At

LEMMA BeginCore == ASSUME Core, NEW a \in Attempt, Begin(a) PROVE Core'
<1> DEFINE n == att[a].pos
<1>1. att[a].pc = "executing" /\ att[a].plan # <<>> /\ n \in 1..Len(work)
  BY AtStepOwns, StepRows DEF Begin
<1>2. work \in Seq(Nat) /\ att[a] \in State /\ att \in [Attempt -> State] /\ Len(work) \in Nat
      /\ n \in Nat
  BY <1>1, StepRows
<1>3. att' = [att EXCEPT ![a] = [att[a] EXCEPT !.pc = "working"]]
      /\ [att[a] EXCEPT !.pc = "working"] \in State
      /\ att'[a] = [att[a] EXCEPT !.pc = "working"]
  BY <1>2 DEF Begin, State
<1>4. work[n] = 0
  BY <1>1, <1>2 DEF Core, Ahead
<1>5. work' = [work EXCEPT ![n] = 1]
  BY <1>4 DEF Begin
<1>6. work' \in Seq(Nat) /\ Len(work') = Len(work)
      /\ \A i \in 1..Len(work) : work'[i] = IF i = n THEN 1 ELSE work[i]
  BY <1>1, <1>2, <1>5, ExceptSeq
<1>7. UNCHANGED <<mode, claimed, steps, meta, context, overlap>>
  BY DEF Begin
<1> HIDE DEF n
<1>8. TypeOK'
  BY <1>2, <1>3, <1>6, <1>7 DEF Core, TypeOK
<1>9. ASSUME NEW b \in Attempt
      PROVE  Shape(b)' /\ ShapeOfMode(b)' /\ Owns(b)' /\ Ahead(b)' /\ Written(b)'
  <2>1. Shape(b) /\ ShapeOfMode(b) /\ Owns(b) /\ Ahead(b) /\ Written(b)
    BY DEF Core
  <2>2. CASE b = a
    <3>1. Shape(b)' /\ ShapeOfMode(b)' /\ Owns(b)' /\ Written(b)'
      BY <1>1, <1>2, <1>3, <1>7, <2>1, <2>2 DEF Shape, ShapeOfMode, Owns, Written, HasVerdict,
         Early, Busy, Late, Verdict, State
    <3>2. att'[a].pos = n /\ att'[a].pc = "working"
      BY <1>2, <1>3 DEF State, n
    <3>3. \A i \in 1..Len(work') : i > n => work'[i] = 0
      BY <1>1, <1>2, <1>6, <2>1, <2>2 DEF Ahead, n
    <3>4. Ahead(b)'
      BY <2>2, <3>2, <3>3 DEF Ahead
    <3>5. QED
      BY <3>1, <3>4
  <2>3. CASE b # a
    <3>1. att'[b] = att[b] /\ att[b].plan = <<>>
      BY <1>1, <1>2, <1>3, <2>3, OneOwner
    <3>2. QED
      BY <1>7, <2>1, <3>1 DEF Shape, ShapeOfMode, Owns, Ahead, Written, HasVerdict
  <2>4. QED
    BY <2>2, <2>3
<1>10. Lengths' /\ WorkOnce'
  BY <1>6, <1>7 DEF Core, Lengths, WorkOnce
<1>11. QED
  BY <1>8, <1>9, <1>10 DEF Core

\* A step of the owner's plan changes its status.
LEMMA StatusCore ==
  ASSUME Core, NEW a \in Attempt, att[a].plan # <<>>, NEW n \in 1..Len(steps),
         NEW to \in StepStatus, steps' = [steps EXCEPT ![n].status = to],
         NEW s \in State, att' = [att EXCEPT ![a] = s],
         UNCHANGED <<mode, claimed, meta, context, overlap, work>>,
         s.plan = att[a].plan, Shape(a)', ShapeOfMode(a)', Ahead(a)', Written(a)'
  PROVE  Core'
<1>1. steps[n] \in [status : StepStatus, by : Attempt] /\ steps[n].by = a
      /\ steps \in Seq([status : StepStatus, by : Attempt])
  BY StepRows
<1>2. steps' = [steps EXCEPT ![n] = [status |-> to, by |-> a]]
  <2>1. [steps[n] EXCEPT !.status = to] = [status |-> to, by |-> a]
    BY <1>1
  <2>2. steps' = [steps EXCEPT ![n] = [steps[n] EXCEPT !.status = to]]
    OBVIOUS
  <2>3. QED
    BY <2>1, <2>2
<1>3. [status |-> to, by |-> a] \in [status : StepStatus, by : Attempt]
  OBVIOUS
<1>4. steps' \in Seq([status : StepStatus, by : Attempt]) /\ Len(steps') = Len(steps)
      /\ \A i \in 1..Len(steps) :
           steps'[i] = IF i = n THEN [status |-> to, by |-> a] ELSE steps[i]
  BY <1>1, <1>2, <1>3, ExceptSeq
<1>5. att \in [Attempt -> State] /\ att'[a] = s
  BY DEF Core, TypeOK
<1>6. TypeOK'
  BY <1>4, <1>5 DEF Core, TypeOK
<1>7. Owns(a)'
  BY <1>4, <1>5, StepRows DEF Owns
<1>8. ASSUME NEW b \in Attempt, b # a
      PROVE  Shape(b)' /\ ShapeOfMode(b)' /\ Owns(b)' /\ Ahead(b)' /\ Written(b)'
  <2>1. att'[b] = att[b] /\ att[b].plan = <<>>
    BY <1>5, <1>8, OneOwner
  <2>2. Shape(b) /\ ShapeOfMode(b) /\ Owns(b) /\ Ahead(b) /\ Written(b)
    BY DEF Core
  <2>3. ~(mode = "hermes" /\ HasVerdict(b))
    BY <2>1, <2>2 DEF ShapeOfMode
  <2>4. QED
    BY <2>1, <2>2, <2>3 DEF Shape, ShapeOfMode, Owns, Ahead, Written, HasVerdict
<1>9. QED
  BY <1>4, <1>6, <1>7, <1>8 DEF Core, Lengths, WorkOnce

LEMMA FinalizeCore == ASSUME Core, NEW a \in Attempt, FinalizeStep(a) PROVE Core'
<1> DEFINE s == [att[a] EXCEPT !.pc = "saving"]
<1>1. att \in [Attempt -> State] /\ att[a] \in State
  BY DEF Core, TypeOK
<1>2. s \in State /\ att' = [att EXCEPT ![a] = s] /\ att'[a] = s /\ s.plan = att[a].plan
  BY <1>1 DEF FinalizeStep, State
<1>3. Shape(a) /\ ShapeOfMode(a) /\ Ahead(a) /\ att[a].pc = "finalizing"
  BY DEF Core, FinalizeStep, At
<1>4. mode = "hermes" /\ att[a].plan = <<"loop">> /\ att[a].verdict \in {"completed", "failed"}
  BY <1>1, <1>3 DEF ShapeOfMode, Busy, State, Verdict
<1>5. att[a].plan # <<>> /\ Len(steps) = 1 /\ steps[1].by = a
      /\ steps[1] \in [status : StepStatus, by : Attempt]
      /\ steps \in Seq([status : StepStatus, by : Attempt])
  <2>1. att[a].plan # <<>> /\ Len(att[a].plan) = 1
    BY <1>4
  <2>2. Len(steps) = 1 /\ steps \in Seq([status : StepStatus, by : Attempt])
        /\ \A i \in 1..Len(steps) : steps[i] \in [status : StepStatus, by : Attempt] /\ steps[i].by = a
    BY <2>1, StepRows
  <2>3. 1 \in 1..Len(steps)
    BY <2>2
  <2>4. QED
    BY <2>1, <2>2, <2>3
<1>6. UNCHANGED <<mode, claimed, meta, context, overlap, work>>
      /\ steps' = [steps EXCEPT ![1].status = att[a].verdict]
  BY <1>4, <1>5 DEF FinalizeStep, DbStatus
<1>7. steps' = <<[status |-> att[a].verdict, by |-> a]>>
  <2>1. [steps[1] EXCEPT !.status = att[a].verdict] = [status |-> att[a].verdict, by |-> a]
    BY <1>5
  <2>2. steps' = [steps EXCEPT ![1] = [status |-> att[a].verdict, by |-> a]]
    BY <1>6, <2>1
  <2>3. QED
    BY <1>5, <2>2
<1>8. Shape(a)' /\ ShapeOfMode(a)' /\ Ahead(a)'
  BY <1>1, <1>2, <1>3, <1>4, <1>6 DEF Shape, ShapeOfMode, Ahead, HasVerdict, Early, Busy, Late,
     Verdict, State
<1>9. Written(a)'
  BY <1>1, <1>2, <1>7 DEF Written, State
<1>10. 1 \in 1..Len(steps) /\ att[a].verdict \in StepStatus
  BY <1>4, <1>5 DEF StepStatus
<1> HIDE DEF s
<1>11. QED
  BY <1>2, <1>5, <1>6, <1>8, <1>9, <1>10, StatusCore

LEMMA TickOffCore == ASSUME Core, NEW a \in Attempt, TickOff(a) PROVE Core'
<1> DEFINE s == [att[a] EXCEPT !.pc = "executing", !.pos = att[a].pos + 1]
<1>1. att \in [Attempt -> State] /\ att[a] \in State
  BY DEF Core, TypeOK
<1>2. s \in State /\ att' = [att EXCEPT ![a] = s] /\ att'[a] = s /\ s.plan = att[a].plan
  <2>1. att[a].pos + 1 \in Nat \ {0}
    BY <1>1 DEF State
  <2>2. s \in State /\ s.plan = att[a].plan
    BY <1>1, <2>1 DEF State
  <2>3. att' = [att EXCEPT ![a] = s]
    BY <1>1 DEF TickOff, Advance
  <2>4. QED
    BY <1>1, <2>2, <2>3
<1>3. /\ att[a].pc \in {"recording", "executing"}
      /\ att[a].plan # <<>> /\ att[a].pos \in 1..Len(steps) /\ Kind(a) # "loop"
  BY AtStepOwns DEF TickOff
<1>4. Shape(a) /\ ShapeOfMode(a) /\ Ahead(a)
  BY DEF Core
<1>5. mode = "legacy"
  <2>1. mode # "hermes"
    <3> SUFFICES ASSUME mode = "hermes" PROVE FALSE
      OBVIOUS
    <3>1. att[a].plan = <<"loop">> /\ att[a].pos = 1
      BY <1>3, <1>4 DEF ShapeOfMode, Busy
    <3>2. Kind(a) = "loop"
      BY <3>1 DEF Kind
    <3>3. QED
      BY <1>3, <3>2
  <2>2. mode # "harness"
    BY <1>3, <1>4 DEF ShapeOfMode
  <2>3. QED
    BY <2>1, <2>2, RunAssumption DEF Core, TypeOK, Mode
<1>6. UNCHANGED <<mode, claimed, meta, context, overlap, work>>
      /\ steps' = [steps EXCEPT ![att[a].pos].status = "completed"]
  BY DEF TickOff
<1>7. Shape(a)' /\ ShapeOfMode(a)' /\ Written(a)'
  BY <1>1, <1>2, <1>3, <1>4, <1>5, <1>6 DEF Shape, ShapeOfMode, Written, HasVerdict, Early, Busy,
     Late, Verdict, State
<1>8. Ahead(a)'
  <2>1. att'[a].pos = att[a].pos + 1 /\ att[a].pos \in Nat
    BY <1>1, <1>2 DEF State
  <2>2. work \in Seq(Nat) /\ Len(work) \in Nat
    BY DEF Core, TypeOK
  <2>3. QED
    BY <1>3, <1>4, <1>6, <2>1, <2>2 DEF Ahead
<1> HIDE DEF s
<1>9. QED
  BY <1>2, <1>3, <1>6, <1>7, <1>8, StatusCore DEF StepStatus

LEMMA NextCore == Core /\ [Next]_vars => Core'
<1> SUFFICES ASSUME Core, [Next]_vars PROVE Core'
  OBVIOUS
<1>1. CASE UNCHANGED vars
  BY <1>1 DEF vars, Core, TypeOK, Lengths, WorkOnce, Shape, ShapeOfMode, Owns, Ahead, Written,
     HasVerdict
<1>2. CASE Claim
  BY <1>2, ClaimCore
<1>4. ASSUME NEW a \in Attempt, Proceed(a)
      PROVE  Core'
  <2>1. ASSUME NEW p \in PlansOf(mode), PersistPlan(a, p)
        PROVE  Core'
    BY <2>1, PersistPlanCore
  <2>2. CASE Begin(a) \/ FinalizeStep(a) \/ TickOff(a)
    BY <2>2, BeginCore, FinalizeCore, TickOffCore
  <2>3. QED
    BY <1>4, <2>1, <2>2, QuietCore DEF Proceed, Execute
<1>5. ASSUME NEW a \in Attempt, Die(a)
      PROVE  Core'
  BY <1>5, QuietCore
<1>6. QED
  BY <1>1, <1>2, <1>4, <1>5 DEF Next

THEOREM CoreInvariant == Spec => []Core
BY InitCore, NextCore, PTL DEF Spec

\* Every variable keeps its type.
THEOREM TypeCorrect == Spec => []TypeOK
<1>1. Core => TypeOK
  BY DEF Core
<1>2. QED
  BY <1>1, CoreInvariant, PTL

\* However many attempts there are, and whenever they die, no step of the task's
\* plan is begun twice (plan, execute_step, uq_task_steps_task_position).
THEOREM AtMostOnce == Spec => []WorkOnce
<1>1. Core => WorkOnce
  BY DEF Core
<1>2. QED
  BY <1>1, CoreInvariant, PTL

\* A verdict handed to the worker is the one on the AgentRun and on the step
\* (_finalize_step, _finalize_agent_run).
THEOREM Verdicts == Spec => []VerdictAgrees
<1>1. Core => VerdictAgrees
  BY DEF Core, Shape, Written, HasVerdict, VerdictAgrees
<1>2. QED
  BY <1>1, CoreInvariant, PTL

-----------------------------------------------------------------------------
(* What an attempt has looked up.                                          *)

LEMMA MaxIs ==
  ASSUME NEW S \in SUBSET Int, NEW m \in S, \A x \in S : x <= m
  PROVE  Max(S) = m
<1>1. \A y \in S : m >= y
  OBVIOUS
<1>2. Max(S) \in S /\ \A y \in S : Max(S) >= y
  BY <1>1 DEF Max
<1>3. Max(S) \in Int /\ m \in Int /\ Max(S) >= m /\ Max(S) <= m
  BY <1>2
<1>4. QED
  BY <1>3

\* An attempt moves on without looking anything up or writing what others look up.
LEMMA Aside ==
  ASSUME Core, Lookups, NEW a \in Attempt, NEW s \in State, att' = [att EXCEPT ![a] = s],
         UNCHANGED <<claimed, overlap, meta, context>>,
         Alive(a), s.link = att[a].link, s.load = att[a].load, s.row = att[a].row,
         \/ s.pc = "ended"
         \/ /\ s.pc \notin {"idle", "claimed", "routing", "committing"}
            /\ att[a].pc \notin {"claimed", "routing"}
  PROVE  Lookups'
<1>1. att \in [Attempt -> State] /\ att'[a] = s /\ \A b \in Attempt : b # a => att'[b] = att[b]
  BY DEF Core, TypeOK
<1>2. \A b \in Attempt : att'[b].link = att[b].link /\ att'[b].load = att[b].load
                        /\ att'[b].row = att[b].row
  BY <1>1
<1>3. Serial'
  BY <1>1, <1>2 DEF Lookups, Serial, Alive
<1>4. Found'
  BY <1>1, <1>2 DEF Lookups, Found, Alive
<1>5. MetadataIsCurrent'
  BY <1>2 DEF Lookups, MetadataIsCurrent
<1>6. QED
  BY <1>3, <1>4, <1>5 DEF Lookups

LEMMA InitLookups == Init => Lookups
<1> SUFFICES ASSUME Init PROVE Lookups
  OBVIOUS
<1>1. \A a \in Attempt : att[a] = Idle /\ context[a] = 0
  BY DEF Init
<1>2. Serial /\ Found
  BY <1>1 DEF Init, Serial, Found, Idle, Alive
<1>3. {a \in Attempt : att[a].row # "none"} = {} /\ {a \in Attempt : att[a].row \in Verdict} = {}
  BY <1>1 DEF Idle, Verdict
<1>4. Max({0}) = 0
  BY MaxIs
<1>5. MetadataIsCurrent
  BY <1>3, <1>4 DEF Init, NoMeta, MetadataIsCurrent
<1>6. QED
  BY <1>2, <1>5 DEF Lookups

LEMMA ClaimLookups == ASSUME Core, Lookups, Claim PROVE Lookups'
<1> DEFINE n == claimed + 1
<1>1. att \in [Attempt -> State] /\ claimed \in 0..MaxAttempts /\ n \in Attempt
  BY RunAssumption DEF Core, TypeOK, Claim, Attempt
<1>2. claimed' = n /\ UNCHANGED <<meta, context>>
      /\ overlap' = (overlap \/ \E a \in Attempt : Alive(a))
  BY DEF Claim
<1>3. /\ att'[n] = [att[n] EXCEPT !.pc = "claimed"] /\ att[n] \in State
      /\ \A b \in Attempt : b # n => att'[b] = att[b]
  BY <1>1 DEF Claim
<1>4. att[n].pc = "idle" /\ att'[n].pc = "claimed"
  BY <1>1, <1>3 DEF Core, Shape, State
<1>5. \A b \in Attempt : att'[b].link = att[b].link /\ att'[b].load = att[b].load
                        /\ att'[b].row = att[b].row /\ att'[b].seen = att[b].seen
  BY <1>3 DEF State
<1> HIDE DEF n
<1>6. Serial'
  BY <1>1, <1>2, <1>3, <1>4, <1>5 DEF Lookups, Serial, Alive
<1>7. Found'
  <2>1. claimed <= n /\ claimed \in Int /\ n \in Int
    BY <1>1 DEF n
  <2>2. SUFFICES ASSUME NEW b \in Attempt
        PROVE  /\ att'[b].link = 0 \/ (b <= att'[b].link /\ att'[b].link <= n)
               /\ att'[b].load = 0 \/ (b <= att'[b].load /\ att'[b].load <= n)
               /\ att'[b].row # "none" => b <= n
               /\ Alive(b)' => (att'[b].row = "none" <=> att'[b].pc \in {"claimed", "routing"})
               /\ att'[b].pc = "idle" => att'[b].row = "none"
    BY <1>2 DEF Found
  <2>3. b \in Int /\ att[b].link \in Int /\ att[b].load \in Int
    BY <1>1 DEF State, Attempt
  <2>4. /\ att'[b].link = 0 \/ (b <= att'[b].link /\ att'[b].link <= n)
        /\ att'[b].load = 0 \/ (b <= att'[b].load /\ att'[b].load <= n)
        /\ att'[b].row # "none" => b <= n
    BY <1>5, <2>1, <2>3 DEF Lookups, Found
  <2>5. CASE b = n
    BY <1>4, <1>5, <2>4, <2>5 DEF Lookups, Found, Alive
  <2>6. CASE b # n
    BY <1>3, <2>4, <2>6 DEF Lookups, Found, Alive
  <2>7. QED
    BY <2>5, <2>6
<1>8. MetadataIsCurrent'
  BY <1>2, <1>5 DEF Lookups, MetadataIsCurrent
<1>9. QED
  BY <1>6, <1>7, <1>8 DEF Lookups

\* The newest TaskRun is looked up: run_task and load_task.
LEMMA LookupRun ==
  ASSUME Core, Lookups, NEW a \in Attempt, Route(a) \/ LoadTask(a)
  PROVE  Lookups'
<1>1. att \in [Attempt -> State] /\ att[a] \in State /\ claimed \in Nat /\ a \in Nat /\ meta \in Meta
  BY RunAssumption DEF Core, TypeOK, Attempt
<1>2. /\ att[a].pc \in {"claimed", "opened"} /\ Alive(a)
      /\ UNCHANGED <<claimed, overlap, meta, context>>
  BY DEF Route, LoadTask, At, Alive
<1>3. \A b \in Attempt : b # a => att'[b] = att[b]
  BY <1>1 DEF Route, LoadTask
<1>4. \/ /\ att[a].pc = "claimed" /\ att'[a].pc = "routing" /\ att'[a].seen = meta
         /\ att'[a].link = claimed /\ att'[a].load = att[a].load /\ att'[a].row = att[a].row
      \/ /\ att[a].pc = "opened" /\ att'[a].pc = "loaded"
         /\ att'[a].load = claimed /\ att'[a].link = att[a].link /\ att'[a].row = att[a].row
  <2>1. CASE Route(a)
    <3>1. att'[a] = [att[a] EXCEPT !.pc = "routing", !.link = claimed, !.seen = meta]
      BY <1>1, <2>1 DEF Route, NewestRun
    <3>2. QED
      BY <1>1, <2>1, <3>1 DEF State, Route, At
  <2>2. CASE LoadTask(a)
    <3>1. att'[a] = [att[a] EXCEPT !.pc = "loaded", !.load = claimed]
      BY <1>1, <2>2 DEF LoadTask, NewestRun
    <3>2. QED
      BY <1>1, <2>2, <3>1 DEF State, LoadTask, At
  <2>3. QED
    BY <2>1, <2>2
<1>5. a <= claimed
  BY <1>1, <1>2 DEF Core, Shape
<1>6. Serial'
  BY <1>2, <1>3, <1>4 DEF Lookups, Serial, Alive
<1>7. Found'
  <2>1. SUFFICES ASSUME NEW b \in Attempt
                 PROVE  /\ att'[b].link = 0 \/ (b <= att'[b].link /\ att'[b].link <= claimed')
                        /\ att'[b].load = 0 \/ (b <= att'[b].load /\ att'[b].load <= claimed')
                        /\ att'[b].row # "none" => b <= claimed'
                        /\ Alive(b)' => (att'[b].row = "none" <=> att'[b].pc \in {"claimed", "routing"})
                        /\ att'[b].pc = "idle" => att'[b].row = "none"
    BY DEF Found
  <2>2. CASE b = a
    BY <1>1, <1>2, <1>4, <1>5, <2>2 DEF Lookups, Found, Alive
  <2>3. CASE b # a
    BY <1>2, <1>3, <2>3 DEF Lookups, Found, Alive
  <2>4. QED
    BY <2>2, <2>3
<1>8. MetadataIsCurrent'
  <2>1. \A b \in Attempt : att'[b].row = att[b].row
    BY <1>3, <1>4
  <2>2. QED
    BY <1>2, <2>1 DEF Lookups, MetadataIsCurrent
<1>9. QED
  BY <1>6, <1>7, <1>8 DEF Lookups

LEMMA BuildContextLookups ==
  ASSUME Core, Lookups, NEW a \in Attempt, BuildContext(a)
  PROVE  Lookups'
<1>1. att \in [Attempt -> State] /\ att[a] \in State /\ context \in [Attempt -> 0..MaxAttempts]
  BY DEF Core, TypeOK
<1>2. att[a].pc = "loaded" /\ Alive(a) /\ UNCHANGED <<claimed, overlap, meta>>
      /\ context' = [context EXCEPT ![att[a].load] = a]
  BY DEF BuildContext, At, Alive
<1>3. att'[a] = [att[a] EXCEPT !.pc = "planning"] /\ \A b \in Attempt : b # a => att'[b] = att[b]
  BY <1>1 DEF BuildContext
<1>4. att'[a].pc = "planning" /\ \A b \in Attempt :
        att'[b].link = att[b].link /\ att'[b].load = att[b].load /\ att'[b].row = att[b].row
  BY <1>1, <1>3 DEF State
<1>5. Serial'
  <2>1. ~overlap => \A b \in Attempt : context'[b] \in {0, b}
    <3> SUFFICES ASSUME ~overlap, NEW b \in Attempt PROVE context'[b] \in {0, b}
      OBVIOUS
    <3>1. context[b] \in {0, b} /\ att[a].load \in {0, a}
      BY DEF Lookups, Serial
    <3>2. context'[b] = IF b = att[a].load THEN a ELSE context[b]
      BY <1>1, <1>2
    <3>3. QED
      BY <3>1, <3>2 DEF Attempt
  <2>2. QED
    BY <1>2, <1>3, <1>4, <2>1 DEF Lookups, Serial, Alive
<1>6. Found'
  BY <1>2, <1>3, <1>4 DEF Lookups, Found, Alive
<1>7. MetadataIsCurrent'
  BY <1>2, <1>4 DEF Lookups, MetadataIsCurrent
<1>8. QED
  BY <1>5, <1>6, <1>7 DEF Lookups

LEMMA ReadBackLookups ==
  ASSUME Core, Lookups, NEW a \in Attempt, ReadBack(a)
  PROVE  Lookups'
<1>1. att \in [Attempt -> State] /\ att[a] \in State /\ meta \in Meta
  BY DEF Core, TypeOK
<1>2. att[a].pc = "closing" /\ Alive(a) /\ UNCHANGED <<claimed, overlap, meta, context>>
  BY DEF ReadBack, At, Alive
<1>3. att'[a] = [att[a] EXCEPT !.pc = "committing", !.seen = meta]
      /\ \A b \in Attempt : b # a => att'[b] = att[b]
  BY <1>1 DEF ReadBack
<1>4. att'[a].pc = "committing" /\ att'[a].seen = meta /\ \A b \in Attempt :
        att'[b].link = att[b].link /\ att'[b].load = att[b].load /\ att'[b].row = att[b].row
  BY <1>1, <1>3 DEF State
<1>5. Serial'
  BY <1>2, <1>3, <1>4 DEF Lookups, Serial, Alive
<1>6. Found'
  BY <1>2, <1>3, <1>4 DEF Lookups, Found, Alive
<1>7. MetadataIsCurrent'
  BY <1>2, <1>4 DEF Lookups, MetadataIsCurrent
<1>8. QED
  BY <1>5, <1>6, <1>7 DEF Lookups

\* The attempt alive is the newest: what it writes into the metadata is the maximum.
LEMMA WriteMetadata ==
  ASSUME Core, Lookups, NEW a \in Attempt, OpenRun(a) \/ CloseRun(a)
  PROVE  Lookups'
<1>1. att \in [Attempt -> State] /\ att[a] \in State /\ claimed \in Nat /\ a \in Nat
      /\ meta \in Meta /\ att[a].seen \in Meta
  <2>1. att \in [Attempt -> State] /\ att[a] \in State /\ meta \in Meta
        /\ claimed \in Nat /\ a \in Nat
    BY RunAssumption DEF Core, TypeOK, Attempt
  <2>2. QED
    BY <2>1 DEF State
<1>2. att[a].pc \in {"routing", "committing"} /\ Alive(a) /\ UNCHANGED <<claimed, overlap, context>>
  BY DEF OpenRun, CloseRun, At, Alive
<1>3. \A b \in Attempt : b # a => att'[b] = att[b]
  BY <1>1 DEF OpenRun, CloseRun
<1>4. \/ /\ att[a].pc = "routing" /\ att'[a].pc = "opened" /\ att'[a].row = "running"
         /\ meta' = [att[a].seen EXCEPT !.routed = a]
      \/ /\ att[a].pc = "committing" /\ att'[a].pc \in {"learning", "ended"} /\ att'[a].row \in Verdict
         /\ meta' = [att[a].seen EXCEPT !.final = a]
  <2>1. CASE OpenRun(a)
    <3>1. att'[a] = [att[a] EXCEPT !.pc = "opened", !.row = "running"]
      BY <1>1, <2>1 DEF OpenRun
    <3>2. QED
      BY <1>1, <2>1, <3>1 DEF State, OpenRun, At
  <2>2. CASE CloseRun(a)
    <3>1. \/ att'[a] = [att[a] EXCEPT !.pc = "learning", !.row = att[a].verdict]
          \/ att'[a] = [att[a] EXCEPT !.pc = "ended", !.row = att[a].verdict,
                                      !.outcome = att[a].verdict]
      BY <1>1, <2>2 DEF CloseRun
    <3>2. QED
      BY <1>1, <2>2, <3>1 DEF State, CloseRun, At
  <2>3. QED
    BY <2>1, <2>2
<1>5. a <= claimed /\ att'[a].link = att[a].link /\ att'[a].load = att[a].load
  <2>1. a <= claimed
    BY <1>1, <1>2 DEF Core, Shape
  <2>2. att'[a].link = att[a].link /\ att'[a].load = att[a].load
    BY <1>1 DEF OpenRun, CloseRun, State
  <2>3. QED
    BY <2>1, <2>2
<1>6. Serial'
  BY <1>2, <1>3, <1>4, <1>5 DEF Lookups, Serial, Alive
<1>7. Found'
  BY <1>1, <1>2, <1>3, <1>4, <1>5 DEF Lookups, Found, Alive, Verdict
<1>8. MetadataIsCurrent'
  <2> SUFFICES ASSUME ~overlap
      PROVE  /\ meta'.routed = Max({0} \cup {b \in Attempt : att'[b].row # "none"})
             /\ meta'.final = Max({0} \cup {b \in Attempt : att'[b].row \in Verdict})
    BY <1>2 DEF MetadataIsCurrent
  <2>1. a = claimed /\ att[a].seen = meta
        /\ meta.routed = Max({0} \cup {b \in Attempt : att[b].row # "none"})
        /\ meta.final = Max({0} \cup {b \in Attempt : att[b].row \in Verdict})
    BY <1>2 DEF Lookups, Serial, MetadataIsCurrent
  <2>2. \A b \in Attempt : b \in Nat /\ (att'[b].row # "none" => b <= a)
    BY <1>1, <1>2, <2>1, <1>7 DEF Found, Attempt
  <2>3. CASE att[a].pc = "routing"
    <3>1. meta'.routed = a /\ meta'.final = meta.final /\ att'[a].row = "running"
          /\ att[a].row = "none"
      BY <1>1, <1>2, <1>4, <2>1, <2>3 DEF Meta, Lookups, Found
    <3>2. Max({0} \cup {b \in Attempt : att'[b].row # "none"}) = a
      BY <1>1, <2>2, <3>1, MaxIs
    <3>3. {b \in Attempt : att'[b].row \in Verdict} = {b \in Attempt : att[b].row \in Verdict}
      BY <1>3, <3>1 DEF Verdict
    <3>4. QED
      BY <2>1, <3>1, <3>2, <3>3
  <2>4. CASE att[a].pc = "committing"
    <3>1. meta'.final = a /\ meta'.routed = meta.routed /\ att'[a].row \in Verdict
          /\ att[a].row # "none"
      BY <1>1, <1>2, <1>4, <2>1, <2>4 DEF Meta, Lookups, Found
    <3>2. Max({0} \cup {b \in Attempt : att'[b].row \in Verdict}) = a
      BY <1>1, <2>2, <3>1, MaxIs DEF Verdict
    <3>3. {b \in Attempt : att'[b].row # "none"} = {b \in Attempt : att[b].row # "none"}
      BY <1>3, <3>1 DEF Verdict
    <3>4. QED
      BY <2>1, <3>1, <3>2, <3>3
  <2>5. QED
    BY <1>2, <2>3, <2>4
<1>9. QED
  BY <1>6, <1>7, <1>8 DEF Lookups

\* The actions that look nothing up and write nothing that is looked up.
LEMMA OthersLookups ==
  ASSUME Core, Lookups, NEW a \in Attempt,
         \/ \E result \in Verdict : RunHarness(a, result)
         \/ \E p \in PlansOf(mode) : PersistPlan(a, p) \/ PlanConflict(a, p)
         \/ Execute(a)
         \/ SaveMemory(a) \/ Learn(a) \/ Die(a)
  PROVE  Lookups'
<1>1. att \in [Attempt -> State] /\ att[a] \in State
  BY DEF Core, TypeOK
<1>2. Core'
  <2>1. Next
    BY DEF Next, Proceed
  <2>2. QED
    BY <2>1, NextCore
<1> DEFINE Moved == /\ att' = [att EXCEPT ![a] = att'[a]] /\ Alive(a)
                    /\ att'[a].link = att[a].link /\ att'[a].load = att[a].load
                    /\ att'[a].row = att[a].row
                    /\ \/ att'[a].pc = "ended"
                       \/ /\ att'[a].pc \notin {"idle", "claimed", "routing", "committing"}
                          /\ att[a].pc \notin {"claimed", "routing"}
                    /\ UNCHANGED <<claimed, overlap, meta, context>>
<1>3. Moved => Lookups'
  <2> SUFFICES ASSUME Moved PROVE Lookups'
    OBVIOUS
  <2>1. att'[a] \in State
    BY <1>2 DEF Core, TypeOK
  <2>2. QED
    BY <2>1, Aside
<1> USE <1>1 DEF State, At, Alive
<1>4. ASSUME NEW result \in Verdict, RunHarness(a, result)
      PROVE  Moved
  BY <1>4 DEF RunHarness
<1>5. ASSUME NEW p \in PlansOf(mode), PersistPlan(a, p)
      PROVE  Moved
  BY <1>5 DEF PersistPlan
<1>6. ASSUME NEW p \in PlansOf(mode), PlanConflict(a, p)
      PROVE  Moved
  BY <1>6 DEF PlanConflict
<1>7. CASE Begin(a)
  <2>1. Moved
    BY <1>7 DEF Begin, AtStep
  <2>2. QED
    BY <2>1, <1>3
<1>8. CASE FinalizeStep(a)
  <2>1. Moved
    BY <1>8 DEF FinalizeStep
  <2>2. QED
    BY <2>1, <1>3
<1>9. CASE Worked(a)
  <2>1. Moved
    BY <1>9 DEF Worked, AtStep
  <2>2. QED
    BY <2>1, <1>3
<1>10. CASE Fail(a)
  <2>1. Moved
    BY <1>10 DEF Fail, Break, AtStep
  <2>2. QED
    BY <2>1, <1>3
<1>11. CASE Pause(a)
  <2>1. Moved
    BY <1>11 DEF Pause, Break, AtStep
  <2>2. QED
    BY <2>1, <1>3
<1>12. CASE TickOff(a)
  <2>1. Moved
    BY <1>12 DEF TickOff, Advance, AtStep
  <2>2. QED
    BY <2>1, <1>3
<1>13. CASE Skip(a)
  <2>1. Moved
    BY <1>13 DEF Skip, Advance, AtStep
  <2>2. QED
    BY <2>1, <1>3
<1>14. CASE PlanDone(a)
  <2>1. Moved
    BY <1>14 DEF PlanDone
  <2>2. QED
    BY <2>1, <1>3
<1>15. ASSUME NEW result \in Verdict, EndLoop(a, result)
      PROVE  Moved
  BY <1>15 DEF EndLoop, AtStep
<1>16. CASE SaveMemory(a)
  <2>1. Moved
    BY <1>16 DEF SaveMemory
  <2>2. QED
    BY <2>1, <1>3
<1>17. CASE Learn(a)
  <2>1. Moved
    BY <1>17 DEF Learn
  <2>2. QED
    BY <2>1, <1>3
<1>18. CASE Die(a)
  <2>1. Moved
    BY <1>18 DEF Die
  <2>2. QED
    BY <2>1, <1>3
<1>19. QED
  BY <1>3, <1>4, <1>5, <1>6, <1>7, <1>8, <1>9, <1>10, <1>11, <1>12, <1>13, <1>14, <1>15, <1>16, <1>17, <1>18 DEF Execute

LEMMA NextLookups == Core /\ Lookups /\ [Next]_vars => Lookups'
<1> SUFFICES ASSUME Core, Lookups, [Next]_vars PROVE Lookups'
  OBVIOUS
<1>1. CASE UNCHANGED vars
  BY <1>1 DEF vars, Lookups, Serial, Found, MetadataIsCurrent, Alive
<1>2. CASE Claim
  BY <1>2, ClaimLookups
<1>4. ASSUME NEW a \in Attempt, Proceed(a) \/ Die(a)
      PROVE  Lookups'
  <2>1. CASE Route(a) \/ LoadTask(a)
    BY <2>1, LookupRun
  <2>2. CASE OpenRun(a) \/ CloseRun(a)
    BY <2>2, WriteMetadata
  <2>3. CASE BuildContext(a)
    BY <2>3, BuildContextLookups
  <2>4. CASE ReadBack(a)
    BY <2>4, ReadBackLookups
  <2>5. QED
    BY <1>4, <2>1, <2>2, <2>3, <2>4, OthersLookups DEF Proceed
<1>5. QED
  BY <1>1, <1>2, <1>4 DEF Next

THEOREM Invariant == Spec => []IInv
<1>1. Init => IInv
  BY InitCore, InitLookups DEF IInv
<1>2. IInv /\ [Next]_vars => IInv'
  BY NextCore, NextLookups DEF IInv
<1>3. QED
  BY <1>1, <1>2, PTL DEF Spec

\* No attempt takes an older TaskRun for its own, and without an overlap none but
\* its own (run_task, load_task, build_context).
THEOREM OwnRun == Spec => []RunIsOwn
<1>1. IInv => RunIsOwn
  <2> SUFFICES ASSUME Core, Lookups, NEW a \in Attempt
      PROVE  LET found == {att[a].link, att[a].load} \ {0} IN
             /\ \A r \in found : a <= r
             /\ ~overlap => found \subseteq {a} /\ context[a] \in {0, a}
    BY DEF RunIsOwn, IInv
  <2>1. (att[a].link = 0 \/ a <= att[a].link) /\ (att[a].load = 0 \/ a <= att[a].load)
    BY DEF Lookups, Found
  <2>2. ~overlap => att[a].link \in {0, a} /\ att[a].load \in {0, a} /\ context[a] \in {0, a}
    BY DEF Lookups, Serial
  <2>3. QED
    BY <2>1, <2>2
<1>2. QED
  BY <1>1, Invariant, PTL

\* Without an overlap the metadata of the task tells its last routing and its last
\* verdict (run_task, _finalize_agent_run).
THEOREM CurrentMetadata == Spec => []MetadataIsCurrent
<1>1. IInv => MetadataIsCurrent
  BY DEF IInv, Lookups
<1>2. QED
  BY <1>1, Invariant, PTL

-----------------------------------------------------------------------------
(* The steps an attempt of the legacy executor has behind it.              *)

Behind(a) ==
  mode = "legacy" =>
    /\ att[a].plan = <<>> => att[a].pos = 1
    /\ att[a].pos <= Len(att[a].plan) + 1
    /\ \A i \in 1 .. att[a].pos - 1 :
         att[a].plan[i] # "skip" => steps[i] = [status |-> "completed", by |-> a]
    /\ HasVerdict(a) /\ att[a].verdict = "completed" =>
         att[a].pos = Len(att[a].plan) + 1

AllBehind == \A a \in Attempt : Behind(a)

\* An attempt that does not act keeps what it has behind it, as long as it has no
\* plan or the steps stay as they are.
LEMMA OtherBehind ==
  ASSUME Core, NEW b \in Attempt, Behind(b), att'[b] = att[b], mode' = mode,
         steps' = steps \/ att[b].plan = <<>>
  PROVE  Behind(b)'
<1>1. att[b] \in State
  BY DEF Core, TypeOK
<1>2. CASE steps' = steps
  BY <1>2 DEF Behind, HasVerdict
<1>3. CASE att[b].plan = <<>>
  <2>1. mode = "legacy" => 1 .. att[b].pos - 1 = {}
    BY <1>3 DEF Behind
  <2>2. QED
    BY <1>3, <2>1 DEF Behind, HasVerdict
<1>4. QED
  BY <1>2, <1>3

\* The step an attempt is at is done, or passed over.
LEMMA AdvanceBehind ==
  ASSUME Core, AllBehind, NEW a \in Attempt, TickOff(a) \/ Skip(a)
  PROVE  AllBehind'
<1>1. att[a].plan # <<>> /\ att[a].pos \in 1..Len(steps) /\ At(a, att[a].pc)
      /\ att[a].pc \in Busy
  <2>1. CASE TickOff(a)
    BY <2>1, AtStepOwns DEF TickOff, At, Busy
  <2>2. CASE Skip(a)
    BY <2>2, AtStepOwns DEF Skip, At, Busy
  <2>3. QED
    BY <2>1, <2>2
<1>2. /\ steps \in Seq([status : StepStatus, by : Attempt])
      /\ Len(steps) = Len(att[a].plan) /\ Len(steps) \in Nat
      /\ att[a] \in State /\ att \in [Attempt -> State]
      /\ \A i \in 1..Len(steps) : steps[i] \in [status : StepStatus, by : Attempt] /\ steps[i].by = a
  BY <1>1, StepRows
<1>3. Shape(a) /\ Behind(a)
  BY DEF Core, AllBehind
<1>4. /\ mode' = mode
      /\ att' = [att EXCEPT ![a].pc = "executing", ![a].pos = att[a].pos + 1]
  BY DEF TickOff, Skip, Advance
<1>5. /\ att'[a].plan = att[a].plan /\ att'[a].pos = att[a].pos + 1
      /\ att'[a].pc = "executing" /\ att'[a].outcome = att[a].outcome
  BY <1>2, <1>4 DEF State
<1>6. ~HasVerdict(a)'
  <2>1. att[a].outcome = "none"
    BY <1>1, <1>3 DEF Shape, Busy
  <2>2. QED
    BY <1>5, <2>1 DEF HasVerdict, Late, Verdict
<1>7. \A i \in 1 .. att[a].pos - 1 : steps'[i] = steps[i]
  BY <1>1, <1>2 DEF TickOff, Skip
<1>8. att[a].plan[att[a].pos] # "skip" =>
        steps'[att[a].pos] = [status |-> "completed", by |-> a]
  <2>1. CASE TickOff(a)
    <3>1. steps' = [steps EXCEPT ![att[a].pos].status = "completed"]
      BY <2>1 DEF TickOff
    <3>2. steps'[att[a].pos] = [steps[att[a].pos] EXCEPT !.status = "completed"]
      BY <1>1, <1>2, <3>1
    <3>3. steps[att[a].pos] \in [status : StepStatus, by : Attempt] /\ steps[att[a].pos].by = a
      BY <1>1, <1>2
    <3>4. QED
      BY <3>2, <3>3
  <2>2. CASE Skip(a)
    BY <2>2 DEF Skip, AtStep, Kind
  <2>3. QED
    BY <2>1, <2>2
<1>9. Behind(a)'
  <2> SUFFICES ASSUME mode = "legacy"
      PROVE  /\ att[a].pos + 1 <= Len(att[a].plan) + 1
             /\ \A i \in 1 .. att[a].pos : att[a].plan[i] # "skip" =>
                  steps'[i] = [status |-> "completed", by |-> a]
    BY <1>1, <1>2, <1>4, <1>5, <1>6 DEF Behind
  <2>1. \A i \in 1 .. att[a].pos - 1 : att[a].plan[i] # "skip" =>
          steps[i] = [status |-> "completed", by |-> a]
    BY <1>3 DEF Behind
  <2>2. att[a].pos \in Nat /\ att[a].pos <= Len(att[a].plan)
    BY <1>1, <1>2
  <2>3. ASSUME NEW i \in 1 .. att[a].pos, att[a].plan[i] # "skip"
        PROVE  steps'[i] = [status |-> "completed", by |-> a]
    <3>1. CASE i = att[a].pos
      BY <1>8, <2>3, <3>1
    <3>2. CASE i # att[a].pos
      <4>1. i \in 1 .. att[a].pos - 1
        BY <2>2, <2>3, <3>2
      <4>2. QED
        BY <1>7, <2>1, <2>3, <4>1
    <3>3. QED
      BY <3>1, <3>2
  <2>4. QED
    BY <2>2, <2>3
<1>10. ASSUME NEW b \in Attempt, b # a
       PROVE  Behind(b)'
  <2>1. att'[b] = att[b]
    BY <1>2, <1>4, <1>10
  <2>2. att[b].plan = <<>>
    BY <1>1, <1>10, OneOwner
  <2>3. QED
    BY <1>4, <2>1, <2>2, OtherBehind DEF AllBehind
<1>11. QED
  BY <1>9, <1>10 DEF AllBehind

\* A plan is inserted where there are no steps, so no attempt has any behind it.
LEMMA PersistPlanBehind ==
  ASSUME Core, AllBehind, NEW a \in Attempt, NEW p \in PlansOf(mode), PersistPlan(a, p)
  PROVE  AllBehind'
<1>1. att \in [Attempt -> State] /\ att[a] \in State /\ Shape(a)
      /\ att[a].pc = "planning" /\ att[a].pos = 1 /\ att[a].outcome = "none"
  BY DEF Core, TypeOK, PersistPlan, At, Shape, Early
<1>2. mode = "legacy" => p \in Seq(StepKind)
  BY RunAssumption DEF PlansOf
<1>3. /\ mode' = mode
      /\ att' = [att EXCEPT ![a].pc = "executing", ![a].plan = p]
  BY DEF PersistPlan
<1>4. /\ att'[a].plan = p /\ att'[a].pos = 1
      /\ att'[a].pc = "executing" /\ att'[a].outcome = "none"
  BY <1>1, <1>3 DEF State
<1>5. Behind(a)'
  <2>1. ~HasVerdict(a)'
    BY <1>4 DEF HasVerdict, Late, Verdict
  <2>2. mode = "legacy" => 1 <= Len(p) + 1
    BY <1>2
  <2>3. 1 .. att'[a].pos - 1 = {}
    BY <1>4
  <2>4. QED
    BY <1>3, <1>4, <2>1, <2>2, <2>3 DEF Behind
<1>6. ASSUME NEW b \in Attempt, b # a
      PROVE  Behind(b)'
  <2>1. att'[b] = att[b]
    BY <1>1, <1>3, <1>6
  <2>2. steps' = steps \/ att[b].plan = <<>>
    <3>1. CASE steps = <<>>
      BY <3>1, StepRows
    <3>2. CASE steps # <<>>
      BY <3>2 DEF PersistPlan
    <3>3. QED
      BY <3>1, <3>2
  <2>3. QED
    BY <1>3, <2>1, <2>2, OtherBehind DEF AllBehind
<1>7. QED
  BY <1>5, <1>6 DEF AllBehind

\* The other steps leave the rows of a legacy plan as they are; those that bring a
\* verdict of "completed" come after the last step of the plan.
LEMMA RestBehind ==
  ASSUME Core, AllBehind, NEW a \in Attempt, mode = "legacy",
         Proceed(a) \/ Die(a), ~TickOff(a), ~Skip(a),
         ~\E p \in PlansOf(mode) : PersistPlan(a, p)
  PROVE  AllBehind'
<1>1. att \in [Attempt -> State] /\ att[a] \in State /\ Shape(a) /\ ShapeOfMode(a) /\ Behind(a)
  BY DEF Core, TypeOK, AllBehind
<1>2. att[a].plan \in Seq(StepKind) /\ att[a].pos \in Nat \ {0}
  BY <1>1 DEF State, ShapeOfMode
<1> DEFINE Kept == /\ mode' = mode /\ steps' = steps
                   /\ \A b \in Attempt \ {a} : att'[b] = att[b]
                   /\ att'[a].plan = att[a].plan /\ att'[a].pos = att[a].pos
           Concluded == HasVerdict(a)' /\ att'[a].verdict = "completed" =>
                          att[a].pos = Len(att[a].plan) + 1
<1>3. Kept /\ Concluded
  <2>1. CASE \/ Route(a) \/ OpenRun(a) \/ LoadTask(a) \/ BuildContext(a)
             \/ (\E p \in PlansOf(mode) : PlanConflict(a, p))
             \/ (\E result \in Verdict : EndLoop(a, result))
             \/ Begin(a) \/ Worked(a) \/ Die(a)
    BY <1>1, <2>1 DEF Route, OpenRun, LoadTask, BuildContext, PlanConflict, EndLoop, Begin,
       Worked, Die, At, AtStep, Alive, State, Shape, HasVerdict, Late, Verdict
  <2>2. CASE (\E result \in Verdict : RunHarness(a, result)) \/ FinalizeStep(a)
    BY <1>1, <2>2 DEF RunHarness, FinalizeStep, At, ShapeOfMode
  <2>3. CASE Fail(a) \/ Pause(a)
    BY <1>1, <2>3 DEF Fail, Pause, Break, State
  <2>4. CASE PlanDone(a)
    BY <1>1, <1>2, <2>4 DEF PlanDone, Behind, State
  <2>5. CASE SaveMemory(a) \/ ReadBack(a) \/ CloseRun(a) \/ Learn(a)
    BY <1>1, <2>5 DEF SaveMemory, ReadBack, CloseRun, Learn, At, State, Behind, HasVerdict, Late
  <2>6. QED
    BY <2>1, <2>2, <2>3, <2>4, <2>5 DEF Proceed, Execute
<1>4. Behind(a)'
  BY <1>1, <1>3 DEF Behind
<1>5. ASSUME NEW b \in Attempt, b # a
      PROVE  Behind(b)'
  BY <1>3, <1>5, OtherBehind DEF AllBehind
<1>6. QED
  BY <1>4, <1>5 DEF AllBehind

LEMMA NextBehind == Core /\ AllBehind /\ [Next]_vars => AllBehind'
<1> SUFFICES ASSUME Core, AllBehind, [Next]_vars PROVE AllBehind'
  OBVIOUS
<1>1. CASE UNCHANGED vars
  BY <1>1, OtherBehind DEF vars, AllBehind
<1>2. CASE Claim
  <2>1. att \in [Attempt -> State] /\ claimed + 1 \in Attempt /\ mode' = mode /\ steps' = steps
    BY <1>2, RunAssumption DEF Core, TypeOK, Claim, Attempt
  <2>2. ASSUME NEW b \in Attempt
        PROVE  Behind(b)'
    <3>1. CASE b # claimed + 1
      BY <1>2, <2>1, <3>1, OtherBehind DEF Claim, AllBehind
    <3>2. CASE b = claimed + 1
      <4>1. att'[b] = [att[b] EXCEPT !.pc = "claimed"] /\ att[b] \in State /\ Shape(b)
        BY <1>2, <2>1, <3>2 DEF Claim, Core
      <4>2. att[b].pc = "idle"
        BY <2>1, <3>2, <4>1 DEF Shape, Core, TypeOK
      <4>3. ~HasVerdict(b)'
        BY <4>1, <4>2 DEF Shape, State, HasVerdict, Late, Verdict
      <4>4. att'[b].plan = att[b].plan /\ att'[b].pos = att[b].pos
        BY <4>1 DEF State
      <4>5. QED
        BY <2>1, <4>3, <4>4 DEF Behind, AllBehind
    <3>3. QED
      BY <3>1, <3>2
  <2>3. QED
    BY <2>2 DEF AllBehind
<1>3. ASSUME NEW a \in Attempt, Proceed(a) \/ Die(a)
      PROVE  AllBehind'
  <2>1. CASE TickOff(a) \/ Skip(a)
    BY <2>1, AdvanceBehind
  <2>2. CASE \E p \in PlansOf(mode) : PersistPlan(a, p)
    BY <2>2, PersistPlanBehind
  <2>3. CASE mode # "legacy"
    <3>1. mode' = mode
      BY <1>3 DEF Proceed, Execute, Die, Route, OpenRun, LoadTask, BuildContext, PersistPlan,
         PlanConflict, RunHarness, Begin, FinalizeStep, Worked, Fail, Pause, Break, TickOff,
         Skip, PlanDone, EndLoop, SaveMemory, ReadBack, CloseRun, Learn
    <3>2. QED
      BY <2>3, <3>1 DEF AllBehind, Behind
  <2>4. QED
    BY <1>3, <2>1, <2>2, <2>3, RestBehind
<1>4. QED
  BY <1>1, <1>2, <1>3 DEF Next

\* A completed attempt of the legacy executor has done its whole plan but for the
\* steps it passed over, and a failed or paused one what came before the step that
\* stopped it (_execute_legacy_steps).
THEOREM BehindDone == Spec => []StepsBehindAreDone
<1>1. Init => Core /\ AllBehind
  <2>1. Init => AllBehind
    BY DEF Init, Idle, AllBehind, Behind, HasVerdict, Late, Verdict
  <2>2. QED
    BY <2>1, InitCore
<1>2. (Core /\ AllBehind) /\ [Next]_vars => (Core /\ AllBehind)'
  BY NextCore, NextBehind
<1>3. Core /\ AllBehind => StepsBehindAreDone
  <2> SUFFICES ASSUME Core, AllBehind, mode = "legacy", NEW a \in Attempt,
                      att[a].outcome \in Verdict
      PROVE  /\ att[a].outcome = "completed" => att[a].pos = Len(att[a].plan) + 1
             /\ \A i \in 1 .. att[a].pos - 1 :
                  att[a].plan[i] # "skip" => steps[i] = [status |-> "completed", by |-> a]
    BY DEF StepsBehindAreDone
  <2>1. att[a].verdict = att[a].outcome /\ HasVerdict(a)
    BY DEF Core, Shape, HasVerdict
  <2>2. QED
    BY <2>1 DEF AllBehind, Behind
<1>4. QED
  BY <1>1, <1>2, <1>3, PTL DEF Spec

-----------------------------------------------------------------------------
(***************************************************************************)
(* The attempts and the queue that hands them out: TaskAttempts.           *)
(*                                                                         *)
(* An attempt is alive only while its worker has not reported, and as long *)
(* as nobody has resumed the task too early there is at most one of those, *)
(* the newest (QueueInv).  With the invariants of AgentRun, which hold     *)
(* whatever the queue does, the status of the task is what the attempt     *)
(* that reported has left behind.                                          *)
(***************************************************************************)

\* The status is the report of attempt a, which is over.
Reported(a) ==
  /\ a \in 1..claimed /\ a \notin open /\ At(a, "ended")
  /\ taskStatus = Recorded(att[a].outcome)

OpenAttempts ==
  /\ open \subseteq 1..claimed
  /\ \A a \in Attempt : Alive(a) => a \in open

QueueInv ==
  /\ OpenAttempts
  /\ taskStatus = "absent" => claimed = 0
  /\ taskStatus = "pending" /\ ~resumed => open = {}
  /\ ~resumed => open \subseteq {claimed} /\ told \in {0, claimed}
  /\ OverlapIsResumed
  /\ told # 0 => Reported(told)
  /\ taskStatus \in {"completed", "failed"} => told # 0

\* A step of an attempt is a step of its own coroutine and nobody else's, and is
\* neither a claim nor an overlap.
LEMMA AttendDoes ==
  ASSUME TypeOK, NEW a \in Attempt, Proceed(a) \/ Die(a)
  PROVE  /\ Alive(a)
         /\ UNCHANGED <<claimed, overlap>>
         /\ \A b \in Attempt : b # a => att'[b] = att[b]
<1>1. att \in [Attempt -> State]
  BY DEF TypeOK
<1>2. CASE Die(a)
  BY <1>1, <1>2 DEF Die
<1>3. CASE Execute(a)
  <2>1. Alive(a)
    BY <1>3 DEF Execute, Alive, Begin, FinalizeStep, Worked, Fail, Pause, TickOff, Skip, PlanDone,
       EndLoop, AtStep, At
  <2>2. UNCHANGED <<claimed, overlap>>
    BY <1>3 DEF Execute, Begin, FinalizeStep, Worked, Fail, Pause, Break, TickOff, Skip, PlanDone,
       EndLoop
  <2>3. \A b \in Attempt : b # a => att'[b] = att[b]
    BY <1>1, <1>3 DEF Execute, Begin, FinalizeStep, Worked, Fail, Pause, Break, TickOff, Skip,
       PlanDone, EndLoop, Advance
  <2>4. QED
    BY <2>1, <2>2, <2>3
<1>4. CASE Proceed(a) /\ ~Execute(a)
  <2>1. Alive(a)
    BY <1>4 DEF Proceed, Alive, Route, OpenRun, LoadTask, BuildContext, PersistPlan, PlanConflict,
       RunHarness, SaveMemory, ReadBack, CloseRun, Learn, At
  <2>2. UNCHANGED <<claimed, overlap>>
    BY <1>4 DEF Proceed, Route, OpenRun, LoadTask, BuildContext, PersistPlan, PlanConflict,
       RunHarness, SaveMemory, ReadBack, CloseRun, Learn
  <2>3. \A b \in Attempt : b # a => att'[b] = att[b]
    BY <1>1, <1>4 DEF Proceed, Route, OpenRun, LoadTask, BuildContext, PersistPlan, PlanConflict,
       RunHarness, SaveMemory, ReadBack, CloseRun, Learn
  <2>4. QED
    BY <2>1, <2>2, <2>3
<1>5. QED
  BY <1>2, <1>3, <1>4

\* What a step of the queue and its workers is for the attempts.
LEMMA AttemptsStep == AttemptsNext => [Next]_vars
BY DEF AttemptsNext, SubmitTask, ClaimTask, SteerTask, Attend, LoseWorker, ReportOutcome,
   ReportDropped, Next

LEMMA AttemptsRun == AttemptsSpec => Spec
<1>1. AttemptsInit => Init
  BY DEF AttemptsInit
<1>2. [AttemptsNext]_attemptsVars => [Next]_vars
  <2>1. CASE UNCHANGED attemptsVars
    BY <2>1 DEF attemptsVars
  <2>2. QED
    BY <2>1, AttemptsStep
<1>3. QED
  BY <1>1, <1>2, PTL DEF AttemptsSpec, Spec

LEMMA QueueStarts == AttemptsInit => QueueInv
<1> SUFFICES ASSUME AttemptsInit PROVE QueueInv
  OBVIOUS
<1>1. claimed = 0 /\ open = {} /\ told = 0 /\ taskStatus = "absent" /\ ~overlap
  BY DEF AttemptsInit, Init
<1>2. \A a \in Attempt : ~Alive(a)
  BY DEF AttemptsInit, Init, Idle, Alive
<1>3. QED
  BY <1>1, <1>2 DEF QueueInv, OpenAttempts, OverlapIsResumed

LEMMA ClaimQueue ==
  ASSUME Core, QueueInv, ClaimTask
  PROVE  QueueInv'
<1> DEFINE n == claimed + 1
<1>1. /\ att \in [Attempt -> State] /\ claimed \in Nat /\ n \in Attempt /\ claimed' = n
      /\ att' = [att EXCEPT ![n].pc = "claimed"]
      /\ overlap' = (overlap \/ \E a \in Attempt : Alive(a))
      /\ taskStatus = "pending" /\ taskStatus' = "running" /\ open' = open \cup {n}
      /\ told' = 0 /\ resumed' = resumed
  BY RunAssumption DEF Core, TypeOK, ClaimTask, Claim, Attempt
<1>2. OpenAttempts'
  <2>1. \A a \in Attempt : Alive(a)' => a \in open'
    BY <1>1 DEF Alive, QueueInv, OpenAttempts
  <2>2. open' \subseteq 1..claimed'
    BY <1>1 DEF QueueInv, OpenAttempts
  <2>3. QED
    BY <2>1, <2>2 DEF OpenAttempts
<1>3. ~resumed => open = {}
  BY <1>1 DEF QueueInv
<1>4. OverlapIsResumed'
  BY <1>1, <1>3 DEF QueueInv, OpenAttempts, OverlapIsResumed
<1>5. QED
  BY <1>1, <1>2, <1>3, <1>4 DEF QueueInv

LEMMA AttendQueue ==
  ASSUME Core, QueueInv, NEW a \in Attempt, Proceed(a) \/ Die(a),
         open' \in {open, open \ {a}}, ~Alive(a)' \/ open' = open,
         UNCHANGED <<taskStatus, told, resumed>>
  PROVE  QueueInv'
<1>1. /\ Alive(a) /\ UNCHANGED <<claimed, overlap>>
      /\ \A b \in Attempt : b # a => att'[b] = att[b]
  BY AttendDoes DEF Core
<1>2. claimed \in 0..MaxAttempts /\ 1..claimed \subseteq Attempt
  BY RunAssumption DEF Core, TypeOK, Attempt
<1>3. a \in open
  BY <1>1 DEF QueueInv, OpenAttempts
<1>4. OpenAttempts'
  <2>1. \A b \in Attempt : b # a => (Alive(b)' <=> Alive(b))
    BY <1>1 DEF Alive
  <2>2. QED
    BY <1>1, <1>3, <2>1 DEF QueueInv, OpenAttempts
<1>5. told # 0 => Reported(told)'
  <2> SUFFICES ASSUME told # 0 PROVE Reported(told)'
    OBVIOUS
  <2>1. Reported(told) /\ told \in Attempt /\ told # a
    BY <1>2, <1>3 DEF QueueInv, Reported
  <2>2. att'[told] = att[told] /\ told' = told
    BY <1>1, <2>1
  <2>3. QED
    BY <1>1, <2>1, <2>2 DEF Reported, At
<1>6. QED
  BY <1>1, <1>4, <1>5 DEF QueueInv, OverlapIsResumed

\* The attempt itself is over, and its worker reports or is lost.
LEMMA LeaveQueue ==
  ASSUME Core, QueueInv, NEW a \in open, ~Alive(a), UNCHANGED <<vars, resumed>>,
         open' = open \ {a},
         \/ UNCHANGED <<taskStatus, told>>
         \/ At(a, "ended") /\ taskStatus' = Recorded(att[a].outcome) /\ told' = a
  PROVE  QueueInv'
<1>1. UNCHANGED <<claimed, overlap, att>>
  BY DEF vars
<1>2. OpenAttempts'
  BY <1>1 DEF QueueInv, OpenAttempts, Alive
<1>3. a \in 1..claimed /\ claimed \in Nat
  BY DEF QueueInv, OpenAttempts, Core, TypeOK
<1>4. CASE UNCHANGED <<taskStatus, told>>
  BY <1>1, <1>2, <1>4 DEF QueueInv, OverlapIsResumed, Reported, At
<1>5. CASE At(a, "ended") /\ taskStatus' = Recorded(att[a].outcome) /\ told' = a
  <2>1. taskStatus' \in {"completed", "failed", "paused"} /\ told' # 0
    BY <1>3, <1>5 DEF Recorded, Verdict
  <2>2. ~resumed => a = claimed
    BY DEF QueueInv
  <2>3. Reported(a)'
    BY <1>1, <1>3, <1>5 DEF Reported, At
  <2>4. told' # 0 => Reported(told)'
    BY <1>5, <2>3 DEF Reported, At
  <2>5. QED
    BY <1>1, <1>2, <1>5, <2>1, <2>2, <2>4 DEF QueueInv, OverlapIsResumed
<1>6. QED
  BY <1>4, <1>5

LEMMA SteerQueue == ASSUME QueueInv, SubmitTask \/ SteerTask PROVE QueueInv'
<1>1. UNCHANGED <<claimed, overlap, att, open>> /\ taskStatus' # "absent"
  BY DEF SubmitTask, SteerTask, vars
<1>2. OpenAttempts'
  BY <1>1 DEF QueueInv, OpenAttempts, Alive
<1>3. CASE SubmitTask
  <2>1. claimed = 0 /\ open = {}
    BY <1>3 DEF QueueInv, OpenAttempts, SubmitTask
  <2>2. told = 0 /\ told' = 0 /\ resumed' = resumed
    BY <1>3, <2>1 DEF QueueInv, Reported, SubmitTask
  <2>3. QED
    BY <1>1, <1>2, <1>3, <2>1, <2>2 DEF QueueInv, OverlapIsResumed, SubmitTask
<1>4. CASE SteerTask
  BY <1>1, <1>2, <1>4 DEF QueueInv, OverlapIsResumed, SteerTask
<1>5. QED
  BY <1>3, <1>4

LEMMA QueueGoesOn == Core /\ QueueInv /\ [AttemptsNext]_attemptsVars => QueueInv'
<1> SUFFICES ASSUME Core, QueueInv, [AttemptsNext]_attemptsVars PROVE QueueInv'
  OBVIOUS
<1>1. CASE UNCHANGED attemptsVars
  BY <1>1 DEF attemptsVars, vars, queueVars, QueueInv, OpenAttempts, OverlapIsResumed, Reported,
     Alive, At
<1>2. CASE SubmitTask \/ SteerTask
  BY <1>2, SteerQueue
<1>3. CASE ClaimTask
  BY <1>3, ClaimQueue
<1>4. ASSUME NEW a \in Attempt, Attend(a)
      PROVE  QueueInv'
  BY <1>4, AttendQueue DEF Attend, queueVars
<1>5. ASSUME NEW a \in Attempt, LoseWorker(a)
      PROVE  QueueInv'
  <2>1. CASE Alive(a)
    <3>1. Die(a) /\ att \in [Attempt -> State]
      BY <1>5, <2>1 DEF LoseWorker, Core, TypeOK
    <3>2. ~Alive(a)'
      BY <3>1 DEF Die, Alive
    <3>3. QED
      BY <1>5, <3>1, <3>2, AttendQueue DEF LoseWorker
  <2>2. CASE ~Alive(a)
    BY <1>5, <2>2, LeaveQueue DEF LoseWorker
  <2>3. QED
    BY <2>1, <2>2
<1>6. ASSUME NEW a \in Attempt, ReportOutcome(a) \/ ReportDropped(a)
      PROVE  QueueInv'
  <2>1. a \in open /\ ~Alive(a) /\ UNCHANGED <<vars, resumed>> /\ open' = open \ {a}
    BY <1>6 DEF ReportOutcome, ReportDropped, At, Alive
  <2>2. QED
    BY <1>6, <2>1, LeaveQueue DEF ReportOutcome, ReportDropped
<1>7. QED
  BY <1>1, <1>2, <1>3, <1>4, <1>5, <1>6 DEF AttemptsNext

THEOREM QueueInvariant == AttemptsSpec => []QueueInv
<1>1. AttemptsInit => QueueInv
  BY QueueStarts
<1>2. AttemptsSpec => []Core
  BY AttemptsRun, CoreInvariant, PTL
<1>3. Core /\ QueueInv /\ [AttemptsNext]_attemptsVars => QueueInv'
  BY QueueGoesOn
<1>4. QED
  BY <1>1, <1>2, <1>3, PTL DEF AttemptsSpec

\* The row of the task, and what is remembered of its reports, keep their types.
THEOREM AttemptsTypeCorrect == AttemptsSpec => []AttemptsTypeOK
<1> DEFINE Row == /\ taskStatus \in {"absent", "pending", "running", "cancelled"} \cup Verdict
                  /\ resumed \in BOOLEAN
<1>1. AttemptsInit => Row
  BY DEF AttemptsInit
<1>2. Row /\ [AttemptsNext]_attemptsVars => Row'
  BY DEF AttemptsNext, SubmitTask, ClaimTask, SteerTask, Attend, LoseWorker, ReportOutcome,
     ReportDropped, Recorded, Verdict, attemptsVars, queueVars
<1>3. Core /\ QueueInv /\ Row => AttemptsTypeOK
  <2> SUFFICES ASSUME Core, QueueInv, Row PROVE AttemptsTypeOK
    OBVIOUS
  <2>1. claimed \in 0..MaxAttempts /\ 1..claimed \subseteq Attempt
    BY RunAssumption DEF Core, TypeOK, Attempt
  <2>2. open \subseteq Attempt
    BY <2>1 DEF QueueInv, OpenAttempts
  <2>3. told \in 0..MaxAttempts
    <3>1. told = 0 \/ told \in Attempt
      BY <2>1 DEF QueueInv, Reported
    <3>2. QED
      BY <3>1, RunAssumption DEF Attempt
  <2>4. QED
    BY <2>2, <2>3 DEF AttemptsTypeOK
<1>4. AttemptsSpec => []Row
  BY <1>1, <1>2, PTL DEF AttemptsSpec
<1>5. QED
  BY <1>3, <1>4, AttemptsRun, CoreInvariant, QueueInvariant, PTL

\* Attempts at a task overlap only after a user has resumed it while one was open
\* (claim_next_task, worker_loop).
THEOREM OverlapResumed == AttemptsSpec => []OverlapIsResumed
<1>1. QueueInv => OverlapIsResumed
  BY DEF QueueInv
<1>2. QED
  BY <1>1, QueueInvariant, PTL

\* A task is completed or failed by the report of an attempt only, and its AgentRun,
\* its steps and, without a resume, its metadata say the same (worker_loop,
\* _finalize_agent_run, _finalize_step).
THEOREM Backed == AttemptsSpec => []StatusIsBacked
<1>1. IInv /\ VerdictAgrees /\ StepsBehindAreDone /\ QueueInv => StatusIsBacked
  <2> SUFFICES ASSUME IInv, VerdictAgrees, StepsBehindAreDone, QueueInv, told # 0
      PROVE  /\ taskStatus = "completed" => att[told].outcome = "completed"
             /\ att[told].outcome \in Verdict =>
                  /\ taskStatus = att[told].outcome /\ att[told].row = att[told].outcome
                  /\ mode = "hermes" => steps = <<[status |-> att[told].outcome, by |-> told]>>
                  /\ ~resumed => meta.final = told
             /\ mode = "legacy" /\ taskStatus = "completed" =>
                  \A i \in 1..Len(att[told].plan) :
                    att[told].plan[i] # "skip" => steps[i] = [status |-> "completed", by |-> told]
    BY DEF StatusIsBacked, QueueInv
  <2>1. /\ taskStatus = Recorded(att[told].outcome) /\ told \in 1..claimed
        /\ claimed \in 0..MaxAttempts /\ told \in Attempt /\ att[told] \in State
    BY RunAssumption DEF IInv, Core, TypeOK, QueueInv, Reported, Attempt
  <2>2. ASSUME att[told].outcome \in Verdict
        PROVE  /\ taskStatus = att[told].outcome /\ att[told].row = att[told].outcome
               /\ mode = "hermes" => steps = <<[status |-> att[told].outcome, by |-> told]>>
    BY <2>1, <2>2 DEF VerdictAgrees, Recorded
  <2>3. ASSUME att[told].outcome \in Verdict, ~resumed
        PROVE  meta.final = told
    <3> DEFINE S == {0} \cup {a \in Attempt : att[a].row \in Verdict}
    <3>1. told = claimed /\ ~overlap
      BY <2>1, <2>3 DEF QueueInv, OverlapIsResumed
    <3>2. told \in S
      BY <2>1, <2>3 DEF VerdictAgrees
    <3>3. S \in SUBSET Int
      BY DEF Attempt
    <3>4. ASSUME NEW x \in S
          PROVE  x <= told
      <4>1. CASE x = 0
        BY <2>1, <4>1
      <4>2. CASE x \in Attempt /\ att[x].row \in Verdict
        <5>1. att[x].row # "none"
          BY <4>2 DEF Verdict
        <5>2. QED
          BY <3>1, <4>2, <5>1 DEF IInv, Lookups, Found
      <4>3. QED
        BY <4>1, <4>2
    <3>5. Max(S) = told
      BY <3>2, <3>3, <3>4, MaxIs
    <3>6. QED
      BY <3>1, <3>5 DEF IInv, Lookups, MetadataIsCurrent
  <2>4. ASSUME mode = "legacy", taskStatus = "completed",
               NEW i \in 1..Len(att[told].plan), att[told].plan[i] # "skip"
        PROVE  steps[i] = [status |-> "completed", by |-> told]
    <3>1. att[told].outcome = "completed"
      BY <2>1, <2>4 DEF Recorded
    <3>2. att[told].pos = Len(att[told].plan) + 1
          /\ \A j \in 1 .. att[told].pos - 1 :
               att[told].plan[j] # "skip" => steps[j] = [status |-> "completed", by |-> told]
      BY <2>1, <2>4, <3>1 DEF StepsBehindAreDone, Verdict
    <3>3. i \in 1 .. att[told].pos - 1
      <4>1. Len(att[told].plan) \in Nat
        BY <2>1 DEF State
      <4>2. QED
        BY <3>2, <4>1
    <3>4. QED
      BY <2>4, <3>2, <3>3
  <2>5. taskStatus = "completed" => att[told].outcome = "completed"
    BY <2>1 DEF Recorded
  <2>6. QED
    BY <2>2, <2>3, <2>4, <2>5
<1>2. QED
  BY <1>1, AttemptsRun, Invariant, Verdicts, BehindDone, QueueInvariant, PTL

LEMMA LifecycleSteps == [AttemptsNext]_attemptsVars => [Lifecycle!Next]_(Lifecycle!lifecycleVars)
<1> SUFFICES ASSUME [AttemptsNext]_attemptsVars
    PROVE  \/ \E t \in {"task"} : \/ Lifecycle!Submit(t) \/ Lifecycle!Start(t)
                                  \/ Lifecycle!SteerTask(t)
                                  \/ \E a \in open : Lifecycle!Report(t, a) \/ Lifecycle!Lose(t, a)
           \/ UNCHANGED <<taskStatus, claimed, open>>
  BY DEF Lifecycle!Next, Lifecycle!lifecycleVars
<1>1. CASE UNCHANGED attemptsVars
  BY <1>1 DEF attemptsVars, vars, queueVars
<1>2. CASE SubmitTask
  <2>1. Lifecycle!Submit("task")
    BY <1>2 DEF SubmitTask, Lifecycle!Submit, vars
  <2>2. QED
    BY <2>1
<1>3. CASE ClaimTask
  <2>1. Lifecycle!Start("task")
    BY <1>3 DEF ClaimTask, Claim, Lifecycle!Start
  <2>2. QED
    BY <2>1
<1>4. CASE SteerTask
  <2>1. Lifecycle!SteerTask("task")
    BY <1>4 DEF SteerTask, Lifecycle!SteerTask, vars
  <2>2. QED
    BY <2>1
<1>5. ASSUME NEW a \in Attempt, Attend(a)
      PROVE  UNCHANGED <<taskStatus, claimed, open>>
  <2>1. UNCHANGED claimed
    BY <1>5 DEF Attend, Proceed, Execute, Die, Route, OpenRun, LoadTask, BuildContext, PersistPlan,
       PlanConflict, RunHarness, Begin, FinalizeStep, Worked, Fail, Pause, Break, TickOff, Skip,
       PlanDone, EndLoop, SaveMemory, ReadBack, CloseRun, Learn
  <2>2. QED
    BY <1>5, <2>1 DEF Attend, queueVars
<1>6. ASSUME NEW a \in Attempt, LoseWorker(a) \/ ReportDropped(a)
      PROVE  a \in open /\ Lifecycle!Lose("task", a)
  BY <1>6 DEF LoseWorker, ReportDropped, Die, vars, Lifecycle!Lose
<1>7. ASSUME NEW a \in Attempt, ReportOutcome(a)
      PROVE  a \in open /\ Lifecycle!Report("task", a)
  BY <1>7 DEF ReportOutcome, Recorded, Verdict, vars, Lifecycle!Report
<1>8. QED
  BY <1>1, <1>2, <1>3, <1>4, <1>5, <1>6, <1>7 DEF AttemptsNext

\* Nothing is assumed here of the queue but what TaskQueue, which implements
\* TaskLifecycle as well, promises its clients (claim_next_task, update_task_status).
THEOREM LifecycleKept == AttemptsSpec => KeepsLifecycle
<1>1. AttemptsInit => Lifecycle!Init
  BY DEF AttemptsInit, Init, Lifecycle!Init
<1>2. QED
  BY <1>1, LifecycleSteps, PTL DEF AttemptsSpec, KeepsLifecycle, Lifecycle!Spec

-----------------------------------------------------------------------------
(***************************************************************************)
(* The conversation inside execute_step: HermesLoop, for every limit and   *)
(* every set of signatures.                                                *)
(*                                                                         *)
(* The guardrails are consulted between batches only.  LoopAhead bounds    *)
(* what the counters can still reach while a batch is executed, and with   *)
(* it the length of the run and of every streak of failures.               *)
(***************************************************************************)

\* A batch is being executed exactly while there is something left of it.
LoopShape ==
  /\ pc = "calls" <=> turn # <<>>
  /\ pc = "done" <=> reason # "none"
  /\ pc = "calls" => iteration < MaxIterations
  /\ reason = "none" => \A i \in 1..Len(log) : log[i].call \notin Terminal

\* What the calls of the current batch can still add.
LoopAhead ==
  /\ Len(log) + Len(turn) < MaxIterations + MaxCalls
  /\ fails + Len(turn) < MaxFailures + MaxCalls

LoopInv == LoopTypeOK /\ LoopShape /\ LoopAhead /\ StreakIsReal /\ FailureRunIsCut /\ TerminalIsLast

-----------------------------------------------------------------------------
(* One more entry of the log.                                              *)

LEMMA Appended ==
  ASSUME NEW S, NEW s \in Seq(S), NEW e \in S
  PROVE  /\ Append(s, e) \in Seq(S)
         /\ Len(Append(s, e)) = Len(s) + 1
         /\ \A i \in 1..Len(s) : Append(s, e)[i] = s[i]
         /\ Append(s, e)[Len(s) + 1] = e
OBVIOUS

\* A call appended to the log leaves the older entries as they are.
LEMMA LogGrows ==
  ASSUME LoopInv, NEW e \in Entry, log' = Append(log, e)
  PROVE  /\ log' \in Seq(Entry) /\ Len(log) \in Nat /\ Len(log') = Len(log) + 1
         /\ \A i \in 1..Len(log) : log'[i] = log[i] /\ (Failure(log'[i]) <=> Failure(log[i]))
         /\ log'[Len(log) + 1] = e
         /\ Failure(log'[Len(log) + 1]) <=> Failure(e)
BY Appended DEF LoopInv, LoopTypeOK

\* The streak is real after a call that succeeds, and after one that fails.
LEMMA StreakGrows ==
  ASSUME LoopInv, NEW e \in Entry, log' = Append(log, e), reason # "task_failed", count' = count + 1,
         \/ fails' = 0 /\ ~Failure(e)
         \/ fails' = fails + 1 /\ Failure(e)
  PROVE  StreakIsReal'
<1>1. count = Len(log) /\ fails \in Nat /\ fails <= Len(log)
      /\ (\A i \in Len(log) - fails + 1 .. Len(log) : Failure(log[i]))
      /\ (fails < Len(log) => ~Failure(log[Len(log) - fails]))
  BY DEF LoopInv, LoopTypeOK, StreakIsReal
<1>2. CASE fails' = 0 /\ ~Failure(e)
  BY <1>1, <1>2, LogGrows DEF StreakIsReal
<1>3. CASE fails' = fails + 1 /\ Failure(e)
  <2>1. \A i \in Len(log') - fails' + 1 .. Len(log') : Failure(log'[i])
    <3> SUFFICES ASSUME NEW i \in Len(log') - fails' + 1 .. Len(log') PROVE Failure(log'[i])
      OBVIOUS
    <3>1. CASE i = Len(log) + 1
      BY <3>1, <1>3, LogGrows
    <3>2. CASE i # Len(log) + 1
      <4>1. i \in Len(log) - fails + 1 .. Len(log) /\ i \in 1..Len(log)
        BY <3>2, <1>1, <1>3, LogGrows
      <4>2. QED
        BY <4>1, <1>1, LogGrows
    <3>3. QED
      BY <3>1, <3>2
  <2>2. fails' < Len(log') => ~Failure(log'[Len(log') - fails'])
    <3> SUFFICES ASSUME fails' < Len(log') PROVE ~Failure(log'[Len(log') - fails'])
      OBVIOUS
    <3>1. Len(log') - fails' = Len(log) - fails /\ fails < Len(log)
          /\ Len(log) - fails \in 1..Len(log)
      BY <1>1, <1>3, LogGrows
    <3>2. QED
      BY <3>1, <1>1, LogGrows
  <2>3. count' = Len(log') /\ fails' <= Len(log')
    BY <1>1, <1>3, LogGrows
  <2>4. QED
    BY <2>1, <2>2, <2>3 DEF StreakIsReal
<1>4. QED
  BY <1>2, <1>3

\* No run of failures becomes too long when the streak that is counted stays short.
LEMMA CutGrows ==
  ASSUME LoopInv, NEW e \in Entry, log' = Append(log, e),
         \/ ~Failure(e)
         \/ reason' # "task_failed" /\ StreakIsReal' /\ fails' \in Nat
            /\ fails' < StreakLimit
  PROVE  FailureRunIsCut'
<1>1. StreakLimit \in Nat \ {0}
  BY LoopAssumption DEF StreakLimit
<1> SUFFICES ASSUME NEW i \in 1..Len(log'), i + StreakLimit - 1 <= Len(log')
    PROVE  \E j \in i .. i + StreakLimit - 1 : ~Failure(log'[j])
  BY LogGrows DEF FailureRunIsCut
<1>2. CASE i + StreakLimit - 1 <= Len(log)
  <2>1. i \in 1..Len(log)
    BY <1>1, <1>2, LogGrows
  <2>2. PICK j \in i .. i + StreakLimit - 1 : ~Failure(log[j])
    BY <2>1, <1>2 DEF LoopInv, FailureRunIsCut
  <2>3. j \in 1..Len(log)
    BY <1>1, <1>2, <2>1, LogGrows
  <2>4. QED
    BY <2>2, <2>3, LogGrows
<1>3. CASE i + StreakLimit - 1 = Len(log) + 1
  <2>1. CASE ~Failure(e)
    <3>1. ~Failure(log'[Len(log) + 1]) /\ Len(log) + 1 \in i .. i + StreakLimit - 1
      BY <1>1, <1>3, <2>1, LogGrows
    <3>2. QED
      BY <3>1
  <2>2. CASE reason' # "task_failed" /\ StreakIsReal' /\ fails' \in Nat /\ fails' < StreakLimit
    <3>1. fails' < Len(log')
      BY <1>1, <1>3, <2>2, LogGrows
    <3>2. ~Failure(log'[Len(log') - fails'])
      BY <3>1, <2>2 DEF StreakIsReal
    <3>3. Len(log') - fails' \in i .. i + StreakLimit - 1
      BY <1>1, <1>3, <2>2, <3>1, LogGrows
    <3>4. QED
      BY <3>2, <3>3
  <2>3. QED
    BY <2>1, <2>2
<1>4. QED
  BY <1>1, <1>2, <1>3, LogGrows

-----------------------------------------------------------------------------
(* The actions.                                                            *)

LEMMA LoopStarts == LoopInit => LoopInv
<1> SUFFICES ASSUME LoopInit PROVE LoopInv
  OBVIOUS
<1>1. Len(log) = 0 /\ Len(turn) = 0 /\ fails = 0 /\ count = 0
  BY DEF LoopInit
<1>2. LoopTypeOK
  BY LoopAssumption DEF LoopInit, LoopTypeOK, Reason
<1>3. LoopShape /\ TerminalIsLast
  BY <1>1 DEF LoopInit, LoopShape, TerminalIsLast, Terminal
<1>4. LoopAhead /\ StreakIsReal /\ FailureRunIsCut
  BY <1>1, LoopAssumption DEF LoopAhead, StreakIsReal, FailureRunIsCut
<1>5. QED
  BY <1>2, <1>3, <1>4 DEF LoopInv

\* The loop ends without another call: Halt, Answer, Raise and Exhaust.
LEMMA FinishInv ==
  ASSUME LoopInv, pc # "done", NEW result \in {"completed", "failed", "raised"},
         NEW why \in Reason \ (Terminal \cup {"none"}), Finish(result, why),
         UNCHANGED <<count, fails, recent, log>>
  PROVE  LoopInv'
<1> USE DEF LoopInv, Finish
<1>1. LoopTypeOK'
  BY DEF LoopTypeOK
<1>2. LoopShape'
  BY DEF LoopShape, Reason
<1>3. Len(turn) \in Nat /\ Len(turn') = 0 /\ Len(log) \in Nat
  BY DEF LoopTypeOK
<1>4. LoopAhead'
  BY <1>3, LoopAssumption DEF LoopAhead, LoopTypeOK
<1>5. why # "task_failed" /\ reason = "none"
  BY DEF LoopShape, Terminal
<1>6. StreakIsReal' /\ FailureRunIsCut'
  BY <1>5 DEF StreakIsReal, FailureRunIsCut, Failure
<1>7. TerminalIsLast'
  BY <1>5 DEF TerminalIsLast, Terminal, Reason, LoopShape
<1>8. QED
  BY <1>1, <1>2, <1>4, <1>6, <1>7

LEMMA CallToolsInv ==
  ASSUME LoopInv, NEW calls \in Batch, CallTools(calls)
  PROVE  LoopInv'
<1> USE DEF LoopInv, CallTools
<1>1. PICK n \in 1..MaxCalls : calls \in [1..n -> Call]
  BY DEF Batch
<1>2. calls \in Seq(Call) /\ Len(calls) = n /\ calls # <<>>
  BY <1>1, LoopAssumption
<1>3. LoopTypeOK'
  BY <1>2 DEF LoopTypeOK
<1>4. turn = <<>> /\ reason = "none" /\ iteration < MaxIterations
  BY DEF LoopShape, AskModel
<1>5. LoopShape'
  BY <1>2, <1>4 DEF LoopShape
<1>6. count = Len(log) /\ count < MaxIterations /\ fails < MaxFailures
  BY <1>4, LoopAssumption DEF AskModel, ShouldHalt, StreakIsReal, LoopTypeOK
<1>7. LoopAhead'
  BY <1>1, <1>2, <1>6, LoopAssumption DEF LoopAhead, LoopTypeOK
<1>8. StreakIsReal' /\ FailureRunIsCut' /\ TerminalIsLast'
  BY <1>4 DEF StreakIsReal, FailureRunIsCut, Failure, TerminalIsLast, AskModel, Terminal
<1>9. QED
  BY <1>3, <1>5, <1>7, <1>8

\* What is left of a batch after its first call.
LEMMA ProceedType ==
  ASSUME LoopInv, pc = "calls", NextCall
  PROVE  /\ turn' \in Seq(Call) /\ Len(turn) \in Nat /\ Len(turn') = Len(turn) - 1
         /\ pc' \in {"turn", "calls"} /\ (pc' = "calls" <=> turn' # <<>>)
         /\ iteration' \in 0..MaxIterations /\ (pc' = "calls" => iteration' < MaxIterations)
         /\ reason = "none" /\ UNCHANGED <<status, reason>>
         /\ Head(turn) \in Call
<1>1. turn \in Seq(Call) /\ turn # <<>> /\ iteration \in Nat /\ iteration < MaxIterations
      /\ reason = "none"
  BY LoopAssumption DEF LoopInv, LoopTypeOK, LoopShape
<1>2. Tail(turn) \in Seq(Call) /\ Len(Tail(turn)) = Len(turn) - 1 /\ Head(turn) \in Call
  BY <1>1
<1>3. CASE Tail(turn) = <<>>
  BY <1>1, <1>2, <1>3, LoopAssumption DEF NextCall
<1>4. CASE Tail(turn) # <<>>
  BY <1>1, <1>2, <1>4, LoopAssumption DEF NextCall
<1>5. QED
  BY <1>3, <1>4

LEMMA ExecuteToolInv ==
  ASSUME LoopInv, NEW outcome \in CallOutcome, ExecuteTool(outcome)
  PROVE  LoopInv'
<1> DEFINE e == [call |-> Head(turn), outcome |-> outcome]
<1>1. /\ pc = "calls" /\ Head(turn) \in Sig /\ log' = Append(log, e) /\ NextCall
      /\ IF outcome = "failed" THEN RecordFailure(Head(turn)) ELSE RecordSuccess
  BY DEF ExecuteTool
<1>2. e \in Entry /\ e.call = Head(turn) /\ e.outcome = outcome
  BY <1>1 DEF Entry, Call
<1> HIDE DEF e
<1>3. /\ turn' \in Seq(Call) /\ Len(turn) \in Nat /\ Len(turn') = Len(turn) - 1
      /\ pc' \in {"turn", "calls"} /\ (pc' = "calls" <=> turn' # <<>>)
      /\ iteration' \in 0..MaxIterations /\ (pc' = "calls" => iteration' < MaxIterations)
      /\ reason = "none" /\ UNCHANGED <<status, reason>>
  BY <1>1, ProceedType DEF LoopInv
<1>4. /\ log' \in Seq(Entry) /\ Len(log) \in Nat /\ Len(log') = Len(log) + 1
      /\ \A i \in 1..Len(log) : log'[i] = log[i]
      /\ log'[Len(log) + 1] = e
  BY <1>1, <1>2, LogGrows
<1>5. /\ count' = count + 1 /\ fails' \in Nat /\ fails' <= fails + 1 /\ recent' \in Seq(Sig)
      /\ \/ fails' = 0 /\ ~Failure(e)
         \/ fails' = fails + 1 /\ Failure(e)
  <2>1. count \in Nat /\ fails \in Nat /\ recent \in Seq(Sig)
    BY DEF LoopInv, LoopTypeOK
  <2>2. CASE outcome = "failed"
    BY <1>1, <1>2, <2>1, <2>2 DEF RecordFailure, Failure
  <2>3. CASE outcome # "failed"
    BY <1>1, <1>2, <2>1, <2>3 DEF RecordSuccess, Failure
  <2>4. QED
    BY <2>2, <2>3
<1>6. LoopTypeOK'
  BY <1>3, <1>4, <1>5 DEF LoopInv, LoopTypeOK
<1>7. \A i \in 1..Len(log') : log'[i].call \notin Terminal
  BY <1>1, <1>2, <1>3, <1>4, LoopAssumption DEF LoopInv, LoopShape, Terminal
<1>8. LoopShape'
  BY <1>3, <1>7 DEF LoopShape
<1>9. LoopAhead'
  <2>1. /\ Len(log) + Len(turn) < MaxIterations + MaxCalls
        /\ fails + Len(turn) < MaxFailures + MaxCalls
        /\ fails \in Nat
    BY DEF LoopInv, LoopAhead, LoopTypeOK
  <2>2. Len(log') + Len(turn') = Len(log) + Len(turn) /\ Len(turn') = Len(turn) - 1
    BY <1>3, <1>4
  <2>3. Len(log) \in Nat /\ Len(turn) \in Nat /\ fails' \in Nat /\ fails' <= fails + 1
    BY <1>3, <1>4, <1>5
  <2>4. Len(log') + Len(turn') < MaxIterations + MaxCalls
    BY <2>1, <2>2
  <2>5. fails' + Len(turn') < MaxFailures + MaxCalls
    BY <2>1, <2>2, <2>3, LoopAssumption
  <2>6. QED
    BY <2>4, <2>5 DEF LoopAhead
<1>10. StreakIsReal'
  BY <1>1, <1>2, <1>3, <1>5, StreakGrows
<1>11. fails' < StreakLimit
  BY <1>3, <1>5, LoopAssumption DEF LoopInv, LoopAhead, LoopTypeOK, StreakLimit
<1>12. FailureRunIsCut'
  BY <1>1, <1>2, <1>3, <1>5, <1>10, <1>11, CutGrows
<1>13. TerminalIsLast'
  BY <1>3, <1>4, <1>7 DEF TerminalIsLast, Terminal
<1>14. QED
  BY <1>6, <1>8, <1>9, <1>10, <1>12, <1>13 DEF LoopInv

LEMMA ExecuteTerminalInv ==
  ASSUME LoopInv, ExecuteTerminal
  PROVE  LoopInv'
<1>1. PICK c \in Terminal, o \in {"completed", "failed"} :
        /\ log' = Append(log, [call |-> c, outcome |-> o])
        /\ Finish(o, c)
        /\ UNCHANGED recent
        /\ \/ c = "task_complete" /\ count' = count + 1 /\ fails' = 0
           \/ c = "task_failed" /\ UNCHANGED <<count, fails>>
  BY DEF ExecuteTerminal, RecordSuccess, Terminal
<1> DEFINE e == [call |-> c, outcome |-> o]
<1>2. e \in Entry /\ e.call = c /\ ~Failure(e)
  BY LoopAssumption DEF Entry, Call, CallOutcome, Terminal, Failure
<1> HIDE DEF e
<1>3. log' = Append(log, e) /\ reason = "none" /\ turn' = <<>>
      /\ pc = "calls" /\ Len(turn) \in Nat \ {0}
  BY <1>1 DEF e, ExecuteTerminal, LoopInv, LoopShape, LoopTypeOK, Finish
<1>4. /\ log' \in Seq(Entry) /\ Len(log) \in Nat /\ Len(log') = Len(log) + 1
      /\ \A i \in 1..Len(log) : log'[i] = log[i]
      /\ log'[Len(log) + 1] = e
  BY <1>2, <1>3, LogGrows
<1>5. count' \in Nat /\ fails' \in Nat /\ fails' <= fails
  BY <1>1 DEF LoopInv, LoopTypeOK
<1>6. LoopTypeOK'
  BY <1>1, <1>3, <1>4, <1>5 DEF LoopInv, LoopTypeOK, Finish, Reason
<1>7. LoopShape'
  BY <1>1, <1>3 DEF LoopShape, Finish, Terminal
<1>8. LoopAhead'
  <2>1. Len(turn') = 0
    BY <1>3
  <2>2. fails \in Nat /\ Len(log) + Len(turn) < MaxIterations + MaxCalls
        /\ fails + Len(turn) < MaxFailures + MaxCalls
    BY DEF LoopInv, LoopAhead, LoopTypeOK
  <2>3. Len(log') + Len(turn') <= Len(log) + Len(turn)
    BY <2>1, <1>3, <1>4
  <2>4. fails' + Len(turn') <= fails + Len(turn)
    BY <2>1, <2>2, <1>3, <1>5
  <2>5. Len(log') \in Nat /\ Len(turn') \in Nat /\ fails' \in Nat
    <3>1. Len(log') \in Nat
      BY <1>4
    <3>2. QED
      BY <3>1, <2>1, <1>5
  <2>6. Len(turn) \in Nat
    BY <1>3
  <2>7. QED
    BY <2>2, <2>3, <2>4, <2>5, <2>6, <1>4, LoopAssumption DEF LoopAhead
<1>9. StreakIsReal'
  <2>1. CASE c = "task_complete"
    BY <2>1, <1>1, <1>2, <1>3, StreakGrows
  <2>2. CASE c = "task_failed"
    BY <2>2, <1>1 DEF StreakIsReal, Finish
  <2>3. QED
    BY <2>1, <2>2 DEF Terminal
<1>10. FailureRunIsCut'
  BY <1>2, <1>3, CutGrows
<1>11. TerminalIsLast'
  BY <1>1, <1>2, <1>3, <1>4 DEF TerminalIsLast, Finish, LoopInv, LoopShape, Terminal
<1>12. QED
  BY <1>6, <1>7, <1>8, <1>9, <1>10, <1>11 DEF LoopInv

LEMMA LoopGoesOn == LoopInv /\ [LoopNext]_loopVars => LoopInv'
<1> SUFFICES ASSUME LoopInv, [LoopNext]_loopVars PROVE LoopInv'
  OBVIOUS
<1>1. CASE UNCHANGED loopVars
  BY <1>1 DEF loopVars, LoopInv, LoopTypeOK, LoopShape, LoopAhead, StreakIsReal, FailureRunIsCut, Failure,
              TerminalIsLast
<1>2. CASE Halt
  BY <1>2, FinishInv DEF Halt, Reason, Terminal
<1>3. ASSUME NEW why \in {"answered", "model_error"}, Answer(why)
      PROVE  LoopInv'
  BY <1>3, FinishInv DEF Answer, AskModel, Reason, Terminal
<1>4. CASE Exhaust
  BY <1>4, FinishInv DEF Exhaust, Reason, Terminal
<1>5. CASE Raise
  BY <1>5, FinishInv DEF Raise, Reason, Terminal
<1>6. QED
  BY <1>1, <1>2, <1>3, <1>4, <1>5, CallToolsInv, ExecuteToolInv, ExecuteTerminalInv DEF LoopNext

\* The invariant of the loop is inductive.
THEOREM LoopInvariant == LoopSpec => []LoopInv
BY LoopStarts, LoopGoesOn, PTL DEF LoopSpec

\* Every variable keeps its type.
THEOREM LoopTypeCorrect == LoopSpec => []LoopTypeOK
<1>1. LoopInv => LoopTypeOK
  BY DEF LoopInv
<1>2. QED
  BY <1>1, LoopInvariant, PTL

\* The guardrails count the real streak of failures (record_success, record_failure).
THEOREM Streak == LoopSpec => []StreakIsReal
<1>1. LoopInv => StreakIsReal
  BY DEF LoopInv
<1>2. QED
  BY <1>1, LoopInvariant, PTL

\* Whatever the limits and the batches, a run executes fewer than
\* MaxIterations + MaxCalls tool calls (should_halt, execute_step).
THEOREM Budget == LoopSpec => []CallBudget
<1>1. LoopInv => CallBudget
  BY LoopAssumption DEF LoopInv, LoopAhead, CallBudget, LoopTypeOK
<1>2. QED
  BY <1>1, LoopInvariant, PTL

\* ... and no run of failures reaches MaxFailures + MaxCalls (should_halt).
THEOREM FailureRun == LoopSpec => []FailureRunIsCut
<1>1. LoopInv => FailureRunIsCut
  BY DEF LoopInv
<1>2. QED
  BY <1>1, LoopInvariant, PTL

\* Nothing is executed after task_complete or task_failed (execute_step).
THEOREM Terminals == LoopSpec => []TerminalIsLast
<1>1. LoopInv => TerminalIsLast
  BY DEF LoopInv
<1>2. QED
  BY <1>1, LoopInvariant, PTL
=============================================================================
