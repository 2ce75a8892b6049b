------------------------- MODULE HarnessLoopProofs -------------------------
(***************************************************************************)
(* Proofs about HarnessLoop, for any number of overlapping runs and any    *)
(* limits; and, at the end, about TaskWorkspace, the directory that the    *)
(* tools of such a run work in.                                            *)
(*                                                                         *)
(* What a run has logged is told by where it is (Story): in the middle of  *)
(* the loop there is no summary and no request for an approval, before the *)
(* next decision everything decided is settled, and the errors counted are *)
(* those of the log.  Every step of a run leaves its log alone (QuietStep) *)
(* or appends one event to it (LoggedStep); the other runs do not notice.  *)
(***************************************************************************)
EXTENDS HarnessLoop, TaskWorkspace, SequenceTheorems, FiniteSetTheorems,
        WellFoundedInduction, TLAPS

Numbered(l) == \A i \in DOMAIN l : l[i].sequence = i

Settled(l) ==
  \A i \in DOMAIN l : l[i].type = "agent_thought" =>
    \E k \in i + 1 .. Len(l) : l[k].type \in Concluding

Told(l) ==
  \A i \in DOMAIN l : \A j \in i + 1 .. Len(l) :
    l[i].type = "agent_thought" /\ l[j].type = "agent_thought" =>
      \E k \in i + 1 .. j - 1 : l[k].type \in Concluding

Has(l, type) == \E i \in DOMAIN l : l[i].type = type

SummaryIsLast(l) == \A i \in DOMAIN l : l[i].type = "run_summary" => i = Len(l)

Errors(l) ==
  {i \in DOMAIN l : /\ l[i].type = "error"
                    /\ \A j \in DOMAIN l : j > i => l[j].type # "tool_result"}

Ended == {"finishing", "exporting", "returned", "died"}

\* What the log l of a run in state s tells.
Story(s, l) ==
  /\ Numbered(l)
  /\ Told(l)
  /\ SummaryIsLast(l)
  /\ s.pc = "idle" => l = <<>> /\ s.errors = 0
  /\ s.pc = "turn" => Settled(l)
  /\ s.pc \notin {"exporting", "returned", "died"} => ~Has(l, "run_summary")
  /\ s.pc \in {"exporting", "returned"} => l # <<>> /\ l[Len(l)].type = "run_summary"
  /\ s.pc \notin Ended => ~Has(l, "approval_requested")
  /\ s.pc \in {"finishing", "exporting", "returned"} =>
       (s.verdict = "paused" <=> Has(l, "approval_requested"))
  /\ s.pc \notin Ended => s.errors = Cardinality(Errors(l)) /\ s.errors < MaxErrors
  /\ s.pc \notin Ended \cup {"idle", "turn"} => s.iteration < MaxIterations

\* A run that has asked for an approval finds it in the table a.
Backed(s, a, r) ==
  s.pc = "announcing" \/ s.verdict = "paused" =>
    \E i \in DOMAIN a : a[i].by = r /\ ~a[i].with_call

IInv ==
  /\ TypeOK
  /\ \A r \in Run : Story(run[r], log[r]) /\ Backed(run[r], approvals, r)

-----------------------------------------------------------------------------
(* Appending an event.                                                     *)

LEMMA MaxOfNats ==
  ASSUME NEW S \in SUBSET Nat, NEW n \in S, \A x \in S : x <= n
  PROVE  Max(S) = n
<1>1. \A y \in S : n >= y
  OBVIOUS
<1>2. \A x \in S : (\A y \in S : x >= y) => x = n
  OBVIOUS
<1>3. QED
  BY <1>1, <1>2, Zenon DEF Max

\* The events of a run that are numbered are numbered on.
LEMMA NumberedOn ==
  ASSUME NEW r \in Run, log[r] \in Seq(Event), Numbered(log[r])
  PROVE  NextSequence(r) = Len(log[r]) + 1
<1>1. Len(log[r]) \in Nat /\ DOMAIN log[r] = 1..Len(log[r])
  OBVIOUS
<1>2. Sequences(r) = 1..Len(log[r])
  BY <1>1 DEF Sequences, Numbered
<1>3. Max({0} \cup Sequences(r)) = Len(log[r])
  <2>1. {0} \cup Sequences(r) \in SUBSET Nat
    BY <1>2
  <2>2. Len(log[r]) \in {0} \cup Sequences(r)
    BY <1>1, <1>2
  <2>3. \A x \in {0} \cup Sequences(r) : x <= Len(log[r])
    BY <1>1, <1>2
  <2>4. QED
    BY <2>1, <2>2, <2>3, MaxOfNats
<1>4. QED
  BY <1>1, <1>3 DEF NextSequence

LEMMA AppendShape ==
  ASSUME NEW l \in Seq(Event), NEW e \in Event
  PROVE  /\ Append(l, e) \in Seq(Event)
         /\ Len(l) \in Nat
         /\ DOMAIN l = 1..Len(l)
         /\ Len(Append(l, e)) = Len(l) + 1
         /\ DOMAIN Append(l, e) = 1..Len(l) + 1
         /\ Append(l, e)[Len(l) + 1] = e
         /\ \A i \in 1..Len(l) : Append(l, e)[i] = l[i]
<1>1. Append(l, e) \in Seq(Event) /\ Len(Append(l, e)) = Len(l) + 1 /\ Len(l) \in Nat
  OBVIOUS
<1>2. DOMAIN Append(l, e) = 1..Len(l) + 1 /\ DOMAIN l = 1..Len(l)
  BY <1>1
<1>3. QED
  BY <1>1, <1>2

LEMMA AppendTells ==
  ASSUME NEW l \in Seq(Event), NEW e \in Event
  PROVE  /\ Numbered(l) /\ e.sequence = Len(l) + 1 => Numbered(Append(l, e))
         /\ Told(l) /\ (e.type = "agent_thought" => Settled(l)) => Told(Append(l, e))
         /\ ~Has(l, "run_summary") => SummaryIsLast(Append(l, e))
         /\ e.type \in Concluding => Settled(Append(l, e))
         /\ Settled(l) /\ e.type # "agent_thought" => Settled(Append(l, e))
         /\ \A type \in EventType :
              Has(Append(l, e), type) <=> Has(l, type) \/ e.type = type
<1> DEFINE m == Append(l, e)
<1>1. /\ m \in Seq(Event) /\ Len(l) \in Nat /\ DOMAIN l = 1..Len(l)
      /\ Len(m) = Len(l) + 1 /\ DOMAIN m = 1..Len(l) + 1 /\ m[Len(l) + 1] = e
      /\ \A i \in 1..Len(l) : m[i] = l[i]
  BY AppendShape
<1> HIDE DEF m
<1>2. Numbered(l) /\ e.sequence = Len(l) + 1 => Numbered(m)
  BY <1>1 DEF Numbered
<1>3. ASSUME Told(l), e.type = "agent_thought" => Settled(l)
      PROVE  Told(m)
  <2> SUFFICES ASSUME NEW i \in DOMAIN m, NEW j \in i + 1 .. Len(m),
                      m[i].type = "agent_thought", m[j].type = "agent_thought"
               PROVE  \E k \in i + 1 .. j - 1 : m[k].type \in Concluding
    BY DEF Told
  <2>1. i \in 1..Len(l) /\ m[i] = l[i]
    BY <1>1
  <2>2. CASE j <= Len(l)
    <3>1. j \in i + 1 .. Len(l) /\ m[j] = l[j]
      BY <1>1, <2>1, <2>2
    <3>2. PICK k \in i + 1 .. j - 1 : l[k].type \in Concluding
      BY <1>1, <1>3, <2>1, <3>1 DEF Told
    <3>3. k \in 1..Len(l)
      BY <1>1, <2>1, <3>1
    <3>4. QED
      BY <1>1, <3>2, <3>3
  <2>3. CASE j > Len(l)
    <3>1. j = Len(l) + 1 /\ m[j] = e
      BY <1>1, <2>1, <2>3
    <3>2. PICK k \in i + 1 .. Len(l) : l[k].type \in Concluding
      BY <1>1, <1>3, <2>1, <3>1 DEF Settled
    <3>3. k \in 1..Len(l) /\ k \in i + 1 .. j - 1
      BY <1>1, <2>1, <3>1
    <3>4. QED
      BY <1>1, <3>2, <3>3
  <2>4. QED
    BY <1>1, <2>1, <2>2, <2>3
<1>4. ~Has(l, "run_summary") => SummaryIsLast(m)
  BY <1>1 DEF Has, SummaryIsLast
<1>5. ASSUME \/ e.type \in Concluding
             \/ Settled(l) /\ e.type # "agent_thought"
      PROVE  Settled(m)
  <2> SUFFICES ASSUME NEW i \in DOMAIN m, m[i].type = "agent_thought"
               PROVE  \E k \in i + 1 .. Len(m) : m[k].type \in Concluding
    BY DEF Settled
  <2>1. i \in 1..Len(l) /\ m[i] = l[i]
    BY <1>1, <1>5 DEF Concluding
  <2>2. CASE e.type \in Concluding
    <3>1. Len(l) + 1 \in i + 1 .. Len(m)
      BY <1>1, <2>1
    <3>2. QED
      BY <1>1, <2>2, <3>1
  <2>3. CASE Settled(l)
    <3>1. PICK k \in i + 1 .. Len(l) : l[k].type \in Concluding
      BY <1>1, <2>1, <2>3 DEF Settled
    <3>2. k \in 1..Len(l) /\ k \in i + 1 .. Len(m)
      BY <1>1, <2>1
    <3>3. QED
      BY <1>1, <3>1, <3>2
  <2>4. QED
    BY <1>5, <2>2, <2>3
<1>6. ASSUME NEW type \in EventType
      PROVE  Has(m, type) <=> Has(l, type) \/ e.type = type
  BY <1>1 DEF Has
<1>7. QED
  BY <1>2, <1>3, <1>4, <1>5, <1>6 DEF m

LEMMA ErrorsFinite ==
  ASSUME NEW l \in Seq(Event)
  PROVE  IsFiniteSet(Errors(l)) /\ Cardinality(Errors(l)) \in Nat
<1>1. IsFiniteSet(1..Len(l))
  BY FS_Interval
<1>2. Errors(l) \subseteq 1..Len(l)
  BY DEF Errors
<1>3. IsFiniteSet(Errors(l))
  BY <1>1, <1>2, FS_Subset
<1>4. QED
  BY <1>3, FS_CardinalityType

LEMMA AppendErrors ==
  ASSUME NEW l \in Seq(Event), NEW e \in Event
  PROVE  /\ e.type = "error" =>
              Cardinality(Errors(Append(l, e))) = Cardinality(Errors(l)) + 1
         /\ e.type = "tool_result" => Cardinality(Errors(Append(l, e))) = 0
         /\ e.type \notin {"error", "tool_result"} => Errors(Append(l, e)) = Errors(l)
<1> DEFINE m == Append(l, e)
<1>1. /\ Len(l) \in Nat /\ DOMAIN l = 1..Len(l)
      /\ DOMAIN m = 1..Len(l) + 1 /\ m[Len(l) + 1] = e
      /\ \A i \in 1..Len(l) : m[i] = l[i]
  BY AppendShape
<1> HIDE DEF m
<1>2. ASSUME e.type = "error"
      PROVE  Cardinality(Errors(m)) = Cardinality(Errors(l)) + 1
  <2>1. Errors(m) = Errors(l) \cup {Len(l) + 1}
    BY <1>1, <1>2 DEF Errors
  <2>2. Len(l) + 1 \notin Errors(l)
    BY <1>1 DEF Errors
  <2>3. QED
    BY <2>1, <2>2, ErrorsFinite, FS_AddElement
<1>3. ASSUME e.type = "tool_result"
      PROVE  Cardinality(Errors(m)) = 0
  <2>1. Errors(m) = {}
    BY <1>1, <1>3 DEF Errors
  <2>2. QED
    BY <2>1, FS_EmptySet
<1>4. ASSUME e.type \notin {"error", "tool_result"}
      PROVE  Errors(m) = Errors(l)
  BY <1>1, <1>4 DEF Errors
<1>5. QED
  BY <1>2, <1>3, <1>4 DEF m

-----------------------------------------------------------------------------
(* Steps of one run.                                                       *)

\* The approvals keep who asked and for what.
Kept(a, b) ==
  /\ b \in Seq(Approval)
  /\ Len(b) >= Len(a)
  /\ \A i \in DOMAIN a : b[i].by = a[i].by /\ b[i].with_call = a[i].with_call

LEMMA BackedKept ==
  ASSUME NEW a \in Seq(Approval), NEW b, Kept(a, b), NEW r, NEW s, Backed(s, a, r)
  PROVE  Backed(s, b, r)
<1>1. DOMAIN a \subseteq DOMAIN b
  BY DEF Kept
<1>2. QED
  BY <1>1 DEF Kept, Backed

LEMMA KeptSame ==
  ASSUME NEW a \in Seq(Approval)
  PROVE  Kept(a, a)
<1>1. Len(a) \in Nat
  OBVIOUS
<1>2. QED
  BY <1>1 DEF Kept

LEMMA AddApprovalKeeps ==
  ASSUME approvals \in Seq(Approval), NEW r \in Run, NEW with_call \in BOOLEAN,
         AddApproval(r, with_call)
  PROVE  /\ Kept(approvals, approvals')
         /\ ~with_call => \E i \in DOMAIN approvals' : approvals'[i].by = r /\ ~approvals'[i].with_call
<1> DEFINE e == [by |-> r, with_call |-> with_call, status |-> "pending"]
<1>1. e \in Approval /\ approvals' = Append(approvals, e)
  BY DEF Approval, AddApproval
<1>2. /\ approvals' \in Seq(Approval) /\ Len(approvals') = Len(approvals) + 1
      /\ Len(approvals) \in Nat
  BY <1>1
<1>3. /\ DOMAIN approvals' = 1..Len(approvals) + 1 /\ DOMAIN approvals = 1..Len(approvals)
      /\ approvals'[Len(approvals) + 1] = e
      /\ \A i \in 1..Len(approvals) : approvals'[i] = approvals[i]
  BY <1>1, <1>2
<1>4. Kept(approvals, approvals')
  BY <1>2, <1>3 DEF Kept
<1>5. e.by = r /\ e.with_call = with_call
  OBVIOUS
<1>6. QED
  BY <1>2, <1>3, <1>4, <1>5

LEMMA ResolvedKeeps ==
  ASSUME approvals \in Seq(Approval), NEW i \in DOMAIN approvals,
         NEW status \in {"approved", "rejected"},
         approvals' = [approvals EXCEPT ![i].status = status]
  PROVE  Kept(approvals, approvals')
<1> DEFINE e == [approvals[i] EXCEPT !.status = status]
<1>1. approvals[i] \in Approval /\ Len(approvals) \in Nat
  BY ElementOfSeq
<1>2. e \in Approval /\ e.by = approvals[i].by /\ e.with_call = approvals[i].with_call
  BY <1>1 DEF Approval
<1>3. approvals' = [approvals EXCEPT ![i] = e]
  OBVIOUS
<1> HIDE DEF e
<1>4. approvals' \in Seq(Approval) /\ Len(approvals') = Len(approvals)
  BY <1>2, <1>3, ExceptSeq
<1>5. \A j \in DOMAIN approvals : approvals'[j] = IF j = i THEN e ELSE approvals[j]
  BY <1>3
<1>6. QED
  BY <1>1, <1>2, <1>4, <1>5 DEF Kept

\* A step that appends no event.
LEMMA QuietStep ==
  ASSUME IInv, NEW r \in Run, NEW t \in State,
         run' = [run EXCEPT ![r] = t], UNCHANGED log,
         rows' \in [Run -> Nat], Kept(approvals, approvals'),
         Story(t, log[r]), Backed(t, approvals', r)
  PROVE  IInv'
<1>1. TypeOK'
  BY DEF IInv, TypeOK, Kept
<1>2. ASSUME NEW q \in Run
      PROVE  Story(run[q], log[q])' /\ Backed(run[q], approvals, q)'
  <2>1. run'[q] = (IF q = r THEN t ELSE run[q]) /\ log'[q] = log[q]
    BY DEF IInv, TypeOK
  <2>2. approvals \in Seq(Approval)
    BY DEF IInv, TypeOK
  <2>3. Backed(run[q], approvals', q)
    BY <2>2, BackedKept DEF IInv
  <2>4. Story(run[q], log[q])
    BY DEF IInv
  <2>5. Story(run'[q], log'[q]) /\ Backed(run'[q], approvals', q)
    BY <2>1, <2>3, <2>4
  <2>6. QED
    BY <2>5
<1>3. QED
  BY <1>1, <1>2 DEF IInv

\* The log of r with one more event.
After(r, type) == Append(log[r], [type |-> type, sequence |-> Len(log[r]) + 1])

\* A step that appends one event.
LEMMA LoggedStep ==
  ASSUME IInv, NEW r \in Run, NEW t \in State, NEW type \in EventType,
         run' = [run EXCEPT ![r] = t], AppendEvent(r, type), UNCHANGED <<rows, approvals>>,
         Story(t, After(r, type)),
         Backed(t, approvals, r)
  PROVE  IInv'
<1> DEFINE e == [type |-> type, sequence |-> Len(log[r]) + 1]
<1>1. log \in [Run -> Seq(Event)] /\ run \in [Run -> State]
  BY DEF IInv, TypeOK
<1>2. NextSequence(r) = Len(log[r]) + 1
  BY <1>1, NumberedOn DEF IInv, Story
<1>3. log' = [log EXCEPT ![r] = Append(log[r], e)]
  BY <1>2 DEF AppendEvent
<1>4. log[r] \in Seq(Event)
  BY <1>1
<1>5. e \in Event
  BY <1>4 DEF Event
<1> HIDE DEF e
<1>6. Append(log[r], e) \in Seq(Event)
  BY <1>4, <1>5
<1>7. TypeOK'
  BY <1>1, <1>3, <1>6 DEF IInv, TypeOK
<1>8. ASSUME NEW q \in Run
      PROVE  Story(run[q], log[q])' /\ Backed(run[q], approvals, q)'
  <2>1. /\ run'[q] = (IF q = r THEN t ELSE run[q])
        /\ log'[q] = (IF q = r THEN Append(log[r], e) ELSE log[q])
        /\ approvals' = approvals
    BY <1>1, <1>3
  <2>2. Story(run[q], log[q]) /\ Backed(run[q], approvals, q)
    BY DEF IInv
  <2>3. Story(t, Append(log[r], e))
    BY DEF e, After
  <2>4. Story(run'[q], log'[q]) /\ Backed(run'[q], approvals', q)
    BY <2>1, <2>2, <2>3
  <2>5. QED
    BY <2>4
<1>9. QED
  BY <1>7, <1>8 DEF IInv

\* What a log tells after one more event.
LEMMA Telling ==
  ASSUME IInv, NEW r \in Run, NEW type \in EventType,
         run[r].pc \notin {"exporting", "returned", "died"},
         type = "agent_thought" => run[r].pc = "turn"
  PROVE  /\ Numbered(After(r, type)) /\ Told(After(r, type)) /\ SummaryIsLast(After(r, type))
         /\ After(r, type) # <<>> /\ After(r, type)[Len(After(r, type))].type = type
         /\ type # "run_summary" => ~Has(After(r, type), "run_summary")
         /\ type \in Concluding => Settled(After(r, type))
         /\ Settled(log[r]) /\ type # "agent_thought" => Settled(After(r, type))
         /\ Has(After(r, type), "approval_requested") <=>
              Has(log[r], "approval_requested") \/ type = "approval_requested"
         /\ type = "error" => Cardinality(Errors(After(r, type))) = Cardinality(Errors(log[r])) + 1
         /\ type = "tool_result" => Cardinality(Errors(After(r, type))) = 0
         /\ type \notin {"error", "tool_result"} =>
              Cardinality(Errors(After(r, type))) = Cardinality(Errors(log[r]))
<1> DEFINE e == [type |-> type, sequence |-> Len(log[r]) + 1]
<1> DEFINE m == After(r, type)
<1>1. log[r] \in Seq(Event) /\ Len(log[r]) \in Nat
  BY DEF IInv, TypeOK
<1>2. e \in Event /\ e.type = type /\ e.sequence = Len(log[r]) + 1
  BY <1>1 DEF Event
<1>3. m = Append(log[r], e)
  BY DEF After
<1> HIDE DEF e, m
<1>4. Story(run[r], log[r])
  BY DEF IInv
<1>5. m # <<>> /\ m[Len(m)].type = type
  BY <1>1, <1>2, <1>3, AppendShape
<1>6. /\ Numbered(m) /\ Told(m) /\ SummaryIsLast(m)
      /\ type \in Concluding => Settled(m)
      /\ Settled(log[r]) /\ type # "agent_thought" => Settled(m)
  BY <1>1, <1>2, <1>3, <1>4, AppendTells DEF Story
<1>7. \A t \in EventType : Has(m, t) <=> Has(log[r], t) \/ type = t
  BY <1>1, <1>2, <1>3, AppendTells
<1>8. /\ type # "run_summary" => ~Has(m, "run_summary")
      /\ Has(m, "approval_requested") <=>
           Has(log[r], "approval_requested") \/ type = "approval_requested"
  BY <1>4, <1>7 DEF EventType, Story
<1>9. /\ type = "error" => Cardinality(Errors(m)) = Cardinality(Errors(log[r])) + 1
      /\ type = "tool_result" => Cardinality(Errors(m)) = 0
      /\ type \notin {"error", "tool_result"} => Errors(m) = Errors(log[r])
  BY <1>1, <1>2, <1>3, AppendErrors
<1>10. QED
  BY <1>5, <1>6, <1>8, <1>9 DEF m

-----------------------------------------------------------------------------
(* The actions.                                                            *)

LEMMA InitHolds == Init => IInv
<1> SUFFICES ASSUME Init PROVE IInv
  OBVIOUS
<1>1. Idle \in State
  BY HarnessAssumption DEF Idle, State
<1>2. TypeOK
  BY <1>1 DEF Init, TypeOK
<1>3. ASSUME NEW r \in Run
      PROVE  Story(run[r], log[r]) /\ Backed(run[r], approvals, r)
  <2>1. /\ run[r].pc = "idle" /\ run[r].errors = 0 /\ run[r].verdict = None
        /\ log[r] = <<>> /\ DOMAIN log[r] = {}
    BY DEF Init, Idle
  <2>2. Errors(log[r]) = {}
    BY <2>1 DEF Errors
  <2>3. Cardinality(Errors(log[r])) = 0
    BY <2>2, FS_EmptySet
  <2>4. Numbered(log[r]) /\ Told(log[r]) /\ SummaryIsLast(log[r])
    BY <2>1 DEF Numbered, Told, SummaryIsLast
  <2>5. ~Has(log[r], "run_summary") /\ ~Has(log[r], "approval_requested")
    BY <2>1 DEF Has
  <2>6. Story(run[r], log[r])
    BY <2>1, <2>3, <2>4, <2>5, HarnessAssumption DEF Story, Ended
  <2>7. Backed(run[r], approvals, r)
    BY <2>1, HarnessAssumption DEF Backed, Verdict
  <2>8. QED
    BY <2>6, <2>7
<1>4. QED
  BY <1>2, <1>3 DEF IInv

\* Steps within the loop that change nothing but the stage.
LEMMA StageSteps ==
  ASSUME IInv, NEW r \in Run, NEW stage,
         \/ run[r].pc \notin Ended \cup {"idle", "turn"}
            /\ stage \in {"asking", "noting", "recording", "reporting", "handling", "announcing"}
         \/ stage = "died",
         stage = "announcing" => \E i \in DOMAIN approvals' : approvals'[i].by = r /\ ~approvals'[i].with_call,
         Goto(r, stage), UNCHANGED log,
         rows' \in [Run -> Nat], Kept(approvals, approvals')
  PROVE  IInv'
<1> DEFINE t == [run[r] EXCEPT !.pc = stage]
<1>1. run[r] \in State /\ approvals \in Seq(Approval)
  BY DEF IInv, TypeOK
<1>2. /\ t \in State /\ t.pc = stage /\ t.errors = run[r].errors /\ t.verdict = run[r].verdict
      /\ t.iteration = run[r].iteration
  BY <1>1 DEF State, Ended
<1>3. run' = [run EXCEPT ![r] = t]
  BY DEF Goto
<1> HIDE DEF t
<1>4. Story(run[r], log[r]) /\ Backed(run[r], approvals, r)
  BY DEF IInv
<1>5. Story(t, log[r])
  BY <1>2, <1>4 DEF Story, Ended
<1>6. Backed(run[r], approvals', r)
  BY <1>1, <1>4, BackedKept
<1>7. Backed(t, approvals', r)
  BY <1>2, <1>6 DEF Backed
<1>8. QED
  BY <1>2, <1>3, <1>5, <1>7, QuietStep

LEMMA QuietActions ==
  ASSUME IInv, NEW r \in Run,
         \/ Ask(r) \/ NoTool(r) \/ Handle(r) \/ HandleCommand(r) \/ HoldCommand(r)
         \/ \E i \in DOMAIN approvals, status \in {"approved", "rejected"} : Resolve(r, i, status)
         \/ Record(r) \/ Die(r)
  PROVE  IInv'
<1>1. approvals \in Seq(Approval) /\ rows \in [Run -> Nat]
  BY DEF IInv, TypeOK
<1>2. Kept(approvals, approvals)
  BY <1>1, KeptSame
<1>3. [rows EXCEPT ![r] = @ + 1] \in [Run -> Nat]
  BY <1>1
<1>4. CASE Ask(r)
  <2>1. AddApproval(r, FALSE) /\ rows' = rows
    BY <1>4 DEF Ask
  <2>2. /\ Kept(approvals, approvals')
        /\ \E i \in DOMAIN approvals' : approvals'[i].by = r /\ ~approvals'[i].with_call
    BY <1>1, <2>1, AddApprovalKeeps
  <2>3. QED
    BY <1>1, <1>4, <2>1, <2>2, StageSteps DEF Ask, At, Ended
<1>5. CASE NoTool(r)
  BY <1>1, <1>2, <1>5, StageSteps DEF NoTool
<1>6. CASE Handle(r)
  BY <1>1, <1>2, <1>6, StageSteps DEF Handle, At, Ended
<1>7. CASE HandleCommand(r)
  BY <1>2, <1>3, <1>7, StageSteps DEF HandleCommand, At, Ended
<1>8. CASE HoldCommand(r)
  <2>1. Kept(approvals, approvals')
    BY <1>1, <1>8, AddApprovalKeeps DEF HoldCommand
  <2>2. QED
    BY <1>3, <1>8, <2>1, StageSteps DEF HoldCommand, At, Ended
<1>9. CASE \E i \in DOMAIN approvals, status \in {"approved", "rejected"} : Resolve(r, i, status)
  <2>1. PICK i \in DOMAIN approvals, status \in {"approved", "rejected"} : Resolve(r, i, status)
    BY <1>9
  <2>2. Kept(approvals, approvals')
    BY <1>1, <2>1, ResolvedKeeps DEF Resolve
  <2>3. QED
    BY <1>1, <2>1, <2>2, StageSteps DEF Resolve, At, Ended
<1>10. CASE Record(r)
  <2>1. rows' \in [Run -> Nat]
    BY <1>1, <1>3, <1>10 DEF Record
  <2>2. QED
    BY <1>2, <1>10, <2>1, StageSteps DEF Record, At, Ended
<1>11. CASE Die(r)
  BY <1>1, <1>2, <1>11, StageSteps DEF Die
<1>12. QED
  BY <1>4, <1>5, <1>6, <1>7, <1>8, <1>9, <1>10, <1>11

\* A step that appends an event and leaves the run in state t.
LEMMA TellingStep ==
  ASSUME IInv, NEW r \in Run, NEW t \in State, NEW type \in EventType,
         run[r].pc \notin {"exporting", "returned", "died"},
         type = "agent_thought" => run[r].pc = "turn",
         run' = [run EXCEPT ![r] = t], AppendEvent(r, type), UNCHANGED <<rows, approvals>>,
         t.pc \notin {"idle", "died", "returned"},
         t.pc = "turn" => type \in Concluding \/ (run[r].pc = "idle" /\ type = "user_message"),
         t.pc = "exporting" <=> type = "run_summary",
         t.pc = "finishing" => run[r].pc \notin Ended,
         t.pc = "finishing" => (t.verdict = "paused" <=> type = "approval_requested"),
         type = "approval_requested" => t.pc = "finishing",
         t.pc = "exporting" => run[r].pc = "finishing" /\ t.verdict = run[r].verdict,
         t.pc \notin Ended =>
           /\ run[r].pc \notin Ended
           /\ t.errors < MaxErrors
           /\ t.errors = CASE type = "error" -> run[r].errors + 1
                          [] type = "tool_result" -> 0
                          [] OTHER -> run[r].errors,
         t.pc \notin Ended \cup {"idle", "turn"} => t.iteration < MaxIterations,
         Backed(t, approvals, r)
  PROVE  IInv'
<1> DEFINE m == After(r, type)
<1>1. /\ Numbered(m) /\ Told(m) /\ SummaryIsLast(m)
      /\ m # <<>> /\ m[Len(m)].type = type
      /\ type # "run_summary" => ~Has(m, "run_summary")
      /\ type \in Concluding => Settled(m)
      /\ Settled(log[r]) /\ type # "agent_thought" => Settled(m)
      /\ Has(m, "approval_requested") <=>
           Has(log[r], "approval_requested") \/ type = "approval_requested"
      /\ type = "error" => Cardinality(Errors(m)) = Cardinality(Errors(log[r])) + 1
      /\ type = "tool_result" => Cardinality(Errors(m)) = 0
      /\ type \notin {"error", "tool_result"} =>
           Cardinality(Errors(m)) = Cardinality(Errors(log[r]))
  BY Telling
<1> HIDE DEF m
<1>2. Story(run[r], log[r])
  BY DEF IInv
<1>3. run[r].pc = "idle" /\ type = "user_message" => Settled(m)
  <2> SUFFICES ASSUME run[r].pc = "idle", type = "user_message" PROVE Settled(m)
    OBVIOUS
  <2>1. log[r] = <<>>
    BY <1>2 DEF Story
  <2>2. DOMAIN log[r] = {}
    BY <2>1
  <2>3. Settled(log[r])
    BY <2>2 DEF Settled
  <2>4. QED
    BY <1>1, <2>3
<1>4. t.pc = "turn" => Settled(m)
  BY <1>1, <1>3
<1>5. /\ t.pc \notin {"exporting", "returned", "died"} => ~Has(m, "run_summary")
      /\ t.pc \in {"exporting", "returned"} => m[Len(m)].type = "run_summary"
  BY <1>1
<1>6. t.pc \notin Ended => ~Has(m, "approval_requested")
  BY <1>1, <1>2 DEF Story, Ended
<1>7. t.pc \in {"finishing", "exporting", "returned"} =>
        (t.verdict = "paused" <=> Has(m, "approval_requested"))
  BY <1>1, <1>2 DEF Story, Ended
<1>8. t.pc \notin Ended => t.errors = Cardinality(Errors(m)) /\ t.errors < MaxErrors
  BY <1>1, <1>2 DEF Story
<1>9. Story(t, m)
  BY <1>1, <1>4, <1>5, <1>6, <1>7, <1>8 DEF Story
<1>10. QED
  BY <1>9, LoggedStep DEF m

\* The loop is left with a verdict, after an event.
LEMMA Concluded ==
  ASSUME IInv, NEW r \in Run, NEW type \in EventType \ {"run_summary"}, NEW verdict \in Verdict,
         run[r].pc \notin Ended,
         type = "agent_thought" => run[r].pc = "turn",
         verdict = "paused" <=> type = "approval_requested",
         verdict = "paused" => run[r].pc = "announcing",
         Conclude(r, verdict), AppendEvent(r, type), UNCHANGED <<rows, approvals>>
  PROVE  IInv'
<1> DEFINE t == [run[r] EXCEPT !.pc = "finishing", !.action = None, !.verdict = verdict]
<1>1. run[r] \in State
  BY DEF IInv, TypeOK
<1>2. t \in State /\ t.pc = "finishing" /\ t.verdict = verdict
  BY <1>1 DEF State
<1>3. run' = [run EXCEPT ![r] = t]
  BY DEF Conclude
<1> HIDE DEF t
<1>4. Backed(t, approvals, r)
  BY <1>2 DEF IInv, Backed
<1>5. run[r].pc \notin {"exporting", "returned", "died"}
  BY DEF Ended
<1>6. QED
  BY <1>2, <1>3, <1>4, <1>5, TellingStep DEF Ended

LEMMA ErredStep ==
  ASSUME IInv, NEW r \in Run, run[r].pc \notin Ended \cup {"idle"},
         run[r].iteration < MaxIterations,
         Erred(r), AppendEvent(r, "error"), UNCHANGED <<rows, approvals>>
  PROVE  IInv'
<1>1. run[r] \in State /\ run[r].errors \in Nat /\ run[r].iteration \in 0..MaxIterations
  BY DEF IInv, TypeOK, State
<1>2. /\ run[r].pc \notin {"exporting", "returned", "died"} /\ "error" \in EventType
      /\ Backed(run[r], approvals, r) /\ "error" \in Concluding
  BY DEF Ended, EventType, IInv, Concluding
<1>3. CASE run[r].errors + 1 >= MaxErrors
  <2> DEFINE t == [run[r] EXCEPT !.pc = "finishing", !.action = None,
                                 !.errors = run[r].errors + 1, !.verdict = "failed"]
  <2>0. run[r].errors + 1 \in Nat
    BY <1>1
  <2>1. t \in State /\ t.pc = "finishing" /\ t.verdict = "failed"
    BY <1>1, <2>0, Zenon DEF State, Verdict
  <2>2. run' = [run EXCEPT ![r] = t]
    BY <1>3 DEF Erred
  <2> HIDE DEF t
  <2>3. Backed(t, approvals, r)
    BY <2>1 DEF Backed
  <2>4. QED
    BY <1>2, <2>1, <2>2, <2>3, TellingStep DEF Ended
<1>4. CASE run[r].errors + 1 < MaxErrors
  <2> DEFINE t == [run[r] EXCEPT !.pc = "turn", !.action = None,
                                 !.errors = run[r].errors + 1,
                                 !.iteration = run[r].iteration + 1]
  <2>1. /\ run[r].errors + 1 \in Nat /\ run[r].iteration + 1 \in 0..MaxIterations
        /\ ~(run[r].errors + 1 >= MaxErrors)
    BY <1>1, <1>4, HarnessAssumption
  <2>2. /\ t \in State /\ t.pc = "turn" /\ t.verdict = run[r].verdict
        /\ t.errors = run[r].errors + 1
    BY <1>1, <2>1, Zenon DEF State
  <2>3. run' = [run EXCEPT ![r] = t]
    BY <2>1 DEF Erred
  <2> HIDE DEF t
  <2>4. Backed(t, approvals, r)
    BY <1>2, <2>2 DEF Backed
  <2>5. QED
    BY <1>2, <1>4, <2>2, <2>3, <2>4, TellingStep DEF Ended
<1>5. QED
  BY <1>1, <1>3, <1>4, HarnessAssumption

\* An event that changes only the stage.
LEMMA StageTold ==
  ASSUME IInv, NEW r \in Run, NEW stage, NEW type \in EventType,
         \/ run[r].pc \notin Ended \cup {"idle", "turn"} /\ type \in {"tool_call", "effect"}
            /\ stage \in {"blocked", "asking", "handling", "recording"}
         \/ run[r].pc = "idle" /\ type = "user_message" /\ stage = "turn",
         Goto(r, stage), AppendEvent(r, type), UNCHANGED <<rows, approvals>>
  PROVE  IInv'
<1> DEFINE t == [run[r] EXCEPT !.pc = stage]
<1>1. run[r] \in State
  BY DEF IInv, TypeOK
<1>2. /\ t \in State /\ t.pc = stage /\ t.errors = run[r].errors /\ t.verdict = run[r].verdict
      /\ t.iteration = run[r].iteration
  BY <1>1 DEF State
<1>3. run' = [run EXCEPT ![r] = t]
  BY DEF Goto
<1> HIDE DEF t
<1>4. Story(run[r], log[r]) /\ Backed(run[r], approvals, r)
  BY DEF IInv
<1>5. /\ run[r].errors < MaxErrors
      /\ t.pc \notin Ended \cup {"idle", "turn"} => t.iteration < MaxIterations
  BY <1>2, <1>4 DEF Story, Ended
<1>6. Backed(t, approvals, r)
  BY <1>2, <1>4 DEF Backed
<1>7. run[r].pc \notin {"exporting", "returned", "died"} /\ run[r].pc \notin Ended
  BY DEF Ended
<1>8. t.pc \notin Ended \cup {"idle"} /\ type \notin {"error", "tool_result", "run_summary",
                                                     "agent_thought", "approval_requested"}
  BY <1>2 DEF Ended
<1>9. QED
  BY <1>2, <1>3, <1>5, <1>6, <1>7, <1>8, TellingStep DEF Ended

LEMMA ConcludingActions ==
  ASSUME IInv, NEW r \in Run, TimeOut(r) \/ FinishAction(r) \/ Announce(r)
  PROVE  IInv'
<1>1. CASE TimeOut(r)
  BY <1>1, Concluded DEF TimeOut, InLoop, At, Ended, EventType, Verdict
<1>2. CASE FinishAction(r)
  BY <1>2, Concluded DEF FinishAction, InLoop, At, Ended, EventType, Verdict
<1>3. CASE Announce(r)
  BY <1>3, Concluded DEF Announce, At, Ended, EventType, Verdict
<1>4. QED
  BY <1>1, <1>2, <1>3

LEMMA ErringActions ==
  ASSUME IInv, NEW r \in Run, ModelFails(r) \/ Block(r) \/ HandlerRaises(r)
  PROVE  IInv'
<1>1. Story(run[r], log[r])
  BY DEF IInv
<1>2. /\ run[r].pc \notin Ended \cup {"idle"} /\ run[r].iteration < MaxIterations
      /\ Erred(r) /\ AppendEvent(r, "error") /\ UNCHANGED <<rows, approvals>>
  BY <1>1 DEF ModelFails, Block, HandlerRaises, InLoop, At, Ended, Story
<1>3. QED
  BY <1>2, ErredStep

LEMMA ToldActions ==
  ASSUME IInv, NEW r \in Run, Start(r) \/ CallTool(r) \/ Note(r)
  PROVE  IInv'
<1>1. CASE Start(r)
  BY <1>1, StageTold DEF Start, At, EventType
<1>2. CASE CallTool(r)
  <2>1. Decision(run[r].action) \in {"blocked", "asking", "handling"}
    BY DEF Decision
  <2>2. QED
    BY <1>2, <2>1, StageTold DEF CallTool, At, Ended, EventType
<1>3. CASE Note(r)
  <2>1. approvals \in Seq(Approval) /\ rows \in [Run -> Nat]
    BY DEF IInv, TypeOK
  <2>2. Kept(approvals, approvals)
    BY <2>1, KeptSame
  <2>3. CASE AppendEvent(r, "effect")
    BY <1>3, <2>3, StageTold DEF Note, At, Ended, EventType
  <2>4. CASE UNCHANGED log
    BY <1>3, <2>1, <2>2, <2>4, StageSteps DEF Note, At, Ended
  <2>5. QED
    BY <1>3, <2>3, <2>4 DEF Note
<1>4. QED
  BY <1>1, <1>2, <1>3

LEMMA ThinkStep ==
  ASSUME IInv, NEW r \in Run, NEW action \in Actions[r], Think(r, action)
  PROVE  IInv'
<1> DEFINE t == [run[r] EXCEPT !.pc = "calling", !.action = action]
<1>1. run[r] \in State /\ action \in Action
  BY HarnessAssumption DEF IInv, TypeOK
<1>2. /\ t \in State /\ t.pc = "calling" /\ t.errors = run[r].errors /\ t.verdict = run[r].verdict
      /\ t.iteration = run[r].iteration
  BY <1>1, Zenon DEF State
<1>3. run' = [run EXCEPT ![r] = t]
  BY DEF Think
<1> HIDE DEF t
<1>4. Story(run[r], log[r]) /\ Backed(run[r], approvals, r)
  BY DEF IInv
<1>5. /\ run[r].pc = "turn" /\ run[r].iteration < MaxIterations
      /\ AppendEvent(r, "agent_thought") /\ UNCHANGED <<rows, approvals>>
  BY DEF Think, InLoop, At
<1>6. run[r].errors < MaxErrors
  BY <1>4, <1>5 DEF Story, Ended
<1>7. Backed(t, approvals, r)
  BY <1>2, <1>4 DEF Backed
<1>8. QED
  BY <1>2, <1>3, <1>5, <1>6, <1>7, TellingStep DEF Ended, EventType

LEMMA ReportStep ==
  ASSUME IInv, NEW r \in Run, Report(r)
  PROVE  IInv'
<1> DEFINE t == [run[r] EXCEPT !.pc = "turn", !.action = None, !.errors = 0,
                               !.iteration = run[r].iteration + 1]
<1>1. run[r] \in State /\ run[r].iteration \in 0..MaxIterations
  BY DEF IInv, TypeOK, State
<1>2. Story(run[r], log[r]) /\ Backed(run[r], approvals, r) /\ run[r].pc = "reporting"
  BY DEF IInv, Report, At
<1>3. run[r].iteration < MaxIterations
  BY <1>2 DEF Story, Ended
<1>4. run[r].iteration + 1 \in 0..MaxIterations /\ 0 < MaxErrors
  BY <1>1, <1>3, HarnessAssumption
<1>5. t \in State /\ t.pc = "turn" /\ t.errors = 0 /\ t.verdict = run[r].verdict
  BY <1>1, <1>4, Zenon DEF State
<1>6. run' = [run EXCEPT ![r] = t]
  BY DEF Report
<1> HIDE DEF t
<1>7. Backed(t, approvals, r)
  BY <1>2, <1>5 DEF Backed
<1>8. AppendEvent(r, "tool_result") /\ UNCHANGED <<rows, approvals>>
  BY DEF Report
<1>9. QED
  BY <1>2, <1>4, <1>5, <1>6, <1>7, <1>8, TellingStep DEF Ended, EventType, Concluding

LEMMA SummarizeStep ==
  ASSUME IInv, NEW r \in Run, Summarize(r)
  PROVE  IInv'
<1> DEFINE t == [run[r] EXCEPT !.pc = "exporting"]
<1>1. run[r] \in State
  BY DEF IInv, TypeOK
<1>2. t \in State /\ t.pc = "exporting" /\ t.verdict = run[r].verdict
  BY <1>1 DEF State
<1>3. run' = [run EXCEPT ![r] = t]
  BY DEF Summarize, Goto
<1> HIDE DEF t
<1>4. Backed(t, approvals, r)
  BY <1>2 DEF IInv, Backed
<1>5. run[r].pc = "finishing" /\ AppendEvent(r, "run_summary") /\ UNCHANGED <<rows, approvals>>
  BY DEF Summarize, At
<1>6. QED
  BY <1>2, <1>3, <1>4, <1>5, TellingStep DEF Ended, EventType

LEMMA ExhaustStep ==
  ASSUME IInv, NEW r \in Run, Exhaust(r)
  PROVE  IInv'
<1> DEFINE t == [run[r] EXCEPT !.pc = "finishing", !.action = None, !.verdict = "failed"]
<1>1. /\ run[r] \in State /\ run[r].pc = "turn" /\ approvals \in Seq(Approval)
      /\ rows \in [Run -> Nat] /\ Story(run[r], log[r])
  BY DEF IInv, TypeOK, Exhaust, At
<1>2. t \in State /\ t.pc = "finishing" /\ t.verdict = "failed"
  BY <1>1 DEF State, Verdict
<1>3. run' = [run EXCEPT ![r] = t] /\ UNCHANGED <<log, rows, approvals>>
  BY DEF Exhaust, Conclude
<1> HIDE DEF t
<1>4. Story(t, log[r])
  BY <1>1, <1>2 DEF Story, Ended
<1>5. Backed(t, approvals', r)
  BY <1>2 DEF Backed
<1>6. Kept(approvals, approvals')
  BY <1>1, <1>3, KeptSame
<1>7. QED
  BY <1>1, <1>2, <1>3, <1>4, <1>5, <1>6, QuietStep

LEMMA ExportStep ==
  ASSUME IInv, NEW r \in Run, Export(r)
  PROVE  IInv'
<1> DEFINE t == [run[r] EXCEPT !.pc = "returned"]
<1>1. /\ run[r] \in State /\ run[r].pc = "exporting" /\ approvals \in Seq(Approval)
      /\ rows \in [Run -> Nat] /\ Story(run[r], log[r]) /\ Backed(run[r], approvals, r)
  BY DEF IInv, TypeOK, Export, At
<1>2. t \in State /\ t.pc = "returned" /\ t.verdict = run[r].verdict
  BY <1>1 DEF State
<1>3. run' = [run EXCEPT ![r] = t] /\ UNCHANGED <<log, rows, approvals>>
  BY DEF Export, Goto
<1> HIDE DEF t
<1>4. Story(t, log[r])
  BY <1>1, <1>2 DEF Story, Ended
<1>5. Backed(t, approvals', r)
  BY <1>1, <1>2, <1>3 DEF Backed
<1>6. Kept(approvals, approvals')
  BY <1>1, <1>3, KeptSame
<1>7. QED
  BY <1>1, <1>2, <1>3, <1>4, <1>5, <1>6, QuietStep

LEMMA ApproveStep ==
  ASSUME IInv, NEW i \in DOMAIN approvals, Approve(i)
  PROVE  IInv'
<1>1. approvals \in Seq(Approval) /\ UNCHANGED <<run, log, rows>>
  BY DEF IInv, TypeOK, Approve
<1>2. Kept(approvals, approvals')
  BY <1>1, ResolvedKeeps DEF Approve
<1>3. TypeOK'
  BY <1>1, <1>2 DEF IInv, TypeOK, Kept
<1>4. ASSUME NEW r \in Run
      PROVE  Story(run[r], log[r])' /\ Backed(run[r], approvals, r)'
  <2>1. Story(run[r], log[r]) /\ Backed(run[r], approvals, r)
    BY DEF IInv
  <2>2. Backed(run[r], approvals', r)
    BY <1>1, <1>2, <2>1, BackedKept
  <2>3. Story(run'[r], log'[r]) /\ Backed(run'[r], approvals', r)
    BY <1>1, <2>1, <2>2
  <2>4. QED
    BY <2>3
<1>5. QED
  BY <1>3, <1>4 DEF IInv

LEMMA NextKeeps == IInv /\ [Next]_vars => IInv'
<1> SUFFICES ASSUME IInv, [Next]_vars PROVE IInv'
  OBVIOUS
<1>1. ASSUME NEW r \in Run, Step(r) PROVE IInv'
  BY <1>1, ConcludingActions, ErringActions, ToldActions, QuietActions, ThinkStep,
     ReportStep, SummarizeStep, ExhaustStep, ExportStep DEF Step
<1>2. ASSUME NEW r \in Run, Die(r) PROVE IInv'
  BY <1>2, QuietActions
<1>3. ASSUME NEW i \in DOMAIN approvals, Approve(i) PROVE IInv'
  BY <1>3, ApproveStep
<1>4. CASE UNCHANGED vars
  <2>1. run' = run /\ log' = log /\ rows' = rows /\ approvals' = approvals
    BY <1>4 DEF vars
  <2>2. QED
    BY <2>1 DEF IInv, TypeOK
<1>5. QED
  BY <1>1, <1>2, <1>3, <1>4 DEF Next

-----------------------------------------------------------------------------
(* Results and rows.  A run has a row to spare when it is about to report,  *)
(* and from the moment the shell tool wrote it.                            *)

Results(l) == {i \in DOMAIN l : l[i].type = "tool_result"}

ToSpare(s) ==
  \/ s.pc = "reporting"
  \/ s.pc \in {"noting", "recording"} /\ s.action = "shell"

Rowed(s, n, l) ==
  /\ Cardinality(Results(l)) <= n
  /\ ToSpare(s) => Cardinality(Results(l)) < n

RInv == IInv /\ \A r \in Run : Rowed(run[r], rows[r], log[r])

LEMMA ResultsCount ==
  ASSUME NEW l \in Seq(Event)
  PROVE  IsFiniteSet(Results(l)) /\ Cardinality(Results(l)) \in Nat
<1>1. IsFiniteSet(1..Len(l))
  BY FS_Interval
<1>2. Results(l) \subseteq 1..Len(l)
  BY DEF Results
<1>3. IsFiniteSet(Results(l))
  BY <1>1, <1>2, FS_Subset
<1>4. QED
  BY <1>3, FS_CardinalityType

LEMMA AppendResults ==
  ASSUME NEW l \in Seq(Event), NEW e \in Event
  PROVE  Cardinality(Results(Append(l, e))) =
           IF e.type = "tool_result" THEN Cardinality(Results(l)) + 1 ELSE Cardinality(Results(l))
<1> DEFINE m == Append(l, e)
<1>1. /\ Len(l) \in Nat /\ DOMAIN l = 1..Len(l)
      /\ DOMAIN m = 1..Len(l) + 1 /\ m[Len(l) + 1] = e
      /\ \A i \in 1..Len(l) : m[i] = l[i]
  BY AppendShape
<1> HIDE DEF m
<1>2. ASSUME e.type = "tool_result"
      PROVE  Cardinality(Results(m)) = Cardinality(Results(l)) + 1
  <2>1. Results(m) = Results(l) \cup {Len(l) + 1}
    BY <1>1, <1>2 DEF Results
  <2>2. Len(l) + 1 \notin Results(l)
    BY <1>1 DEF Results
  <2>3. QED
    BY <2>1, <2>2, ResultsCount, FS_AddElement
<1>3. ASSUME e.type # "tool_result"
      PROVE  Results(m) = Results(l)
  BY <1>1, <1>3 DEF Results
<1>4. QED
  BY <1>2, <1>3 DEF m

\* What a step of r does to the results in its log.
LEMMA LoggedResults ==
  ASSUME IInv, NEW r \in Run, NEW type \in EventType, AppendEvent(r, type)
  PROVE  Cardinality(Results(log'[r])) =
           IF type = "tool_result" THEN Cardinality(Results(log[r])) + 1
                                   ELSE Cardinality(Results(log[r]))
<1> DEFINE e == [type |-> type, sequence |-> NextSequence(r)]
<1>1. log \in [Run -> Seq(Event)] /\ log[r] \in Seq(Event)
  BY DEF IInv, TypeOK
<1>2. NextSequence(r) \in Nat
  BY <1>1, NumberedOn DEF IInv, Story
<1>3. e \in Event /\ e.type = type
  BY <1>2 DEF Event
<1>4. log'[r] = Append(log[r], e)
  BY <1>1 DEF AppendEvent
<1> HIDE DEF e
<1>5. QED
  BY <1>1, <1>3, <1>4, AppendResults

\* A step leaves the logs, states and rows of the other runs alone.
LEMMA OthersKept ==
  ASSUME IInv, NEW r \in Run, NEW q \in Run, q # r, Step(r) \/ Die(r)
  PROVE  run'[q] = run[q] /\ log'[q] = log[q] /\ rows'[q] = rows[q]
<1>1. run \in [Run -> State] /\ log \in [Run -> Seq(Event)] /\ rows \in [Run -> Nat]
  BY DEF IInv, TypeOK
<1>2. log'[q] = log[q]
  BY <1>1 DEF Step, Die, Start, TimeOut, ModelFails, FinishAction, Think, Exhaust, Summarize, Export,
     CallTool, Block, Ask, Announce, NoTool, Handle, HandleCommand, HoldCommand, HandlerRaises,
     Resolve, Note, Record, Report, AppendEvent
<1>3. rows'[q] = rows[q]
  BY <1>1 DEF Step, Die, Start, TimeOut, ModelFails, FinishAction, Think, Exhaust, Summarize, Export,
     CallTool, Block, Ask, Announce, NoTool, Handle, HandleCommand, HoldCommand, HandlerRaises,
     Resolve, Note, Record, Report
<1>4. run'[q] = run[q]
  BY <1>1 DEF Step, Die, Start, TimeOut, ModelFails, FinishAction, Think, Exhaust, Summarize, Export,
     CallTool, Block, Ask, Announce, NoTool, Handle, HandleCommand, HoldCommand, HandlerRaises,
     Resolve, Note, Record, Report, Goto, Conclude, Erred
<1>5. QED
  BY <1>2, <1>3, <1>4

LEMMA RowsStep ==
  ASSUME RInv, NEW r \in Run, Step(r) \/ Die(r)
  PROVE  Rowed(run'[r], rows'[r], log'[r])
<1> DEFINE n == Cardinality(Results(log[r]))
           k == Cardinality(Results(log'[r]))
<1>1. /\ run \in [Run -> State] /\ log[r] \in Seq(Event) /\ rows \in [Run -> Nat]
      /\ rows[r] \in Nat /\ IInv
  BY DEF RInv, IInv, TypeOK
<1>2. n \in Nat
  BY <1>1, ResultsCount
<1>3. n <= rows[r] /\ (ToSpare(run[r]) => n < rows[r])
  BY DEF RInv, Rowed
<1> HIDE DEF n, k
<1>4. CASE Report(r)
  <2>1. k = n + 1
    BY <1>1, <1>4, LoggedResults DEF Report, EventType, n, k
  <2>2. rows'[r] = rows[r] /\ run'[r].pc = "turn" /\ run[r].pc = "reporting"
    BY <1>1, <1>4 DEF Report, At
  <2>3. n < rows[r]
    BY <1>3, <2>2 DEF ToSpare
  <2>4. k <= rows'[r]
    BY <1>1, <1>2, <2>1, <2>2, <2>3
  <2>5. QED
    BY <2>2, <2>4 DEF Rowed, ToSpare, k
<1>5. CASE Record(r)
  <2>1. k = n /\ run'[r].pc = "reporting" /\ run[r].pc = "recording"
    BY <1>1, <1>5 DEF Record, Goto, At, n, k
  <2>2. n < rows'[r]
    <3>1. CASE run[r].action = "shell"
      BY <1>3, <1>5, <2>1, <3>1 DEF Record, ToSpare
    <3>2. CASE run[r].action # "shell"
      <4>1. rows'[r] = rows[r] + 1
        BY <1>1, <1>5, <3>2 DEF Record
      <4>2. QED
        BY <1>1, <1>2, <1>3, <4>1
    <3>3. QED
      BY <3>1, <3>2
  <2>3. n <= rows'[r]
    BY <2>2, <1>1, <1>2, <1>5 DEF Record
  <2>4. QED
    BY <2>1, <2>2, <2>3 DEF Rowed, k
<1>6. CASE HandleCommand(r) \/ HoldCommand(r)
  <2>1. k = n /\ rows'[r] = rows[r] + 1
    BY <1>1, <1>6 DEF HandleCommand, HoldCommand, n, k
  <2>2. n < rows'[r] /\ n <= rows'[r]
    BY <1>1, <1>2, <1>3, <2>1
  <2>3. QED
    BY <2>1, <2>2 DEF Rowed, k
<1>7. CASE Note(r)
  <2>1. k = n
    BY <1>1, <1>7, LoggedResults DEF Note, EventType, n, k
  <2>2. /\ rows'[r] = rows[r] /\ run[r].pc = "noting" /\ run'[r].pc = "recording"
        /\ run'[r].action = run[r].action
    BY <1>1, <1>7 DEF Note, Goto, At, State
  <2>3. QED
    BY <1>3, <2>1, <2>2 DEF Rowed, ToSpare, k
<1>8. CASE Start(r) \/ CallTool(r) \/ (\E action \in Actions[r] : Think(r, action)) \/ Summarize(r)
  <2>1. k = n
    BY <1>1, <1>8, LoggedResults DEF Start, CallTool, Think, Summarize, EventType, n, k
  <2>2. rows'[r] = rows[r] /\ run[r] \in State
    BY <1>1, <1>8 DEF Start, CallTool, Think, Summarize
  <2>3. run'[r].pc \in {"turn", "calling", "exporting", "blocked", "asking", "handling"}
    <3>1. CASE Start(r) \/ Summarize(r)
      BY <1>1, <2>2, <3>1 DEF Start, Summarize, Goto, State
    <3>2. CASE CallTool(r)
      BY <1>1, <2>2, <3>2 DEF CallTool, Goto, Decision, State
    <3>3. CASE \E action \in Actions[r] : Think(r, action)
      BY <1>1, <2>2, <3>3 DEF Think, State
    <3>4. QED
      BY <1>8, <3>1, <3>2, <3>3
  <2>4. QED
    BY <1>3, <2>1, <2>2, <2>3 DEF Rowed, ToSpare, k
<1>9. CASE TimeOut(r) \/ FinishAction(r) \/ Announce(r) \/ ModelFails(r) \/ Block(r) \/ HandlerRaises(r)
  <2>1. k = n
    BY <1>1, <1>9, LoggedResults
       DEF TimeOut, FinishAction, Announce, ModelFails, Block, HandlerRaises, EventType, n, k
  <2>2. rows'[r] = rows[r] /\ run[r] \in State
    BY <1>1, <1>9 DEF TimeOut, FinishAction, Announce, ModelFails, Block, HandlerRaises
  <2>3. run'[r].pc \in {"finishing", "turn"}
    <3>1. CASE Erred(r)
      BY <1>1, <2>2, <3>1 DEF Erred, State
    <3>2. CASE \E verdict \in Verdict : Conclude(r, verdict)
      BY <1>1, <2>2, <3>2 DEF Conclude, State
    <3>3. QED
      BY <1>9, <3>1, <3>2
         DEF TimeOut, FinishAction, Announce, ModelFails, Block, HandlerRaises, Verdict
  <2>4. QED
    BY <1>3, <2>1, <2>2, <2>3 DEF Rowed, ToSpare, k
<1>10. CASE \/ Exhaust(r) \/ Export(r) \/ Ask(r) \/ NoTool(r) \/ Handle(r) \/ Die(r)
            \/ \E i \in DOMAIN approvals, status \in {"approved", "rejected"} : Resolve(r, i, status)
  <2>1. k = n /\ rows'[r] = rows[r]
    BY <1>10 DEF Exhaust, Export, Ask, NoTool, Handle, Die, Resolve, n, k
  <2>2. run[r] \in State
    BY <1>1
  <2>3. ~ToSpare(run'[r])
    <3>1. CASE Exhaust(r)
      BY <1>1, <2>2, <3>1 DEF Exhaust, Conclude, State, ToSpare
    <3>2. CASE Export(r) \/ Ask(r) \/ NoTool(r) \/ Die(r)
      BY <1>1, <2>2, <3>2 DEF Export, Ask, NoTool, Die, Goto, State, ToSpare
    <3>3. CASE Handle(r)
      BY <1>1, <2>2, <3>3 DEF Handle, Goto, State, ToSpare
    <3>4. CASE \E i \in DOMAIN approvals, status \in {"approved", "rejected"} : Resolve(r, i, status)
      BY <1>1, <2>2, <3>4 DEF Resolve, Goto, State, ToSpare
    <3>5. QED
      BY <1>10, <3>1, <3>2, <3>3, <3>4
  <2>4. QED
    BY <1>3, <2>1, <2>2, <2>3 DEF Rowed, k
<1>11. QED
  BY <1>4, <1>5, <1>6, <1>7, <1>8, <1>9, <1>10 DEF Step

LEMMA RowsKeep == RInv /\ [Next]_vars => RInv'
<1> SUFFICES ASSUME RInv, [Next]_vars PROVE RInv'
  OBVIOUS
<1>1. IInv /\ IInv'
  BY NextKeeps DEF RInv
<1>2. ASSUME NEW q \in Run PROVE Rowed(run'[q], rows'[q], log'[q])
  <2>1. Rowed(run[q], rows[q], log[q])
    BY DEF RInv
  <2>2. ASSUME NEW r \in Run, Step(r) \/ Die(r) PROVE Rowed(run'[q], rows'[q], log'[q])
    BY <1>1, <2>1, <2>2, RowsStep, OthersKept
  <2>3. ASSUME NEW i \in DOMAIN approvals, Approve(i) PROVE Rowed(run'[q], rows'[q], log'[q])
    BY <2>1, <2>3 DEF Approve
  <2>4. CASE UNCHANGED vars
    BY <2>1, <2>4 DEF vars
  <2>5. QED
    BY <2>2, <2>3, <2>4 DEF Next
<1>3. QED
  BY <1>1, <1>2 DEF RInv

LEMMA RowsInit == Init => RInv
<1> SUFFICES ASSUME Init PROVE RInv
  OBVIOUS
<1>1. ASSUME NEW r \in Run PROVE Rowed(run[r], rows[r], log[r])
  <2>1. DOMAIN log[r] = {} /\ rows[r] = 0 /\ run[r].pc = "idle"
    BY DEF Init, Idle
  <2>2. Results(log[r]) = {}
    BY <2>1 DEF Results
  <2>3. Cardinality(Results(log[r])) = 0
    BY <2>2, FS_EmptySet
  <2>4. QED
    BY <2>1, <2>3 DEF Rowed, ToSpare
<1>2. QED
  BY <1>1, InitHolds DEF RInv

-----------------------------------------------------------------------------
(* Approvals and pauses.  A run that has asked is on its way to "paused" or    *)
(* dead, and does not ask again.                                              *)

Asks(a, r) == {i \in DOMAIN a : a[i].by = r /\ ~a[i].with_call}

Sole(s, a, r) ==
  /\ Asks(a, r) # {} => s.pc \in {"announcing", "died"} \/ s.verdict = "paused"
  /\ s.verdict = "paused" => s.pc \in Ended
  /\ \A i, j \in Asks(a, r) : i = j

AskInv == IInv /\ \A r \in Run : Sole(run[r], approvals, r)

LEMMA AsksOfAdded ==
  ASSUME approvals \in Seq(Approval), NEW r \in Run, NEW with_call \in BOOLEAN,
         AddApproval(r, with_call)
  PROVE  \A q : Asks(approvals', q) = Asks(approvals, q)
                  \cup (IF q = r /\ ~with_call THEN {Len(approvals) + 1} ELSE {})
<1> DEFINE e == [by |-> r, with_call |-> with_call, status |-> "pending"]
<1>1. e \in Approval /\ approvals' = Append(approvals, e)
  BY DEF Approval, AddApproval
<1>2. e.by = r /\ e.with_call = with_call
  OBVIOUS
<1> HIDE DEF e
<1>3. /\ DOMAIN approvals' = 1..Len(approvals) + 1 /\ DOMAIN approvals = 1..Len(approvals)
      /\ approvals'[Len(approvals) + 1] = e /\ Len(approvals) \in Nat
      /\ \A i \in 1..Len(approvals) : approvals'[i] = approvals[i]
  BY <1>1
<1>4. QED
  BY <1>2, <1>3 DEF Asks

LEMMA AsksOfResolved ==
  ASSUME approvals \in Seq(Approval), NEW i \in DOMAIN approvals, NEW status,
         approvals' = [approvals EXCEPT ![i].status = status]
  PROVE  \A q : Asks(approvals', q) = Asks(approvals, q)
<1> DEFINE e == [approvals[i] EXCEPT !.status = status]
<1>1. approvals[i] \in Approval
  BY ElementOfSeq
<1>2. e.by = approvals[i].by /\ e.with_call = approvals[i].with_call
  BY <1>1 DEF Approval
<1>3. approvals' = [approvals EXCEPT ![i] = e]
  OBVIOUS
<1> HIDE DEF e
<1>4. DOMAIN approvals' = DOMAIN approvals
      /\ \A j \in DOMAIN approvals : approvals'[j] = IF j = i THEN e ELSE approvals[j]
  BY <1>3
<1>5. QED
  BY <1>2, <1>4 DEF Asks

\* A step of r that asks for nothing, and pauses only a run that has announced.
LEMMA SoleStep ==
  ASSUME AskInv, NEW r \in Run, NEW t \in State, run' = [run EXCEPT ![r] = t],
         \A q : Asks(approvals', q) = Asks(approvals, q),
         t.verdict = "paused" => t.pc \in Ended,
         run[r].verdict = "paused" => t.verdict = "paused",
         run[r].pc = "announcing" => t.verdict = "paused" \/ t.pc = "died",
         run[r].pc # "died"
  PROVE  \A q \in Run : Sole(run[q], approvals, q)'
<1> SUFFICES ASSUME NEW q \in Run PROVE Sole(run[q], approvals, q)'
  OBVIOUS
<1>1. run'[q] = IF q = r THEN t ELSE run[q]
  BY DEF AskInv, IInv, TypeOK
<1>2. Sole(run[q], approvals, q) /\ Asks(approvals', q) = Asks(approvals, q)
  BY DEF AskInv
<1>3. Sole(run'[q], approvals', q)
  BY <1>1, <1>2 DEF Sole
<1>4. QED
  BY <1>3

LEMMA SoleNext ==
  ASSUME AskInv, NEW r \in Run, Step(r) \/ Die(r)
  PROVE  \A q \in Run : Sole(run[q], approvals, q)'
<1>1. /\ run \in [Run -> State] /\ run[r] \in State /\ approvals \in Seq(Approval)
      /\ Sole(run[r], approvals, r) /\ None \notin Verdict
  BY HarnessAssumption DEF AskInv, IInv, TypeOK
<1>2. approvals' = approvals => \A q : Asks(approvals', q) = Asks(approvals, q)
  OBVIOUS
<1>3. ASSUME NEW stage, Goto(r, stage), run[r].pc # "died", run[r].pc # "announcing" \/ stage = "died",
             run[r].pc \in Ended => stage \in Ended,
             run' \in [Run -> State], \A q : Asks(approvals', q) = Asks(approvals, q)
      PROVE  \A q \in Run : Sole(run[q], approvals, q)'
  <2> DEFINE t == [run[r] EXCEPT !.pc = stage]
  <2>1. run' = [run EXCEPT ![r] = t] /\ t = run'[r]
    BY <1>1, <1>3 DEF Goto
  <2>2. t \in State
    BY <1>3, <2>1
  <2>3. t.pc = stage /\ t.verdict = run[r].verdict
    BY <1>1 DEF State
  <2> HIDE DEF t
  <2>4. QED
    BY <1>1, <1>3, <2>1, <2>2, <2>3, SoleStep DEF Sole
<1>4. ASSUME NEW t \in State, run' = [run EXCEPT ![r] = t], approvals' = approvals,
             run[r].pc \notin Ended \cup {"announcing"},
             t.verdict \in {run[r].verdict, "failed", "completed"}
      PROVE  \A q \in Run : Sole(run[q], approvals, q)'
  <2>1. run[r].verdict # "paused" /\ run[r].pc # "died"
    BY <1>1, <1>4 DEF Sole, Ended
  <2>2. t.verdict # "paused"
    BY <1>4, <2>1
  <2>3. QED
    BY <1>2, <1>4, <2>1, <2>2, SoleStep
<1>5. ASSUME NEW verdict \in Verdict \ {"paused"}, Conclude(r, verdict), approvals' = approvals,
             run[r].pc = "turn"
      PROVE  \A q \in Run : Sole(run[q], approvals, q)'
  <2> DEFINE t == [run[r] EXCEPT !.pc = "finishing", !.action = None, !.verdict = verdict]
  <2>1. t \in State /\ t.verdict = verdict
    BY <1>1 DEF State
  <2>2. run' = [run EXCEPT ![r] = t]
    BY <1>5 DEF Conclude
  <2> HIDE DEF t
  <2>3. t.verdict \in {"failed", "completed"}
    BY <2>1 DEF Verdict
  <2>4. QED
    BY <1>4, <1>5, <2>1, <2>2, <2>3 DEF Ended
<1>6. run' \in [Run -> State]
  <2>1. Next
    BY DEF Next
  <2>2. QED
    BY <2>1, NextKeeps DEF AskInv, IInv, TypeOK
<1>7. CASE Ask(r)
  <2> DEFINE t == [run[r] EXCEPT !.pc = "announcing"]
  <2>1. run' = [run EXCEPT ![r] = t] /\ run[r].pc = "asking" /\ AddApproval(r, FALSE)
    BY <1>7 DEF Ask, Goto, At
  <2>2. t.pc = "announcing" /\ t.verdict = run[r].verdict
    BY <1>1 DEF State
  <2> HIDE DEF t
  <2>3. run[r].verdict # "paused" /\ Asks(approvals, r) = {}
    BY <1>1, <2>1 DEF Sole, Ended
  <2>4. /\ Asks(approvals', r) = {Len(approvals) + 1}
        /\ \A q : q # r => Asks(approvals', q) = Asks(approvals, q)
    BY <1>1, <2>1, <2>3, AsksOfAdded
  <2>5. ASSUME NEW q \in Run PROVE Sole(run[q], approvals, q)'
    <3>1. run'[q] = IF q = r THEN t ELSE run[q]
      BY <1>1, <2>1
    <3>2. Sole(t, approvals', r)
      BY <2>2, <2>3, <2>4 DEF Sole
    <3>3. Sole(run[q], approvals, q)
      BY DEF AskInv
    <3>4. q # r => Sole(run[q], approvals', q)
      BY <2>4, <3>3 DEF Sole
    <3>5. Sole(run'[q], approvals', q)
      BY <3>1, <3>2, <3>4
    <3>6. QED
      BY <3>5
  <2>6. QED
    BY <2>5
<1>8. CASE \/ Start(r) \/ CallTool(r) \/ NoTool(r) \/ Handle(r) \/ HandleCommand(r)
           \/ Note(r) \/ Record(r) \/ Summarize(r) \/ Export(r) \/ Die(r)
  <2>1. /\ approvals' = approvals /\ run[r].pc # "died"
        /\ \E stage : /\ Goto(r, stage)
                      /\ run[r].pc # "announcing" \/ stage = "died"
                      /\ run[r].pc \in Ended => stage \in Ended
    BY <1>8 DEF Start, CallTool, NoTool, Handle, HandleCommand, Note, Record, Summarize, Export,
                Die, Alive, At, Ended
  <2>2. PICK stage : /\ Goto(r, stage)
                     /\ run[r].pc # "announcing" \/ stage = "died"
                     /\ run[r].pc \in Ended => stage \in Ended
    BY <2>1
  <2>3. \A q : Asks(approvals', q) = Asks(approvals, q)
    BY <1>2, <2>1
  <2>4. QED
    BY <1>3, <1>6, <2>1, <2>2, <2>3
<1>9. CASE HoldCommand(r)
  <2>1. AddApproval(r, TRUE) /\ Goto(r, "noting") /\ run[r].pc = "handling"
    BY <1>9 DEF HoldCommand, At
  <2>2. \A q : Asks(approvals', q) = Asks(approvals, q)
    BY <1>1, <2>1, AsksOfAdded
  <2>3. QED
    BY <1>3, <1>6, <2>1, <2>2 DEF Ended
<1>10. CASE \E i \in DOMAIN approvals, status \in {"approved", "rejected"} : Resolve(r, i, status)
  <2>1. PICK i \in DOMAIN approvals, status \in {"approved", "rejected"} : Resolve(r, i, status)
    BY <1>10
  <2>2. Goto(r, "noting") /\ run[r].pc = "handling"
    BY <2>1 DEF Resolve, At
  <2>3. \A q : Asks(approvals', q) = Asks(approvals, q)
    BY <1>1, <2>1, AsksOfResolved DEF Resolve
  <2>4. QED
    BY <1>3, <1>6, <2>2, <2>3 DEF Ended
<1>11. CASE TimeOut(r) \/ FinishAction(r) \/ Exhaust(r)
  <2>1. /\ Conclude(r, "failed") \/ Conclude(r, "completed")
        /\ approvals' = approvals /\ run[r].pc = "turn"
    BY <1>11 DEF TimeOut, FinishAction, Exhaust, InLoop, At
  <2>2. QED
    BY <1>5, <2>1 DEF Verdict
<1>12. CASE Announce(r)
  <2> DEFINE t == [run[r] EXCEPT !.pc = "finishing", !.action = None, !.verdict = "paused"]
  <2>1. t \in State /\ t.pc = "finishing" /\ t.verdict = "paused"
    BY <1>1 DEF State, Verdict
  <2>2. run' = [run EXCEPT ![r] = t] /\ approvals' = approvals /\ run[r].pc = "announcing"
    BY <1>12 DEF Announce, Conclude, At
  <2> HIDE DEF t
  <2>3. QED
    BY <1>2, <2>1, <2>2, SoleStep DEF Ended
<1>13. CASE ModelFails(r) \/ Block(r) \/ HandlerRaises(r)
  <2>1. /\ Erred(r) /\ approvals' = approvals /\ run[r].pc \notin Ended \cup {"announcing"}
    BY <1>13 DEF ModelFails, Block, HandlerRaises, InLoop, At, Ended
  <2>2. run' = [run EXCEPT ![r] = run'[r]]
    BY <1>1, <2>1 DEF Erred
  <2>3. run'[r].verdict \in {run[r].verdict, "failed"}
    BY <1>1, <2>1 DEF Erred, State
  <2>4. run'[r] \in State
    BY <1>6
  <2>5. QED
    BY <1>4, <2>1, <2>2, <2>3, <2>4
<1>14. CASE Report(r) \/ \E action \in Actions[r] : Think(r, action)
  <2>1. /\ approvals' = approvals /\ run[r].pc \notin Ended \cup {"announcing"}
    BY <1>14 DEF Report, Think, InLoop, At, Ended
  <2>2. run' = [run EXCEPT ![r] = run'[r]] /\ run'[r].verdict = run[r].verdict
    BY <1>1, <1>14 DEF Report, Think, State
  <2>3. run'[r] \in State
    BY <1>6
  <2>4. QED
    BY <1>4, <2>1, <2>2, <2>3
<1>15. QED
  BY <1>7, <1>8, <1>9, <1>10, <1>11, <1>12, <1>13, <1>14 DEF Step

LEMMA SoleInit == Init => AskInv
<1> SUFFICES ASSUME Init PROVE AskInv
  OBVIOUS
<1>1. ASSUME NEW r \in Run PROVE Sole(run[r], approvals, r)
  <2>1. approvals = <<>> /\ run[r].verdict # "paused"
    BY HarnessAssumption DEF Init, Idle, Verdict
  <2>2. Asks(approvals, r) = {}
    BY <2>1 DEF Asks
  <2>3. QED
    BY <2>1, <2>2 DEF Sole
<1>2. QED
  BY <1>1, InitHolds DEF AskInv

LEMMA SoleKeeps == AskInv /\ [Next]_vars => AskInv'
<1> SUFFICES ASSUME AskInv, [Next]_vars PROVE AskInv'
  OBVIOUS
<1>1. IInv'
  BY NextKeeps DEF AskInv
<1>2. ASSUME NEW r \in Run, Step(r) \/ Die(r) PROVE \A q \in Run : Sole(run[q], approvals, q)'
  BY <1>2, SoleNext
<1>3. ASSUME NEW i \in DOMAIN approvals, Approve(i)
      PROVE  \A q \in Run : Sole(run[q], approvals, q)'
  <2>1. run' = run /\ approvals \in Seq(Approval)
    BY <1>3 DEF Approve, AskInv, IInv, TypeOK
  <2>2. \A q : Asks(approvals', q) = Asks(approvals, q)
    BY <1>3, <2>1, AsksOfResolved DEF Approve
  <2>3. ASSUME NEW q \in Run PROVE Sole(run[q], approvals, q)'
    <3>1. Sole(run[q], approvals', q)
      BY <2>2 DEF AskInv, Sole
    <3>2. QED
      BY <2>1, <3>1
  <2>4. QED
    BY <2>3
<1>4. CASE UNCHANGED vars
  <2>1. run' = run /\ approvals' = approvals
    BY <1>4 DEF vars
  <2>2. ASSUME NEW q \in Run PROVE Sole(run[q], approvals, q)'
    <3>1. Sole(run'[q], approvals', q)
      BY <2>1 DEF AskInv
    <3>2. QED
      BY <3>1
  <2>3. \A q \in Run : Sole(run[q], approvals, q)'
    BY <2>2
  <2>4. QED
    BY <1>1, <2>3 DEF AskInv
<1>5. QED
  BY <1>1, <1>2, <1>3, <1>4 DEF Next, AskInv

LEMMA SoleHolds == Spec => []AskInv
BY SoleInit, SoleKeeps, PTL DEF Spec

-----------------------------------------------------------------------------
LEMMA Invariant == Spec => []IInv
BY InitHolds, NextKeeps, PTL DEF Spec

\* The state of the runs, their logs and the approvals keep their types: a run
\* never counts past MaxIterations.
THEOREM TypeCorrect == Spec => []TypeOK
<1>1. IInv => TypeOK
  BY DEF IInv
<1>2. QED
  BY <1>1, Invariant, PTL

\* However many runs of a task write at the same time, the events of each are
\* numbered from 1 without a gap (_next_agent_event_sequence).
THEOREM EventNumbers == Spec => []EventsAreNumbered
<1>1. IInv => EventsAreNumbered
  BY DEF IInv, Story, Numbered, EventsAreNumbered
<1>2. QED
  BY <1>1, Invariant, PTL

\* repeated_errors is the number of errors in a row in the log, and the loop is left
\* before it exceeds the limit.
THEOREM ErrorLimit == Spec => []ErrorsAreInARow
<1>1. ASSUME IInv PROVE ErrorsAreInARow
  <2> SUFFICES ASSUME NEW r \in Run, Looping(r)
               PROVE  run[r].errors = Cardinality(RecentErrors(r)) /\ run[r].errors < MaxErrors
    BY DEF ErrorsAreInARow
  <2>1. RecentErrors(r) = Errors(log[r])
    BY DEF RecentErrors, Errors
  <2>2. run[r].pc \notin Ended
    BY DEF Looping, Alive, Ended
  <2>3. QED
    BY <1>1, <2>1, <2>2 DEF IInv, Story
<1>2. QED
  BY <1>1, Invariant, PTL

\* The log of a run is numbered without a gap, between two decisions it has the
\* outcome of the first, and nothing follows the summary (execute_action).
THEOREM Outcomes == Spec => []LogTellsOutcomes
<1>1. IInv => LogTellsOutcomes
  BY DEF IInv, Story, Numbered, Told, SummaryIsLast, EventsAreNumbered, LogTellsOutcomes
<1>2. QED
  BY <1>1, Invariant, PTL

\* A run returns "paused" exactly when its policies asked for an approval, which is
\* the only one they asked for, announced in the log and in the table; calls
\* held by the shell tool pause nothing (run_task, _create_approval).
THEOREM Pauses == Spec => []PoliciesAlonePause
<1>1. AskInv => PoliciesAlonePause
  <2> SUFFICES ASSUME AskInv, NEW r \in Run, At(r, "returned")
      PROVE  /\ log[r][Len(log[r])].type = "run_summary"
             /\ run[r].verdict = "paused" <=>
                  \E i \in DOMAIN log[r] : log[r][i].type = "approval_requested"
             /\ run[r].verdict = "paused" <=> AskedBy(r) # {}
             /\ \A i, j \in AskedBy(r) : i = j
    BY DEF PoliciesAlonePause
  <2>1. Story(run[r], log[r]) /\ Backed(run[r], approvals, r) /\ Sole(run[r], approvals, r)
    BY DEF AskInv, IInv
  <2>2. AskedBy(r) = Asks(approvals, r)
    BY DEF AskedBy, Asks
  <2>3. run[r].verdict = "paused" => Asks(approvals, r) # {}
    BY <2>1 DEF Backed, Asks
  <2>4. QED
    BY <2>1, <2>2, <2>3 DEF Story, Has, Sole, At
<1>2. QED
  BY <1>1, SoleHolds, PTL

\* Every result in the log of a run has a row in tool_calls (_record_tool_call).
THEOREM RowsOfResults == Spec => []ResultsHaveRows
<1>1. RInv => ResultsHaveRows
  BY DEF RInv, Rowed, Results, ResultsHaveRows, ResultsOf
<1>2. QED
  BY <1>1, RowsInit, RowsKeep, PTL DEF Spec

-----------------------------------------------------------------------------
(***************************************************************************)
(* Applying a diff (_apply_unified_diff), for any text and any hunks.      *)
(*                                                                         *)
(* Apply, ApplyHunk, Without and Meant are recursive functions on 0 .. N.  *)
(* For each there is a function of the same values with a range (Stepwise, *)
(* and what is stated of a run is shown from 0 upwards (Climb).  Both take *)
(* the least number that does not fit, which well-foundedness provides.    *)
(*                                                                         *)
(* Apply goes from the first hunk to the last with a cursor; Meant from    *)
(* the last to the first, without one.  They meet halfway: what is out,    *)
(* and the text that Meant has made of the remaining hunks from the cursor *)
(* on, are together the text meant (Completes, Halfway).                   *)
(***************************************************************************)
\* Induction over the numbers up to N, for a set of them.
LEMMA Climb ==
  ASSUME NEW N \in Nat, NEW T, 0 \in T, \A n \in 1 .. N : n - 1 \in T => n \in T
  PROVE  \A n \in 0 .. N : n \in T
<1> DEFINE Out == {n \in 0 .. N : n \notin T}
<1> SUFFICES ASSUME Out # {} PROVE FALSE
  OBVIOUS
<1>1. Out \subseteq Nat
  OBVIOUS
<1>2. PICK x \in Out : \A y \in Out : ~ (y < x)
  <2> HIDE DEF Out
  <2>1. PICK x \in Out : \A y \in Out : ~ (<<y, x>> \in OpToRel(<, Nat))
    BY <1>1, NatLessThanWellFounded, WFMin
  <2> QED BY <1>1, <2>1 DEF OpToRel
<1>3. x \in 1 .. N /\ x - 1 \in 0 .. N /\ x - 1 < x
  OBVIOUS
<1>4. x - 1 \notin Out
  BY <1>2, <1>3
<1>5. x - 1 \in T
  BY <1>3, <1>4
<1> QED BY <1>3, <1>5

\* A function that is computed step by step, each value from the one before it.
Follows(g, base, step, N) ==
  /\ g[0] = base
  /\ \A n \in 1 .. N : g[n] = step[<<n, g[n - 1]>>]

\* There is one, and its values are those of the steps.
LEMMA Stepwise ==
  ASSUME NEW V, NEW base \in V, NEW N \in Nat, NEW step \in [(1 .. N) \X V -> V]
  PROVE  \E g \in [0 .. N -> V] : Follows(g, base, step, N)
<1> DEFINE Ran(g, m) == g \in [0 .. m -> V] /\ Follows(g, base, step, m)
<1> DEFINE T == {m \in 0 .. N : \E g : Ran(g, m)}
<1>1. 0 \in T
  <2> DEFINE g == [n \in 0 .. 0 |-> base]
  <2>1. Ran(g, 0)
    BY DEF Follows
  <2> QED BY <2>1
<1>2. ASSUME NEW m \in 1 .. N, m - 1 \in T PROVE m \in T
  <2>1. m - 1 \in 0 .. N /\ m \in 0 .. N
    OBVIOUS
  <2>2. PICK g : Ran(g, m - 1)
    BY <1>2
  <2> DEFINE next == step[<<m, g[m - 1]>>]
  <2> DEFINE h == [n \in 0 .. m |-> IF n = m THEN next ELSE g[n]]
  <2>3. g[m - 1] \in V
    BY <2>1, <2>2
  <2>4. next \in V
    BY <2>3
  <2>5. \A n \in 0 .. m - 1 : h[n] = g[n] /\ g[n] \in V
    BY <2>1, <2>2
  <2>6. h[m] = next
    BY <2>1
  <2>7. h \in [0 .. m -> V]
    <3>1. ASSUME NEW n \in 0 .. m PROVE h[n] \in V
      <4> HIDE DEF h, next
      <4>1. n = m \/ n \in 0 .. m - 1
        BY <2>1
      <4> QED BY <4>1, <2>4, <2>5, <2>6
    <3>2. h = [n \in 0 .. m |-> h[n]]
      OBVIOUS
    <3> HIDE DEF h
    <3> QED BY <3>1, <3>2
  <2>8. h[0] = base
    BY <2>1, <2>2, <2>5 DEF Follows
  <2>9. ASSUME NEW n \in 1 .. m PROVE h[n] = step[<<n, h[n - 1]>>]
    <3> HIDE DEF h
    <3>1. CASE n = m
      BY <3>1, <2>1, <2>5, <2>6
    <3>2. CASE n # m
      <4>1. n \in 1 .. m - 1 /\ n \in 0 .. m - 1 /\ n - 1 \in 0 .. m - 1
        BY <3>2, <2>1
      <4> QED BY <4>1, <2>2, <2>5 DEF Follows
    <3> QED BY <3>1, <3>2
  <2>10. Ran(h, m)
    BY <2>7, <2>8, <2>9 DEF Follows
  <2> HIDE DEF Ran
  <2> QED BY <2>1, <2>10
<1>3. N \in T
  <2>1. \A n \in 0 .. N : n \in T
    <3> HIDE DEF T
    <3> QED BY <1>1, <1>2, Climb
  <2> QED BY <2>1
<1> QED BY <1>3

\* Two of them that take the same steps end alike.
Alike(g, h, N) ==
  /\ g[0] = h[0]
  /\ \A n \in 1 .. N : g[n - 1] = h[n - 1] => g[n] = h[n]

LEMMA Agree == ASSUME NEW N \in Nat, NEW g, NEW h, Alike(g, h, N) PROVE g[N] = h[N]
<1> DEFINE T == {n \in 0 .. N : g[n] = h[n]}
<1>1. 0 \in T
  BY DEF Alike
<1>2. \A n \in 1 .. N : n - 1 \in T => n \in T
  BY DEF Alike
<1>3. \A n \in 0 .. N : n \in T
  <2> HIDE DEF T
  <2> QED BY <1>1, <1>2, Climb
<1> QED BY <1>3

HunkLine == [mark : {"=", "-", "+"}, text : Line]

LEMMA HunkParts ==
  ASSUME NEW hunk \in Hunk
  PROVE  /\ hunk.start \in Nat /\ hunk.body \in Seq(HunkLine)
         /\ Len(hunk.body) \in Nat
         /\ \A n \in 1 .. Len(hunk.body) : hunk.body[n] \in HunkLine
<1>1. hunk.start \in Nat /\ hunk.body \in Seq(HunkLine)
  BY DEF Hunk, HunkLine
<1> QED BY <1>1, LenProperties, ElementOfSeq

\* What the fold over a hunk carries.
Acc == [ok : BOOLEAN, out : Seq(Line), cursor : Nat \ {0}]

LEMMA FillIn == ASSUME NEW old \in Seq(Line), NEW acc \in Acc, NEW start \in Nat
                PROVE  Fill(old, acc, start) \in Acc
<1>1. CASE ~acc.ok \/ acc.cursor >= start
  BY <1>1 DEF Fill
<1>2. CASE ~(~acc.ok \/ acc.cursor >= start) /\ start > Len(old) + 1
  BY <1>2 DEF Fill, Acc
<1>3. CASE ~(~acc.ok \/ acc.cursor >= start) /\ ~ (start > Len(old) + 1)
  <2>1. acc.cursor \in Nat \ {0} /\ start \in Nat \ {0} /\ acc.out \in Seq(Line)
    BY <1>3 DEF Acc
  <2>2. SubSeq(old, acc.cursor, start - 1) \in Seq(Line)
    <3>1. \A i \in acc.cursor .. start - 1 : old[i] \in Line
      BY <1>3, <2>1, LenProperties, ElementOfSeq
    <3> QED BY <2>1, <3>1, SubSeqProperties
  <2>3. acc.out \o SubSeq(old, acc.cursor, start - 1) \in Seq(Line)
    BY <2>1, <2>2, ConcatProperties
  <2> QED BY <1>3, <2>1, <2>3 DEF Fill, Acc
<1> QED BY <1>1, <1>2, <1>3

LEMMA ApplyLineIn ==
  ASSUME NEW old \in Seq(Line), NEW acc \in Acc,
         NEW line \in HunkLine
  PROVE  ApplyLine(old, acc, line) \in Acc
<1>1. acc.cursor \in Nat \ {0} /\ acc.out \in Seq(Line) /\ acc.ok \in BOOLEAN /\ line.text \in Line
         /\ line.mark \in {"=", "-", "+"}
  BY DEF Acc, HunkLine
<1>2. CASE ~acc.ok
  BY <1>2 DEF ApplyLine
<1>3. CASE acc.ok /\ line.mark = "+"
  <2>1. Append(acc.out, line.text) \in Seq(Line)
    BY <1>1, AppendProperties
  <2> QED BY <1>1, <1>3, <2>1 DEF ApplyLine, Acc
<1>4. CASE acc.ok /\ line.mark = "-"
  <2>1. ApplyLine(old, acc, line) = [acc EXCEPT !.cursor = @ + 1]
    BY <1>4 DEF ApplyLine
  <2>2. acc.cursor + 1 \in Nat \ {0}
    BY <1>1
  <2> QED BY <2>1, <2>2 DEF Acc
<1>5. CASE acc.ok /\ line.mark = "=" /\ acc.cursor > Len(old)
  BY <1>5 DEF ApplyLine, Acc
<1>6. CASE acc.ok /\ line.mark = "=" /\ ~ (acc.cursor > Len(old))
  <2>1. ApplyLine(old, acc, line)
          = [acc EXCEPT !.out = Append(@, old[acc.cursor]), !.cursor = @ + 1]
    BY <1>6 DEF ApplyLine
  <2>2. old[acc.cursor] \in Line
    BY <1>1, <1>6, LenProperties, ElementOfSeq
  <2>3. Append(acc.out, old[acc.cursor]) \in Seq(Line)
    BY <1>1, <2>2, AppendProperties
  <2>4. acc.cursor + 1 \in Nat \ {0}
    BY <1>1
  <2> QED BY <2>1, <2>3, <2>4 DEF Acc
<1> QED BY <1>1, <1>2, <1>3, <1>4, <1>5, <1>6

\* A hunk is worked off line by line.
LEMMA HunkRun ==
  ASSUME NEW old \in Seq(Line), NEW acc \in Acc, NEW hunk \in Hunk
  PROVE  \E g \in [0 .. Len(hunk.body) -> Acc] :
           /\ g[0] = Fill(old, acc, hunk.start)
           /\ \A n \in 1 .. Len(hunk.body) : g[n] = ApplyLine(old, g[n - 1], hunk.body[n])
           /\ ApplyHunk(old, acc, hunk) = g[Len(hunk.body)]
<1> DEFINE N == Len(hunk.body)
           base == Fill(old, acc, hunk.start)
           step == [p \in (1 .. N) \X Acc |-> ApplyLine(old, p[2], hunk.body[p[1]])]
           F(f) == [n \in 0 .. N |-> IF n = 0 THEN base ELSE ApplyLine(old, f[n - 1], hunk.body[n])]
<1>1. N \in Nat /\ base \in Acc /\ \A n \in 1 .. N : hunk.body[n] \in HunkLine
  BY HunkParts, FillIn
<1>2. PICK g \in [0 .. N -> Acc] : Follows(g, base, step, N)
  <2>1. step \in [(1 .. N) \X Acc -> Acc]
    BY <1>1, ApplyLineIn
  <2>2. N \in Nat /\ base \in Acc
    BY <1>1
  <2> HIDE DEF base, step, N, F
  <2> QED BY ONLY <2>1, <2>2, Stepwise
<1>3. g[0] = base /\ \A n \in 1 .. N : g[n] = ApplyLine(old, g[n - 1], hunk.body[n])
  <2>1. \A n \in 1 .. N, v \in Acc : step[<<n, v>>] = ApplyLine(old, v, hunk.body[n])
    BY <1>1
  <2>2. \A n \in 1 .. N : g[n - 1] \in Acc
    BY <1>1
  <2> HIDE DEF base, step, N, F
  <2> QED BY <1>2, <2>1, <2>2 DEF Follows
<1>4. g = F(g)
  <2> HIDE DEF base, step
  <2> QED BY <1>1, <1>3
<1> DEFINE h == CHOOSE f : f = F(f)
<1>5. h = F(h)
  <2> HIDE DEF F
  <2> QED BY <1>4
<1>6. h[0] = base /\ \A n \in 1 .. N : h[n] = ApplyLine(old, h[n - 1], hunk.body[n])
  <2> HIDE DEF h, base, step, N
  <2>1. h[0] = base
    BY <1>1, <1>5
  <2>2. ASSUME NEW n \in 1 .. N PROVE h[n] = ApplyLine(old, h[n - 1], hunk.body[n])
    <3>1. n \in 0 .. N /\ n # 0
      BY <1>1
    <3>2. F(h)[n] = ApplyLine(old, h[n - 1], hunk.body[n])
      BY <3>1
    <3> QED BY <1>5, <3>2
  <2> QED BY <2>1, <2>2
<1>7. g[N] = h[N]
  <2>1. g[0] = h[0]
    BY <1>3, <1>6
  <2>2. \A n \in 1 .. N : g[n - 1] = h[n - 1] => g[n] = h[n]
    <3> HIDE DEF h, base, step, F, N
    <3> QED BY <1>3, <1>6
  <2>3. N \in Nat
    BY <1>1
  <2> HIDE DEF h, base, step, F, N
  <2>4. Alike(g, h, N)
    BY <2>1, <2>2 DEF Alike
  <2> QED BY ONLY <2>3, <2>4, Agree
<1>8. ApplyHunk(old, acc, hunk) = h[N]
  BY DEF ApplyHunk
<1> QED
  <2> HIDE DEF h, F, step
  <2> QED BY <1>1, <1>3, <1>7, <1>8

LEMMA ApplyHunkIn ==
  ASSUME NEW old \in Seq(Line), NEW acc \in Acc, NEW hunk \in Hunk
  PROVE  ApplyHunk(old, acc, hunk) \in Acc
<1>1. Len(hunk.body) \in 0 .. Len(hunk.body)
  BY HunkParts
<1> QED BY <1>1, HunkRun

\* Where the fold over the hunks begins.
Outset == [ok |-> TRUE, out |-> <<>>, cursor |-> 1]

LEMMA OutsetIn == Outset \in Acc
BY EmptySeq DEF Outset, Acc

\* A diff is worked off hunk by hunk.
LEMMA DiffRun ==
  ASSUME NEW old \in Seq(Line), NEW diff \in Seq(Hunk)
  PROVE  \E g \in [0 .. Len(diff) -> Acc] :
           /\ g[0] = Outset
           /\ \A n \in 1 .. Len(diff) : g[n] = ApplyHunk(old, g[n - 1], diff[n])
           /\ Apply(old, diff) = [ok |-> g[Len(diff)].ok, text |-> g[Len(diff)].out \o SubSeq(old, g[Len(diff)].cursor, Len(old))]
<1> DEFINE N == Len(diff)
           base == Outset
           step == [p \in (1 .. N) \X Acc |-> ApplyHunk(old, p[2], diff[p[1]])]
           F(f) == [n \in 0 .. N |-> IF n = 0 THEN base ELSE ApplyHunk(old, f[n - 1], diff[n])]
<1>1. N \in Nat /\ base \in Acc /\ \A n \in 1 .. N : diff[n] \in Hunk
  BY OutsetIn, LenProperties, ElementOfSeq
<1>2. PICK g \in [0 .. N -> Acc] : Follows(g, base, step, N)
  <2>1. step \in [(1 .. N) \X Acc -> Acc]
    BY <1>1, ApplyHunkIn
  <2>2. N \in Nat /\ base \in Acc
    BY <1>1
  <2> HIDE DEF base, step, N, F
  <2> QED BY ONLY <2>1, <2>2, Stepwise
<1>3. g[0] = base /\ \A n \in 1 .. N : g[n] = ApplyHunk(old, g[n - 1], diff[n])
  <2>1. \A n \in 1 .. N, v \in Acc : step[<<n, v>>] = ApplyHunk(old, v, diff[n])
    BY <1>1
  <2>2. \A n \in 1 .. N : g[n - 1] \in Acc
    BY <1>1
  <2> HIDE DEF base, step, N, F
  <2> QED BY <1>2, <2>1, <2>2 DEF Follows
<1>4. g = F(g)
  <2> HIDE DEF base, step
  <2> QED BY <1>1, <1>3
<1> DEFINE h == CHOOSE f : f = F(f)
<1>5. h = F(h)
  <2> HIDE DEF F
  <2> QED BY <1>4
<1>6. h[0] = base /\ \A n \in 1 .. N : h[n] = ApplyHunk(old, h[n - 1], diff[n])
  <2> HIDE DEF h, base, step, N
  <2>1. h[0] = base
    BY <1>1, <1>5
  <2>2. ASSUME NEW n \in 1 .. N PROVE h[n] = ApplyHunk(old, h[n - 1], diff[n])
    <3>1. n \in 0 .. N /\ n # 0
      BY <1>1
    <3>2. F(h)[n] = ApplyHunk(old, h[n - 1], diff[n])
      BY <3>1
    <3> QED BY <1>5, <3>2
  <2> QED BY <2>1, <2>2
<1>7. g[N] = h[N]
  <2>1. g[0] = h[0]
    BY <1>3, <1>6
  <2>2. \A n \in 1 .. N : g[n - 1] = h[n - 1] => g[n] = h[n]
    <3> HIDE DEF h, base, step, F, N
    <3> QED BY <1>3, <1>6
  <2>3. N \in Nat
    BY <1>1
  <2> HIDE DEF h, base, step, F, N
  <2>4. Alike(g, h, N)
    BY <2>1, <2>2 DEF Alike
  <2> QED BY ONLY <2>3, <2>4, Agree
<1>8. Apply(old, diff) = [ok |-> h[N].ok, text |-> h[N].out \o SubSeq(old, h[N].cursor, Len(old))]
  BY DEF Apply, Outset
<1> QED
  <2> HIDE DEF h, F, step
  <2> QED BY <1>1, <1>3, <1>7, <1>8

LEMMA AddLineIn ==
  ASSUME NEW text \in Seq(Line), NEW line \in HunkLine, NEW mark
  PROVE  AddLine(text, line, mark) \in Seq(Line)
<1>1. line.text \in Line
  BY DEF HunkLine
<1> QED BY <1>1, AppendProperties DEF AddLine

\* The lines of a hunk are gathered one by one.
LEMMA WithoutRun ==
  ASSUME NEW hunk \in Hunk, NEW mark
  PROVE  \E g \in [0 .. Len(hunk.body) -> Seq(Line)] :
           /\ g[0] = <<>>
           /\ \A n \in 1 .. Len(hunk.body) : g[n] = AddLine(g[n - 1], hunk.body[n], mark)
           /\ Without(hunk, mark) = g[Len(hunk.body)]
<1> DEFINE N == Len(hunk.body)
           base == <<>>
           step == [p \in (1 .. N) \X Seq(Line) |-> AddLine(p[2], hunk.body[p[1]], mark)]
           F(f) == [n \in 0 .. N |-> IF n = 0 THEN base ELSE AddLine(f[n - 1], hunk.body[n], mark)]
<1>1. N \in Nat /\ base \in Seq(Line) /\ \A n \in 1 .. N : hunk.body[n] \in HunkLine
  BY HunkParts, EmptySeq
<1>2. PICK g \in [0 .. N -> Seq(Line)] : Follows(g, base, step, N)
  <2>1. step \in [(1 .. N) \X Seq(Line) -> Seq(Line)]
    BY <1>1, AddLineIn
  <2>2. N \in Nat /\ base \in Seq(Line)
    BY <1>1
  <2> HIDE DEF base, step, N, F
  <2> QED BY ONLY <2>1, <2>2, Stepwise
<1>3. g[0] = base /\ \A n \in 1 .. N : g[n] = AddLine(g[n - 1], hunk.body[n], mark)
  <2>1. \A n \in 1 .. N, v \in Seq(Line) : step[<<n, v>>] = AddLine(v, hunk.body[n], mark)
    BY <1>1
  <2>2. \A n \in 1 .. N : g[n - 1] \in Seq(Line)
    BY <1>1
  <2> HIDE DEF base, step, N, F
  <2> QED BY <1>2, <2>1, <2>2 DEF Follows
<1>4. g = F(g)
  <2> HIDE DEF base, step
  <2> QED BY <1>1, <1>3
<1> DEFINE h == CHOOSE f : f = F(f)
<1>5. h = F(h)
  <2> HIDE DEF F
  <2> QED BY <1>4
<1>6. h[0] = base /\ \A n \in 1 .. N : h[n] = AddLine(h[n - 1], hunk.body[n], mark)
  <2> HIDE DEF h, base, step, N
  <2>1. h[0] = base
    BY <1>1, <1>5
  <2>2. ASSUME NEW n \in 1 .. N PROVE h[n] = AddLine(h[n - 1], hunk.body[n], mark)
    <3>1. n \in 0 .. N /\ n # 0
      BY <1>1
    <3>2. F(h)[n] = AddLine(h[n - 1], hunk.body[n], mark)
      BY <3>1
    <3> QED BY <1>5, <3>2
  <2> QED BY <2>1, <2>2
<1>7. g[N] = h[N]
  <2>1. g[0] = h[0]
    BY <1>3, <1>6
  <2>2. \A n \in 1 .. N : g[n - 1] = h[n - 1] => g[n] = h[n]
    <3> HIDE DEF h, base, step, F, N
    <3> QED BY <1>3, <1>6
  <2>3. N \in Nat
    BY <1>1
  <2> HIDE DEF h, base, step, F, N
  <2>4. Alike(g, h, N)
    BY <2>1, <2>2 DEF Alike
  <2> QED BY ONLY <2>3, <2>4, Agree
<1>8. Without(hunk, mark) = h[N]
  BY DEF Without
<1> QED
  <2> HIDE DEF h, F, step
  <2> QED BY <1>1, <1>3, <1>7, <1>8

LEMMA TextsIn ==
  ASSUME NEW hunk \in Hunk
  PROVE  /\ OldText(hunk) \in Seq(Line) /\ NewText(hunk) \in Seq(Line)
         /\ Len(OldText(hunk)) \in Nat /\ Len(NewText(hunk)) \in Nat
<1>1. Len(hunk.body) \in 0 .. Len(hunk.body)
  BY HunkParts
<1>2. Without(hunk, "+") \in Seq(Line) /\ Without(hunk, "-") \in Seq(Line)
  BY <1>1, WithoutRun
<1> QED BY <1>2, LenProperties DEF OldText, NewText

\* What a fold that has not failed carries, by its parts.
Good(text, cursor) == [ok |-> TRUE, out |-> text, cursor |-> cursor]

LEMMA GoodParts ==
  ASSUME NEW acc \in Acc, acc.ok
  PROVE  /\ acc = Good(acc.out, acc.cursor)
         /\ acc.out \in Seq(Line) /\ acc.cursor \in Nat \ {0}
BY DEF Acc, Good

LEMMA GoodFields ==
  ASSUME NEW text, NEW cursor
  PROVE  /\ Good(text, cursor).ok
         /\ Good(text, cursor).out = text
         /\ Good(text, cursor).cursor = cursor
BY DEF Good

\* What each line does.
LEMMA LineDoes ==
  ASSUME NEW old \in Seq(Line), NEW text \in Seq(Line), NEW cursor \in Nat, NEW line \in HunkLine
  PROVE  /\ line.mark = "+" => ApplyLine(old, Good(text, cursor), line)
                                 = Good(Append(text, line.text), cursor)
         /\ line.mark = "-" => ApplyLine(old, Good(text, cursor), line)
                                 = Good(text, cursor + 1)
         /\ line.mark = "=" /\ cursor <= Len(old)
              => ApplyLine(old, Good(text, cursor), line)
                   = Good(Append(text, old[cursor]), cursor + 1)
         /\ line.mark \in {"=", "-", "+"} /\ line.text \in Line
<1>1. Len(old) \in Nat
  BY LenProperties
<1>2. line.mark \in {"=", "-", "+"} /\ line.text \in Line
  BY DEF HunkLine
<1>3. CASE line.mark = "+"
  BY <1>2, <1>3 DEF ApplyLine, Good
<1>4. CASE line.mark = "-"
  BY <1>2, <1>4 DEF ApplyLine, Good
<1>5. CASE line.mark = "="
  <2>1. SUFFICES ASSUME cursor <= Len(old)
                 PROVE  ApplyLine(old, Good(text, cursor), line)
                          = Good(Append(text, old[cursor]), cursor + 1)
    BY <1>2, <1>5
  <2>2. ~ (cursor > Len(old))
    BY <1>1, <2>1
  <2> QED BY <1>5, <2>2 DEF ApplyLine, Good
<1> QED BY <1>2, <1>3, <1>4, <1>5

\* The lines up to the hunk are copied.
LEMMA FillDoes ==
  ASSUME NEW old \in Seq(Line), NEW text \in Seq(Line), NEW cursor \in Nat \ {0}, NEW hunk \in Hunk,
         cursor <= First(hunk), First(hunk) <= Len(old) + 1
  PROVE  Fill(old, Good(text, cursor), hunk.start)
           = Good(text \o SubSeq(old, cursor, First(hunk) - 1), First(hunk))
<1>1. hunk.start \in Nat /\ Len(old) \in Nat
  BY HunkParts, LenProperties
<1>2. CASE cursor = First(hunk)
  <2>1. First(hunk) \in Nat /\ cursor >= hunk.start
    BY <1>1, <1>2 DEF First
  <2>2. SubSeq(old, cursor, First(hunk) - 1) = <<>>
    BY <1>2, <2>1, SubSeqEmpty
  <2>3. text \o SubSeq(old, cursor, First(hunk) - 1) = text
    BY <2>2, ConcatEmptySeq
  <2> QED BY <1>2, <2>1, <2>3 DEF Fill, Good
<1>3. CASE cursor # First(hunk)
  <2>1. First(hunk) = hunk.start /\ ~ (cursor >= hunk.start)
    BY <1>1, <1>3 DEF First
  <2>2. ~ (hunk.start > Len(old) + 1)
    BY <1>1, <2>1
  <2> QED BY <2>1, <2>2 DEF Fill, Good
<1> QED BY <1>2, <1>3

Lines(body, N) == \A n \in 1 .. N : body[n] \in HunkLine

\* The lines without the mark, gathered one by one.
Gathered(o, body, mark, N) ==
  /\ o \in [0 .. N -> Seq(Line)]
  /\ o[0] = <<>>
  /\ \A n \in 1 .. N : o[n] = AddLine(o[n - 1], body[n], mark)

Begins(s, t) == Len(s) <= Len(t) /\ \A i \in 1 .. Len(s) : t[i] = s[i]

\* A text that is gathered grows and keeps what it has.
LEMMA Grows ==
  ASSUME NEW N \in Nat, NEW body, Lines(body, N), NEW o, NEW mark, Gathered(o, body, mark, N)
  PROVE  \A n \in 0 .. N : Begins(o[n], o[N])
<1> USE DEF Lines, Gathered
<1> DEFINE Prefix(n, m) == Begins(o[n], o[m])
           T == {m \in 0 .. N : \A n \in 0 .. m : Prefix(n, m)}
<1>1. \A n \in 0 .. N : o[n] \in Seq(Line) /\ Len(o[n]) \in Nat
  BY LenProperties
<1>2. 0 \in T
  BY <1>1 DEF Begins
<1>3. ASSUME NEW m \in 1 .. N, m - 1 \in T PROVE m \in T
  <2>1. m \in 0 .. N /\ m - 1 \in 0 .. N
    OBVIOUS
  <2>2. Prefix(m - 1, m)
    <3>1. CASE body[m].mark = mark
      <4>1. o[m] = o[m - 1]
        BY <3>1 DEF AddLine
      <4> QED BY <1>1, <2>1, <4>1 DEF Begins
    <3>2. CASE body[m].mark # mark
      <4>1. o[m] = Append(o[m - 1], body[m].text) /\ body[m].text \in Line
        BY <3>2 DEF AddLine, HunkLine
      <4> QED BY <1>1, <2>1, <4>1, AppendProperties DEF Begins
    <3> QED BY <3>1, <3>2
  <2>3. ASSUME NEW n \in 0 .. m PROVE Prefix(n, m)
    <3>1. CASE n = m
      BY <1>1, <2>1, <3>1 DEF Begins
    <3>2. CASE n # m
      <4>1. n \in 0 .. m - 1 /\ n \in 0 .. N
        BY <3>2
      <4>2. Prefix(n, m - 1)
        BY <1>3, <4>1
      <4> QED BY <1>1, <2>1, <2>2, <4>1, <4>2 DEF Begins
    <3> QED BY <3>1, <3>2
  <2> QED BY <2>1, <2>3
<1>4. \A m \in 0 .. N : m \in T
  <2> HIDE DEF T
  <2> QED BY <1>2, <1>3, Climb
<1> QED BY <1>4

LEMMA AppendToConcat ==
  ASSUME NEW s \in Seq(Line), NEW t \in Seq(Line), NEW e \in Line
  PROVE  s \o Append(t, e) = Append(s \o t, e)
<1>1. <<e>> \in Seq(Line) /\ s \o t \in Seq(Line)
  BY ConcatProperties
<1>2. Append(t, e) = t \o <<e>> /\ Append(s \o t, e) = (s \o t) \o <<e>>
  BY <1>1, AppendIsConcat
<1> QED BY <1>1, <1>2, ConcatAssociative

LEMMA FirstEnd ==
  ASSUME NEW hunk \in Hunk
  PROVE  /\ First(hunk) \in Nat \ {0} /\ End(hunk) \in Nat \ {0}
         /\ First(hunk) <= End(hunk)
         /\ End(hunk) = First(hunk) + Len(OldText(hunk))
BY HunkParts, TextsIn DEF First, End

\* A part of a text.
LEMMA PartOf ==
  ASSUME NEW s \in Seq(Line), NEW a \in Nat \ {0}, NEW b \in Nat, b <= Len(s)
  PROVE  /\ SubSeq(s, a, b) \in Seq(Line)
         /\ Len(SubSeq(s, a, b)) = IF a <= b THEN b - a + 1 ELSE 0
         /\ \A i \in 1 .. b - a + 1 : SubSeq(s, a, b)[i] = s[a + i - 1]
<1>1. \A i \in a .. b : s[i] \in Line
  BY LenProperties, ElementOfSeq
<1> QED BY <1>1, SubSeqProperties

Worked(g, old, body, N) ==
  \A n \in 1 .. N : g[n] = ApplyLine(old, g[n - 1], body[n])

\* A text stands in another one, from a line on.
Stands(text, old, f) ==
  /\ f + Len(text) <= Len(old) + 1
  /\ \A i \in 1 .. Len(text) : text[i] = old[f + i - 1]

\* The lines of a hunk, from where the source has what it keeps and removes.
LEMMA LinesDo ==
  ASSUME NEW old \in Seq(Line), NEW filled \in Seq(Line), NEW f \in Nat \ {0}, NEW N \in Nat,
         NEW body, Lines(body, N),
         NEW g, g[0] = Good(filled, f), Worked(g, old, body, N),
         NEW o, Gathered(o, body, "+", N), NEW w, Gathered(w, body, "-", N),
         Stands(o[N], old, f)
  PROVE  g[N] = Good(filled \o w[N], f + Len(o[N]))
<1>1. \A n \in 0 .. N : /\ o[n] \in Seq(Line) /\ w[n] \in Seq(Line) /\ Len(o[n]) \in Nat
                        /\ filled \o w[n] \in Seq(Line)
  BY LenProperties, ConcatProperties DEF Gathered
<1>2. Len(old) \in Nat /\ f + Len(o[N]) <= Len(old) + 1
  BY LenProperties DEF Stands
<1>3. \A n \in 0 .. N : Begins(o[n], o[N])
  BY Grows
<1> DEFINE T == {n \in 0 .. N : g[n] = Good(filled \o w[n], f + Len(o[n]))}
<1>4. 0 \in T
  <2>1. filled \o w[0] = filled /\ f + Len(o[0]) = f
    BY ConcatEmptySeq, EmptySeq DEF Gathered
  <2>2. g[0] = Good(filled \o w[0], f + Len(o[0]))
    BY <2>1
  <2>3. 0 \in 0 .. N
    OBVIOUS
  <2> QED BY <2>2, <2>3
<1>5. ASSUME NEW n \in 1 .. N, n - 1 \in T PROVE n \in T
  <2>1. n \in 0 .. N /\ n - 1 \in 0 .. N
    OBVIOUS
  <2>2. PICK line \in HunkLine : line = body[n]
    BY DEF Lines
  <2>3. PICK done \in Seq(Line) : done = filled \o w[n - 1]
    BY <1>1, <2>1
  <2>4. PICK at \in Nat : at = f + Len(o[n - 1])
    BY <1>1, <2>1
  <2>5. g[n] = ApplyLine(old, Good(done, at), line)
    BY <1>5, <2>2, <2>3, <2>4 DEF Worked
  <2>6. o[n] = AddLine(o[n - 1], line, "+") /\ w[n] = AddLine(w[n - 1], line, "-")
    BY <2>2 DEF Gathered
  <2>7. line.mark \in {"=", "-", "+"} /\ line.text \in Line
    BY DEF HunkLine
  <2>8. ASSUME line.mark # "+"
        PROVE  f + Len(o[n]) = at + 1 /\ at <= Len(old) /\ old[at] = line.text
    <3>1. o[n] = Append(o[n - 1], line.text)
      BY <2>6, <2>8 DEF AddLine
    <3>2. Len(o[n]) = Len(o[n - 1]) + 1 /\ o[n][Len(o[n - 1]) + 1] = line.text
      BY <1>1, <2>1, <2>7, <3>1, AppendProperties
    <3>3. PICK k \in Nat : k = Len(o[n - 1])
      BY <1>1, <2>1
    <3>4. k + 1 <= Len(o[N]) /\ o[N][k + 1] = line.text
      <4>1. Len(o[n]) = k + 1 /\ k + 1 \in 1 .. Len(o[n]) /\ o[n][k + 1] = line.text
        BY <3>2, <3>3
      <4> QED BY <1>3, <2>1, <4>1 DEF Begins
    <3>5. Len(o[N]) \in Nat
      BY <1>1
    <3>6. o[N][k + 1] = old[f + (k + 1) - 1]
      BY <3>4, <3>5 DEF Stands
    <3>7. f + (k + 1) - 1 = at /\ at <= Len(old) /\ f + Len(o[n]) = at + 1
      BY <1>2, <2>4, <3>2, <3>3, <3>4, <3>5
    <3> QED BY <3>4, <3>6, <3>7
  <2>9. w[n - 1] \in Seq(Line)
    BY <1>1, <2>1
  <2>10. filled \o Append(w[n - 1], line.text) = Append(done, line.text)
    BY ONLY <2>3, <2>7, <2>9, filled \in Seq(Line), AppendToConcat
  <2>11. /\ line.mark = "+" => g[n] = Good(Append(done, line.text), at)
         /\ line.mark = "-" => g[n] = Good(done, at + 1)
         /\ line.mark = "=" /\ at <= Len(old)
              => g[n] = Good(Append(done, old[at]), at + 1)
    BY ONLY <2>5, old \in Seq(Line), done \in Seq(Line), at \in Nat, line \in HunkLine, LineDoes
  <2>12. CASE line.mark = "+"
    <3>1. o[n] = o[n - 1] /\ w[n] = Append(w[n - 1], line.text)
      BY <2>6, <2>12 DEF AddLine
    <3> QED BY <2>1, <2>4, <2>10, <2>11, <2>12, <3>1
  <2>13. CASE line.mark = "-"
    <3>1. w[n] = w[n - 1]
      BY <2>6, <2>13 DEF AddLine
    <3> QED BY <2>1, <2>3, <2>8, <2>11, <2>13, <3>1
  <2>14. CASE line.mark = "="
    <3>1. w[n] = Append(w[n - 1], line.text)
      BY <2>6, <2>14 DEF AddLine
    <3>2. g[n] = Good(Append(done, line.text), at + 1)
      BY <2>8, <2>11, <2>14
    <3> QED BY <2>1, <2>8, <2>10, <2>14, <3>1, <3>2
  <2> QED BY <2>7, <2>12, <2>13, <2>14
<1>6. \A n \in 0 .. N : n \in T
  <2> HIDE DEF T
  <2> QED BY <1>4, <1>5, Climb
<1> QED BY <1>6

\* The source has what the hunk keeps and removes.
Suits(hunk, old) ==
  /\ End(hunk) <= Len(old) + 1
  /\ OldText(hunk) = SubSeq(old, First(hunk), End(hunk) - 1)

LEMMA SuitsStands ==
  ASSUME NEW old \in Seq(Line), NEW hunk \in Hunk, Suits(hunk, old)
  PROVE  /\ Stands(OldText(hunk), old, First(hunk))
         /\ First(hunk) <= Len(old) + 1 /\ End(hunk) <= Len(old) + 1
<1>1. PICK f \in Nat \ {0} : f = First(hunk)
  BY FirstEnd
<1>2. PICK e \in Nat \ {0} : e = End(hunk)
  BY FirstEnd
<1>3. PICK l \in Nat : l = Len(OldText(hunk))
  BY TextsIn
<1>4. PICK n \in Nat : n = Len(old)
  BY LenProperties
<1>5. e = f + l
  BY <1>1, <1>2, <1>3, FirstEnd
<1>6. e <= n + 1
  BY <1>2, <1>4 DEF Suits
<1>7. e - 1 \in Nat /\ e - 1 <= n /\ (e - 1) - f + 1 = l
  BY <1>5, <1>6
<1>8. \A i \in 1 .. l : SubSeq(old, f, e - 1)[i] = old[f + i - 1]
  BY <1>4, <1>7, PartOf
<1>9. OldText(hunk) = SubSeq(old, f, e - 1)
  BY <1>1, <1>2 DEF Suits
<1>10. Stands(OldText(hunk), old, f)
  BY <1>3, <1>4, <1>5, <1>6, <1>8, <1>9 DEF Stands
<1> QED BY <1>1, <1>2, <1>4, <1>5, <1>6, <1>10

\* A hunk that suits the source, taken up at or before its first line, copies up
\* to there, brings its new text and ends behind its old one.
LEMMA HunkDoes ==
  ASSUME NEW old \in Seq(Line), NEW text \in Seq(Line), NEW cursor \in Nat \ {0}, NEW hunk \in Hunk,
         cursor <= First(hunk), Suits(hunk, old)
  PROVE  ApplyHunk(old, Good(text, cursor), hunk)
           = Good((text \o SubSeq(old, cursor, First(hunk) - 1)) \o NewText(hunk), End(hunk))
<1>1. PICK N \in Nat : N = Len(hunk.body)
  BY HunkParts
<1>2. PICK f \in Nat \ {0} : f = First(hunk)
  BY FirstEnd
<1>3. f <= Len(old) + 1 /\ Len(old) \in Nat
  BY <1>2, SuitsStands, LenProperties
<1>4. PICK filled \in Seq(Line) : filled = text \o SubSeq(old, cursor, f - 1)
  <2>1. f - 1 \in Nat /\ f - 1 <= Len(old)
    BY <1>3
  <2>2. SubSeq(old, cursor, f - 1) \in Seq(Line)
    BY <2>1, PartOf
  <2> QED BY <2>2, ConcatProperties
<1>5. PICK body : body = hunk.body
  OBVIOUS
<1>6. Lines(body, N)
  BY <1>1, <1>5, HunkParts DEF Lines
<1>7. PICK g \in [0 .. N -> Acc] :
        /\ g[0] = Fill(old, Good(text, cursor), hunk.start)
        /\ Worked(g, old, body, N)
        /\ ApplyHunk(old, Good(text, cursor), hunk) = g[N]
  <2>1. Good(text, cursor) \in Acc
    BY DEF Good, Acc
  <2>2. PICK g \in [0 .. Len(hunk.body) -> Acc] :
          /\ g[0] = Fill(old, Good(text, cursor), hunk.start)
          /\ \A n \in 1 .. Len(hunk.body) : g[n] = ApplyLine(old, g[n - 1], hunk.body[n])
          /\ ApplyHunk(old, Good(text, cursor), hunk) = g[Len(hunk.body)]
    BY <2>1, HunkRun
  <2>3. Worked(g, old, body, N)
    BY <1>1, <1>5, <2>2 DEF Worked
  <2> QED BY <1>1, <2>2, <2>3
<1>8. PICK o : Gathered(o, body, "+", N) /\ OldText(hunk) = o[N]
  BY <1>1, <1>5, WithoutRun DEF Gathered, OldText
<1>9. PICK w : Gathered(w, body, "-", N) /\ NewText(hunk) = w[N]
  BY <1>1, <1>5, WithoutRun DEF Gathered, NewText
<1>10. g[0] = Good(filled, f)
  BY <1>2, <1>3, <1>4, <1>7, FillDoes
<1>11. Stands(o[N], old, f)
  BY <1>2, <1>8, SuitsStands
<1>12. g[N] = Good(filled \o w[N], f + Len(o[N]))
  BY <1>6, <1>7, <1>8, <1>9, <1>10, <1>11, LinesDo
<1>13. f + Len(o[N]) = End(hunk)
  BY <1>2, <1>8, FirstEnd
<1> QED BY <1>2, <1>4, <1>7, <1>9, <1>12, <1>13

\* A text has the first m lines of another one.
Shares(text, old, m) == m <= Len(text) /\ \A i \in 1 .. m : text[i] = old[i]

LEMMA BeginsWith ==
  ASSUME NEW s \in Seq(Line), NEW t \in Seq(Line)
  PROVE  Shares(s \o t, s, Len(s))
<1>1. Len(s) \in Nat /\ Len(t) \in Nat
  BY LenProperties
<1> QED BY <1>1, ConcatProperties DEF Shares

\* Replacing a hunk in a text that is the source up to the hunk's end leaves what
\* stands before the hunk.
LEMMA ReplaceDoes ==
  ASSUME NEW text \in Seq(Line), NEW old \in Seq(Line), NEW hunk \in Hunk,
         Shares(text, old, End(hunk) - 1)
  PROVE  /\ Replace(text, hunk) \in Seq(Line)
         /\ \A m \in 0 .. First(hunk) - 1 : Shares(Replace(text, hunk), old, m)
<1>1. PICK f \in Nat \ {0} : f = First(hunk)
  BY FirstEnd
<1>2. PICK e \in Nat \ {0} : e = End(hunk)
  BY FirstEnd
<1>3. PICK n \in Nat : n = Len(text)
  BY LenProperties
<1>4. f <= e /\ e - 1 <= n /\ \A i \in 1 .. e - 1 : text[i] = old[i]
  BY <1>1, <1>2, <1>3, FirstEnd DEF Shares
<1>5. PICK head \in Seq(Line) : head = SubSeq(text, 1, f - 1)
  <2>1. SubSeq(text, 1, f - 1) \in Seq(Line)
    BY <1>3, <1>4, PartOf
  <2> QED BY <2>1
<1>6. Len(head) = f - 1 /\ \A i \in 1 .. f - 1 : head[i] = text[i]
  <2>1. f - 1 \in Nat /\ f - 1 <= Len(text)
    BY <1>3, <1>4
  <2>2. Len(head) = IF 1 <= f - 1 THEN (f - 1) - 1 + 1 ELSE 0
    BY <1>5, <2>1, PartOf
  <2>3. \A i \in 1 .. (f - 1) - 1 + 1 : head[i] = text[1 + i - 1]
    BY <1>5, <2>1, PartOf
  <2> QED BY <2>1, <2>2, <2>3
<1>7. PICK new \in Seq(Line) : new = NewText(hunk)
  BY TextsIn
<1>8. PICK rest \in Seq(Line) : rest = SubSeq(text, e, n)
  <2>1. SubSeq(text, e, n) \in Seq(Line)
    BY <1>3, PartOf
  <2> QED BY <2>1
<1>9. PICK all : all = Replace(text, hunk)
  OBVIOUS
<1>10. all = (head \o new) \o rest
  BY <1>1, <1>2, <1>3, <1>5, <1>7, <1>8, <1>9 DEF Replace
<1>11. head \o new \in Seq(Line) /\ all \in Seq(Line) /\ Len(rest) \in Nat /\ Len(new) \in Nat
  BY <1>10, ConcatProperties, LenProperties
<1>12. f - 1 <= Len(head \o new) /\ \A i \in 1 .. f - 1 : (head \o new)[i] = head[i]
  BY <1>6, <1>7, BeginsWith DEF Shares
<1>13. f - 1 <= Len(all) /\ \A i \in 1 .. f - 1 : all[i] = head[i]
  <2>1. PICK k \in Nat : k = Len(head \o new)
    BY <1>11, LenProperties
  <2>2. k <= Len(all) /\ \A i \in 1 .. k : all[i] = (head \o new)[i]
    BY <1>10, <1>11, <2>1, BeginsWith DEF Shares
  <2>3. Len(all) \in Nat
    BY <1>11, LenProperties
  <2>4. f - 1 <= k /\ f - 1 <= Len(all)
    BY ONLY <1>12, <2>1, <2>2, <2>3, f \in Nat, k \in Nat
  <2>5. \A i \in 1 .. f - 1 : i \in 1 .. k
    BY ONLY <2>4, f \in Nat, k \in Nat
  <2> QED BY ONLY <1>12, <2>2, <2>4, <2>5
<1>14. ASSUME NEW m \in 0 .. f - 1 PROVE Shares(all, old, m)
  BY <1>4, <1>6, <1>11, <1>13 DEF Shares
<1> QED BY <1>1, <1>9, <1>11, <1>14

LEMMA DropConcat ==
  ASSUME NEW s \in Seq(Line), NEW t \in Seq(Line), NEW c \in Nat \ {0}, c <= Len(s) + 1
  PROVE  SubSeq(s \o t, c, Len(s \o t)) = SubSeq(s, c, Len(s)) \o t
<1>1. PICK n \in Nat : n = Len(s)
  BY LenProperties
<1>2. PICK k \in Nat : k = Len(t)
  BY LenProperties
<1>3. PICK u \in Seq(Line) : u = s \o t
  BY ConcatProperties
<1>4. Len(u) = n + k /\ \A i \in 1 .. n + k : u[i] = IF i <= n THEN s[i] ELSE t[i - n]
  BY <1>1, <1>2, <1>3, ConcatProperties
<1>5. PICK v \in Seq(Line) : v = SubSeq(s, c, n)
  <2>1. SubSeq(s, c, n) \in Seq(Line)
    BY <1>1, PartOf
  <2> QED BY <2>1
<1>6. PICK p : p = n + 1 - c
  OBVIOUS
<1>7. p \in Nat /\ n - c + 1 = p
  BY <1>1, <1>6
<1>8. Len(v) = p /\ \A i \in 1 .. p : v[i] = s[c + i - 1]
  BY <1>1, <1>5, <1>7, PartOf
<1>9. PICK w \in Seq(Line) : w = SubSeq(u, c, n + k)
  <2>1. SubSeq(u, c, n + k) \in Seq(Line)
    BY <1>4, PartOf
  <2> QED BY <2>1
<1>10. Len(w) = p + k /\ \A i \in 1 .. p + k : w[i] = u[c + i - 1]
  <2>1. n + k - c + 1 = p + k
    BY <1>6
  <2>2. /\ Len(w) = IF c <= n + k THEN n + k - c + 1 ELSE 0
        /\ \A i \in 1 .. n + k - c + 1 : w[i] = u[c + i - 1]
    BY <1>4, <1>9, PartOf
  <2> QED BY <1>6, <1>7, <2>1, <2>2
<1>11. PICK x \in Seq(Line) : x = v \o t
  BY ConcatProperties
<1>12. Len(x) = p + k /\ \A i \in 1 .. p + k : x[i] = IF i <= p THEN v[i] ELSE t[i - p]
  BY <1>2, <1>8, <1>11, ConcatProperties
<1>13. ASSUME NEW i \in 1 .. p + k PROVE w[i] = x[i]
  <2>1. w[i] = u[c + i - 1] /\ c + i - 1 \in 1 .. n + k
    BY <1>6, <1>7, <1>10
  <2>2. CASE i <= p
    <3>1. c + i - 1 <= n /\ i \in 1 .. p
      BY <1>6, <2>2
    <3>2. u[c + i - 1] = s[c + i - 1]
      BY ONLY <1>4, <2>1, <3>1
    <3>3. x[i] = v[i] /\ v[i] = s[c + i - 1]
      BY ONLY <1>8, <1>12, <2>2, <3>1, i \in 1 .. p + k
    <3> QED BY ONLY <2>1, <3>2, <3>3
  <2>3. CASE ~ (i <= p)
    <3>1. ~ (c + i - 1 <= n) /\ c + i - 1 - n = i - p
      BY <1>6, <1>7, <2>3
    <3>2. u[c + i - 1] = t[c + i - 1 - n]
      BY ONLY <1>4, <2>1, <3>1
    <3>3. x[i] = t[i - p]
      BY ONLY <1>12, <2>3, i \in 1 .. p + k
    <3> QED BY ONLY <2>1, <3>1, <3>2, <3>3
  <2> QED BY <2>2, <2>3
<1>14. w = x
  BY <1>10, <1>12, <1>13, SeqEqual
<1> QED BY <1>1, <1>3, <1>4, <1>5, <1>9, <1>11, <1>14

\* A text that shares what another one has up to b has its parts up to there.
LEMMA SharedPart ==
  ASSUME NEW text \in Seq(Line), NEW old \in Seq(Line), NEW a \in Nat \ {0}, NEW b \in Nat,
         b <= Len(old), Shares(text, old, b)
  PROVE  SubSeq(text, a, b) = SubSeq(old, a, b)
<1>1. b <= Len(text) /\ \A i \in 1 .. b : text[i] = old[i]
  BY DEF Shares
<1>2. PICK s \in Seq(Line) : s = SubSeq(text, a, b)
  <2>1. SubSeq(text, a, b) \in Seq(Line)
    BY <1>1, PartOf
  <2> QED BY <2>1
<1>3. PICK t \in Seq(Line) : t = SubSeq(old, a, b)
  <2>1. SubSeq(old, a, b) \in Seq(Line)
    BY PartOf
  <2> QED BY <2>1
<1>4. /\ Len(s) = IF a <= b THEN b - a + 1 ELSE 0
      /\ \A i \in 1 .. b - a + 1 : s[i] = text[a + i - 1]
  BY <1>1, <1>2, PartOf
<1>5. /\ Len(t) = IF a <= b THEN b - a + 1 ELSE 0
      /\ \A i \in 1 .. b - a + 1 : t[i] = old[a + i - 1]
  BY <1>3, PartOf
<1>6. ASSUME NEW i \in 1 .. Len(s) PROVE s[i] = t[i]
  <2>1. i \in 1 .. b - a + 1 /\ a + i - 1 \in 1 .. b
    BY <1>4
  <2> QED BY <1>1, <1>4, <1>5, <2>1
<1> QED BY <1>2, <1>3, <1>4, <1>5, <1>6, SeqEqual

Texts(s, t, u) == s \in Seq(Line) /\ t \in Seq(Line) /\ u \in Seq(Line)

LEMMA Associate == ASSUME NEW s, NEW t, NEW u, Texts(s, t, u) PROVE (s \o t) \o u = s \o (t \o u)
BY ConcatAssociative DEF Texts

Composed(all, s, t, u) == all = (s \o t) \o u

Within(c, s) == c \in Nat \ {0} /\ c <= Len(s) + 1

LEMMA Regroup ==
  ASSUME NEW head, NEW new, NEW rest, Texts(head, new, rest),
         NEW c, Within(c, head),
         NEW all, Composed(all, head, new, rest)
  PROVE  Composed(SubSeq(all, c, Len(all)), SubSeq(head, c, Len(head)), new, rest)
<1>0. all = (head \o new) \o rest
  BY DEF Composed
<1>1. PICK b : b = Len(head)
  OBVIOUS
<1>2. PICK part : part = SubSeq(head, c, b)
  OBVIOUS
<1>3. b \in Nat /\ part \in Seq(Line)
  BY <1>1, <1>2, PartOf, LenProperties DEF Texts, Within
<1>4. PICK tail : tail = new \o rest
  OBVIOUS
<1>5. tail \in Seq(Line)
  BY <1>4, ConcatProperties DEF Texts
<1>6. all = head \o tail
  BY <1>0, <1>4, Associate
<1>7. SubSeq(all, c, Len(all)) = part \o tail
  <2>1. SubSeq(head \o tail, c, Len(head \o tail)) = SubSeq(head, c, Len(head)) \o tail
    <3>1. head \in Seq(Line)
      BY DEF Texts
    <3> QED BY <1>5, <3>1, DropConcat DEF Within
  <2> QED BY <1>1, <1>2, <1>6, <2>1
<1>8. part \o tail = (part \o new) \o rest
  <2>1. Texts(part, new, rest)
    BY <1>3 DEF Texts
  <2>2. (part \o new) \o rest = part \o (new \o rest)
    BY ONLY <2>1, Associate
  <2> QED BY ONLY <1>4, <2>2
<1> QED BY <1>1, <1>2, <1>7, <1>8 DEF Composed

LEMMA FourParts ==
  ASSUME NEW out, NEW part, NEW new, NEW rest, out \in Seq(Line), Texts(part, new, rest)
  PROVE  out \o ((part \o new) \o rest) = ((out \o part) \o new) \o rest
<1>1. PICK a : a = part \o new
  OBVIOUS
<1>2. a \in Seq(Line)
  BY <1>1, ConcatProperties DEF Texts
<1>3. Texts(out, a, rest) /\ Texts(out, part, new)
  BY <1>2 DEF Texts
<1>4. (out \o a) \o rest = out \o (a \o rest)
  BY ONLY <1>3, Associate
<1>5. (out \o part) \o new = out \o (part \o new)
  BY ONLY <1>3, Associate
<1> QED BY ONLY <1>1, <1>4, <1>5

SameParts(s, t, b) == \A c \in Nat \ {0} : SubSeq(s, c, b) = SubSeq(t, c, b)

\* The part of a text before a hunk, from a line on, is the source's.
LEMMA SharedHead ==
  ASSUME NEW text \in Seq(Line), NEW old \in Seq(Line), NEW b \in Nat,
         b <= Len(old), Shares(text, old, b)
  PROVE  /\ SubSeq(text, 1, b) \in Seq(Line) /\ Len(SubSeq(text, 1, b)) = b
         /\ SameParts(SubSeq(text, 1, b), old, b)
<1>1. PICK head : head = SubSeq(text, 1, b)
  OBVIOUS
<1>2. b <= Len(text) /\ \A i \in 1 .. b : text[i] = old[i]
  BY DEF Shares
<1>3. head \in Seq(Line)
  BY <1>1, <1>2, PartOf
<1>4. Len(head) = b /\ \A i \in 1 .. b : head[i] = text[i]
  <2>1. b - 1 + 1 = b
    OBVIOUS
  <2>2. /\ Len(head) = IF 1 <= b THEN b - 1 + 1 ELSE 0
        /\ \A i \in 1 .. b - 1 + 1 : head[i] = text[1 + i - 1]
    BY <1>1, <1>2, PartOf
  <2> QED BY <2>1, <2>2
<1>5. Shares(head, old, b)
  BY <1>2, <1>4 DEF Shares
<1>6. SameParts(head, old, b)
  BY <1>3, <1>5, SharedPart DEF SameParts
<1> QED BY <1>1, <1>3, <1>4, <1>6

\* What has been put out once a hunk is done.
Done(done, out, old, c, hunk) ==
  done = (out \o SubSeq(old, c, First(hunk) - 1)) \o NewText(hunk)

\* What has been put out and what is still to come make up the meaning.
Completes(meant, out, text, c) == meant = out \o SubSeq(text, c, Len(text))

\* What is still to come of the text after a hunk, seen from before it.
LEMMA Turn ==
  ASSUME NEW text \in Seq(Line), NEW old \in Seq(Line), NEW hunk \in Hunk, Suits(hunk, old),
         Shares(text, old, End(hunk) - 1),
         NEW out \in Seq(Line), NEW c \in Nat \ {0}, c <= First(hunk),
         NEW done, Done(done, out, old, c, hunk),
         NEW meant, Completes(meant, out, Replace(text, hunk), c)
  PROVE  Completes(meant, done, text, End(hunk))
<1>1. PICK f \in Nat \ {0} : f = First(hunk)
  BY FirstEnd
<1>2. PICK e \in Nat \ {0} : e = End(hunk)
  BY FirstEnd
<1>3. PICK n \in Nat : n = Len(text)
  BY LenProperties
<1>4. /\ f <= e /\ e - 1 <= n /\ e - 1 <= Len(old) /\ Len(old) \in Nat
      /\ \A i \in 1 .. e - 1 : text[i] = old[i]
  BY <1>1, <1>2, <1>3, FirstEnd, SuitsStands, LenProperties DEF Shares
<1>5. PICK b \in Nat : b = f - 1
  OBVIOUS
<1>6. b <= Len(old) /\ Shares(text, old, b)
  BY <1>3, <1>4, <1>5 DEF Shares
<1>7. PICK head : head = SubSeq(text, 1, b)
  OBVIOUS
<1>8. head \in Seq(Line) /\ Len(head) = b /\ SubSeq(head, c, Len(head)) = SubSeq(old, c, b)
  <2>1. b <= Len(old)
    BY <1>6
  <2>2. Shares(text, old, b)
    BY <1>6
  <2>3. SubSeq(text, 1, b) \in Seq(Line) /\ Len(SubSeq(text, 1, b)) = b
    BY ONLY <2>1, <2>2, text \in Seq(Line), old \in Seq(Line), b \in Nat, SharedHead
  <2>4. SameParts(SubSeq(text, 1, b), old, b)
    BY ONLY <2>1, <2>2, text \in Seq(Line), old \in Seq(Line), b \in Nat, SharedHead
  <2> QED BY ONLY <1>7, <2>3, <2>4, c \in Nat \ {0} DEF SameParts
<1>9. PICK new : new = NewText(hunk)
  OBVIOUS
<1>10. new \in Seq(Line)
  BY <1>9, TextsIn
<1>11. PICK rest : rest = SubSeq(text, e, n)
  OBVIOUS
<1>12. rest \in Seq(Line)
  BY <1>3, <1>11, PartOf
<1>13. PICK part : part = SubSeq(old, c, b)
  OBVIOUS
<1>14. part \in Seq(Line)
  BY <1>6, <1>13, PartOf
<1>15. PICK all : all = Replace(text, hunk)
  OBVIOUS
<1>16. all = (head \o new) \o rest
  BY <1>1, <1>2, <1>3, <1>5, <1>7, <1>9, <1>11, <1>15 DEF Replace
<1>17. Within(c, head)
  BY <1>1, <1>5, <1>8 DEF Within
<1>18. SubSeq(all, c, Len(all)) = (part \o new) \o rest
  <2>1. Texts(head, new, rest)
    BY <1>8, <1>10, <1>12 DEF Texts
  <2>2. Composed(all, head, new, rest)
    BY <1>16 DEF Composed
  <2>3. Composed(SubSeq(all, c, Len(all)), SubSeq(head, c, Len(head)), new, rest)
    BY ONLY <1>17, <2>1, <2>2, Regroup
  <2> QED BY ONLY <1>8, <1>13, <2>3 DEF Composed
<1>19. out \o ((part \o new) \o rest) = ((out \o part) \o new) \o rest
  <2>1. Texts(part, new, rest)
    BY <1>10, <1>12, <1>14 DEF Texts
  <2> QED BY ONLY <2>1, out \in Seq(Line), FourParts
<1>20. done = (out \o part) \o new
  BY <1>1, <1>5, <1>9, <1>13 DEF Done
<1>21. meant = out \o SubSeq(all, c, Len(all))
  BY <1>15 DEF Completes
<1>22. rest = SubSeq(text, End(hunk), Len(text))
  BY <1>2, <1>3, <1>11
<1> QED BY ONLY <1>18, <1>19, <1>20, <1>21, <1>22 DEF Completes

\* A diff's hunks suit the text it is made for and follow one another.
Ordered(diff, old) ==
  /\ \A k \in 1 .. Len(diff) : diff[k] \in Hunk /\ Suits(diff[k], old)
  /\ \A j, k \in 1 .. Len(diff) : j < k => End(diff[j]) <= First(diff[k])

LEMMA MadeForOrdered ==
  ASSUME NEW old, NEW diff \in Seq(Hunk), MadeFor(diff, old)
  PROVE  Ordered(diff, old)
<1>1. DOMAIN diff = 1 .. Len(diff) /\ \A k \in 1 .. Len(diff) : diff[k] \in Hunk
  BY LenProperties, ElementOfSeq
<1> QED BY <1>1 DEF MadeFor, Ordered, Suits

\* m lines stand before the last n hunks.
Precede(m, diff, n) == \A j \in Len(diff) + 1 - n .. Len(diff) : m < First(diff[j])

\* Replacing one hunk more leaves what stands before them all, and finds the
\* source up to the hunk's end.
LEMMA ReplaceNext ==
  ASSUME NEW old \in Seq(Line), NEW diff \in Seq(Hunk), Ordered(diff, old),
         NEW n \in 1 .. Len(diff), NEW text \in Seq(Line),
         \A m \in 0 .. Len(old) : Precede(m, diff, n - 1) => Shares(text, old, m)
  PROVE  LET hunk == diff[Len(diff) + 1 - n] IN
         /\ Shares(text, old, End(hunk) - 1)
         /\ Replace(text, hunk) \in Seq(Line)
         /\ \A m \in 0 .. Len(old) :
              Precede(m, diff, n) => Shares(Replace(text, hunk), old, m)
<1>1. PICK N \in Nat : N = Len(diff)
  BY LenProperties
<1>2. PICK k \in 1 .. N : k = N + 1 - n
  <2>1. n \in 1 .. N
    BY <1>1
  <2>2. N + 1 - n \in 1 .. N
    BY <2>1
  <2> QED BY <2>2
<1>3. PICK hunk \in Hunk : hunk = diff[k] /\ Suits(hunk, old)
  BY <1>1, <1>2 DEF Ordered
<1>4. PICK f \in Nat \ {0} : f = First(hunk)
  BY FirstEnd
<1>5. PICK e \in Nat \ {0} : e = End(hunk)
  BY FirstEnd
<1>6. e - 1 \in 0 .. Len(old)
  <2>1. Len(old) \in Nat /\ e <= Len(old) + 1
    BY <1>3, <1>5, SuitsStands, LenProperties
  <2> QED BY <2>1
<1>7. Precede(e - 1, diff, n - 1)
  <2>1. ASSUME NEW j \in Len(diff) + 1 - (n - 1) .. Len(diff) PROVE e - 1 < First(diff[j])
    <3>1. j \in 1 .. N /\ k < j
      BY <1>1, <1>2
    <3>2. End(diff[k]) <= First(diff[j])
      BY <1>1, <1>2, <3>1 DEF Ordered
    <3>3. First(diff[j]) \in Nat
      BY <1>1, <3>1, FirstEnd DEF Ordered
    <3> QED BY <1>3, <1>5, <3>2, <3>3
  <2> QED BY <2>1 DEF Precede
<1>8. Shares(text, old, e - 1)
  BY <1>6, <1>7
<1>9. /\ Replace(text, hunk) \in Seq(Line)
      /\ \A m \in 0 .. f - 1 : Shares(Replace(text, hunk), old, m)
  BY <1>4, <1>5, <1>8, ReplaceDoes
<1>10. ASSUME NEW m \in 0 .. Len(old), Precede(m, diff, n) PROVE m \in 0 .. f - 1
  <2>1. k \in Len(diff) + 1 - n .. Len(diff)
    BY <1>1, <1>2
  <2>2. m < First(diff[k])
    BY <1>10, <2>1 DEF Precede
  <2>3. m \in Nat
    BY LenProperties
  <2> QED BY <1>3, <1>4, <2>2, <2>3
<1> QED BY <1>1, <1>2, <1>3, <1>5, <1>8, <1>9, <1>10

\* What a diff means is computed from its last hunk to its first.
LEMMA MeantRun ==
  ASSUME NEW old \in Seq(Line), NEW diff \in Seq(Hunk), Ordered(diff, old)
  PROVE  \E t \in [0 .. Len(diff) -> Seq(Line)] :
           /\ t[0] = old
           /\ \A n \in 1 .. Len(diff) :
                /\ t[n] = Replace(t[n - 1], diff[Len(diff) + 1 - n])
                /\ Shares(t[n - 1], old, End(diff[Len(diff) + 1 - n]) - 1)
           /\ Meant(diff, old) = t[Len(diff)]
<1> DEFINE N == Len(diff)
           R(n, text) == Replace(text, diff[N + 1 - n])
           step == [p \in (1 .. N) \X Seq(Line) |->
                      IF R(p[1], p[2]) \in Seq(Line) THEN R(p[1], p[2]) ELSE p[2]]
           F(f) == [n \in 0 .. N |-> IF n = 0 THEN old ELSE R(n, f[n - 1])]
<1>1. N \in Nat
  BY LenProperties
<1>2. PICK t \in [0 .. N -> Seq(Line)] : Follows(t, old, step, N)
  <2>1. step \in [(1 .. N) \X Seq(Line) -> Seq(Line)]
    <3>1. \A p \in (1 .. N) \X Seq(Line) : step[p] \in Seq(Line)
      BY <1>1
    <3> HIDE DEF R
    <3> QED BY <3>1
  <2> HIDE DEF step, N, F
  <2> QED BY ONLY <1>1, <2>1, old \in Seq(Line), Stepwise
<1>3. t[0] = old
  BY <1>2 DEF Follows
<1>4. ASSUME NEW n \in 1 .. N, R(n, t[n - 1]) \in Seq(Line) PROVE t[n] = R(n, t[n - 1])
  <2>1. t[n - 1] \in Seq(Line)
    BY <1>1
  <2>2. step[<<n, t[n - 1]>>] = R(n, t[n - 1])
    <3> HIDE DEF R, N
    <3> QED BY <1>4, <2>1
  <2> HIDE DEF R, N, step
  <2> QED BY <1>2, <2>2 DEF Follows
<1> DEFINE T == {n \in 0 .. N : \A m \in 0 .. Len(old) : Precede(m, diff, n) => Shares(t[n], old, m)}
<1>5. 0 \in T
  <2>1. \A m \in 0 .. Len(old) : Shares(old, old, m)
    BY LenProperties DEF Shares
  <2> QED BY <1>1, <1>3, <2>1
<1>6. ASSUME NEW n \in 1 .. N, n - 1 \in T
      PROVE  /\ Shares(t[n - 1], old, End(diff[N + 1 - n]) - 1)
             /\ t[n] = R(n, t[n - 1])
             /\ n \in T
  <2>1. t[n - 1] \in Seq(Line) /\ n \in 0 .. N
    BY <1>1
  <2>2. \A m \in 0 .. Len(old) : Precede(m, diff, n - 1) => Shares(t[n - 1], old, m)
    BY <1>6
  <2>3. /\ Shares(t[n - 1], old, End(diff[N + 1 - n]) - 1)
        /\ R(n, t[n - 1]) \in Seq(Line)
        /\ \A m \in 0 .. Len(old) : Precede(m, diff, n) => Shares(R(n, t[n - 1]), old, m)
    BY <2>1, <2>2, ReplaceNext
  <2>4. t[n] = R(n, t[n - 1])
    BY <1>4, <2>3
  <2> HIDE DEF R, N
  <2> QED BY <2>1, <2>3, <2>4
<1>7. \A n \in 0 .. N : n \in T
  <2>1. \A n \in 1 .. N : n - 1 \in T => n \in T
    BY <1>6
  <2> HIDE DEF T, N
  <2> QED BY <1>1, <1>5, <2>1, Climb
<1>8. ASSUME NEW n \in 1 .. N
      PROVE  t[n] = R(n, t[n - 1]) /\ Shares(t[n - 1], old, End(diff[N + 1 - n]) - 1)
  <2>1. n - 1 \in 0 .. N
    BY <1>1
  <2>2. n - 1 \in T
    BY <1>7, <2>1
  <2> HIDE DEF T, R, N
  <2> QED BY <1>6, <2>2
<1> HIDE DEF T, step
<1>9. t = F(t)
  <2> HIDE DEF R
  <2> QED BY <1>1, <1>3, <1>8
<1> DEFINE h == CHOOSE f : f = F(f)
<1>10. h = F(h)
  <2> HIDE DEF F
  <2> QED BY <1>9
<1>11. h[0] = old /\ \A n \in 1 .. N : h[n] = R(n, h[n - 1])
  <2> HIDE DEF h, R, N
  <2>1. h[0] = old
    BY <1>1, <1>10
  <2>2. ASSUME NEW n \in 1 .. N PROVE h[n] = R(n, h[n - 1])
    <3>1. n \in 0 .. N /\ n # 0
      BY <1>1
    <3>2. F(h)[n] = R(n, h[n - 1])
      BY <3>1
    <3> QED BY <1>10, <3>2
  <2> QED BY <2>1, <2>2
<1>12. t[N] = h[N]
  <2>1. t[0] = h[0]
    BY <1>3, <1>11
  <2>2. \A n \in 1 .. N : t[n - 1] = h[n - 1] => t[n] = h[n]
    <3> HIDE DEF h, F, N
    <3> QED BY <1>8, <1>11
  <2> HIDE DEF h, F, N, R
  <2>3. Alike(t, h, N)
    BY <2>1, <2>2 DEF Alike
  <2> QED BY ONLY <1>1, <2>3, Agree
<1>13. Meant(diff, old) = h[N]
  BY DEF Meant
<1> QED
  <2> HIDE DEF h, F
  <2> QED BY <1>1, <1>3, <1>8, <1>12, <1>13

Halfway(meant, acc, text) == acc.ok /\ Completes(meant, acc.out, text, acc.cursor)

\* One hunk further.
LEMMA HunkFurther ==
  ASSUME NEW old \in Seq(Line), NEW text \in Seq(Line), NEW hunk \in Hunk, Suits(hunk, old),
         Shares(text, old, End(hunk) - 1), NEW acc \in Acc, acc.cursor <= First(hunk),
         NEW meant, Halfway(meant, acc, Replace(text, hunk))
  PROVE  /\ Halfway(meant, ApplyHunk(old, acc, hunk), text)
         /\ ApplyHunk(old, acc, hunk).cursor = End(hunk)
<1>1. PICK out \in Seq(Line) : out = acc.out
  BY DEF Acc
<1>2. PICK c \in Nat \ {0} : c = acc.cursor
  BY DEF Acc
<1>3. acc.ok
  BY DEF Halfway
<1>4. acc = Good(out, c)
  BY <1>1, <1>2, <1>3, GoodParts
<1>5. c <= First(hunk)
  BY <1>2
<1>6. PICK done : Done(done, out, old, c, hunk)
  BY DEF Done
<1>7. ApplyHunk(old, acc, hunk) = Good(done, End(hunk))
  <2>1. ApplyHunk(old, Good(out, c), hunk)
          = Good((out \o SubSeq(old, c, First(hunk) - 1)) \o NewText(hunk), End(hunk))
    BY <1>5, HunkDoes
  <2> QED BY <1>4, <1>6, <2>1 DEF Done
<1>8. Completes(meant, out, Replace(text, hunk), c)
  BY <1>1, <1>2 DEF Halfway
<1>9. Completes(meant, done, text, End(hunk))
  BY <1>5, <1>6, <1>8, Turn
<1>10. PICK r : r = ApplyHunk(old, acc, hunk)
  OBVIOUS
<1>11. r.ok /\ r.out = done /\ r.cursor = End(hunk)
  BY ONLY <1>7, <1>10, GoodFields
<1>12. Completes(meant, r.out, text, r.cursor)
  BY ONLY <1>9, <1>11
<1> QED BY ONLY <1>10, <1>11, <1>12 DEF Halfway

\* A diff made for a text is applied to it, with the outcome that it means.
THEOREM DiffIsApplied ==
  ASSUME NEW old \in Seq(Line), NEW diff \in Seq(Hunk), MadeFor(diff, old)
  PROVE  Apply(old, diff).ok /\ Apply(old, diff).text = Meant(diff, old)
<1>1. PICK N \in Nat : N = Len(diff)
  BY LenProperties
<1>2. Ordered(diff, old)
  BY MadeForOrdered
<1>3. PICK t \in [0 .. N -> Seq(Line)] :
        /\ t[0] = old
        /\ \A n \in 1 .. N : /\ t[n] = Replace(t[n - 1], diff[N + 1 - n])
                             /\ Shares(t[n - 1], old, End(diff[N + 1 - n]) - 1)
        /\ Meant(diff, old) = t[N]
  BY <1>1, <1>2, MeantRun
<1>4. PICK g \in [0 .. N -> Acc] :
        /\ g[0] = Outset
        /\ \A n \in 1 .. N : g[n] = ApplyHunk(old, g[n - 1], diff[n])
        /\ Apply(old, diff) = [ok |-> g[N].ok, text |-> g[N].out \o SubSeq(old, g[N].cursor, Len(old))]
  BY <1>1, DiffRun
<1> DEFINE T == {n \in 0 .. N : /\ Halfway(t[N], g[n], t[N - n])
                                /\ \A k \in 1 .. N : n < k => g[n].cursor <= First(diff[k])}
<1>5. 0 \in T
  <2>1. t[N] \in Seq(Line) /\ Len(t[N]) \in Nat
    BY LenProperties
  <2>2. <<>> \o SubSeq(t[N], 1, Len(t[N])) = t[N]
    BY <2>1, SubSeqFull, ConcatEmptySeq
  <2>3. g[0].ok /\ g[0].out = <<>> /\ g[0].cursor = 1
    BY <1>4 DEF Outset
  <2>4. Halfway(t[N], g[0], t[N])
    BY ONLY <2>2, <2>3 DEF Halfway, Completes
  <2>5. \A k \in 1 .. N : g[0].cursor <= First(diff[k])
    BY <1>1, <1>2, <2>3, FirstEnd DEF Ordered
  <2> QED BY <2>4, <2>5
<1>6. ASSUME NEW n \in 1 .. N, n - 1 \in T PROVE n \in T
  <2>1. PICK hunk \in Hunk : hunk = diff[n] /\ Suits(hunk, old)
    BY <1>1, <1>2 DEF Ordered
  <2>2. PICK text \in Seq(Line) : text = t[N - n]
    OBVIOUS
  <2>3. t[N - (n - 1)] = Replace(text, hunk) /\ Shares(text, old, End(hunk) - 1)
    <3>1. N - (n - 1) \in 1 .. N /\ (N - (n - 1)) - 1 = N - n /\ N + 1 - (N - (n - 1)) = n
      OBVIOUS
    <3>2. PICK m \in 1 .. N : m = N - (n - 1)
      BY <3>1
    <3>3. m - 1 = N - n /\ N + 1 - m = n
      BY <3>2
    <3>4. t[m] = Replace(t[m - 1], diff[N + 1 - m]) /\ Shares(t[m - 1], old, End(diff[N + 1 - m]) - 1)
      BY <1>3
    <3> QED BY ONLY <2>1, <2>2, <3>2, <3>3, <3>4
  <2>4. PICK acc \in Acc : acc = g[n - 1]
    OBVIOUS
  <2>5. Halfway(t[N], acc, Replace(text, hunk)) /\ acc.cursor <= First(hunk)
    BY <1>6, <2>1, <2>3, <2>4
  <2>6. PICK meant : meant = t[N]
    OBVIOUS
  <2>7. /\ Halfway(meant, ApplyHunk(old, acc, hunk), text)
        /\ ApplyHunk(old, acc, hunk).cursor = End(hunk)
    BY <2>1, <2>3, <2>5, <2>6, HunkFurther
  <2>8. g[n] = ApplyHunk(old, acc, hunk)
    BY <1>4, <2>1, <2>4
  <2>9. \A k \in 1 .. N : n < k => g[n].cursor <= First(diff[k])
    BY <1>1, <1>2, <2>1, <2>7, <2>8 DEF Ordered
  <2> QED BY <2>2, <2>6, <2>7, <2>8, <2>9
<1>7. N \in T
  <2>1. \A n \in 0 .. N : n \in T
    <3> HIDE DEF T
    <3> QED BY <1>5, <1>6, Climb
  <2> QED BY <2>1
<1>8. Halfway(t[N], g[N], old)
  <2>1. N - N = 0
    OBVIOUS
  <2> QED BY <1>3, <1>7, <2>1
<1>9. g[N].ok /\ t[N] = g[N].out \o SubSeq(old, g[N].cursor, Len(old))
  BY <1>8 DEF Halfway, Completes
<1>10. PICK text : text = g[N].out \o SubSeq(old, g[N].cursor, Len(old))
  OBVIOUS
<1>11. PICK ok : ok = g[N].ok
  OBVIOUS
<1>12. Apply(old, diff) = [ok |-> ok, text |-> text]
  BY ONLY <1>4, <1>10, <1>11
<1>13. text = Meant(diff, old) /\ ok
  BY ONLY <1>3, <1>9, <1>10, <1>11
<1> QED BY ONLY <1>12, <1>13

-----------------------------------------------------------------------------
(***************************************************************************)
(* The directory the run works in: TaskWorkspace, for any number of        *)
(* attempts, any files and diffs and any repository.                       *)
(*                                                                         *)
(* A tree is Consistent in itself: its edits name backups and its records  *)
(* edits.  Edits and backups only grow as long as the tree is there, and a *)
(* snapshot is a tree like any other, so what an attempt holds of it stays *)
(* true (Knows); only a seeding or another attempt's write to the same     *)
(* file can void it, and both leave a mark.  While a tree is seeded nobody *)
(* else is at it (Alone).  The seeding is proved upon that: what an        *)
(* attempt may count on (Fits) follows from where it is.                   *)
(***************************************************************************)
\* Where an attempt may be, at seeding and at work.
Stages == {"new", "clear", "mkdir", "copy", "work", "save", "write", "record", "dead"}
Seeds == {"clear", "mkdir", "copy"}
Runs == Seeds \cup {"work", "save", "write", "record"}

\* A sequence, an attempt: what they are made of, whatever it is.
IsSequence(s) == Len(s) \in Nat /\ s = [i \in 1..Len(s) |-> s[i]]

IsAttempt(x) ==
  /\ x = [pc |-> x.pc, todo |-> x.todo, f |-> x.f, old |-> x.old, new |-> x.new,
          diff |-> x.diff, backup |-> x.backup, edit |-> x.edit,
          disturbed |-> x.disturbed]
  /\ x.pc \in Stages /\ x.disturbed \in BOOLEAN

\* A text that is kept in a backup, or no text and no backup.
SavedAs(t, backup, text) ==
  IF text = Absent THEN backup = 0
  ELSE backup \in DOMAIN t.backups /\ t.backups[backup] = text

\* What a tree tells about itself.
Consistent(t) ==
  /\ t = [root |-> t.root, repo |-> t.repo, file |-> t.file, backups |-> t.backups,
          records |-> t.records, edits |-> t.edits, broken |-> t.broken]
  /\ t.file = [f \in File |-> t.file[f]] /\ t.broken \in BOOLEAN
  /\ IsSequence(t.backups) /\ IsSequence(t.records) /\ IsSequence(t.edits)
  /\ \A n \in DOMAIN t.edits :
       /\ t.edits[n].f \in File
       /\ t.edits[n].backup \in {0} \cup DOMAIN t.backups
       /\ ~t.broken /\ ~t.edits[n].disturbed =>
            SavedAs(t, t.edits[n].backup, t.edits[n].before)
  /\ \A i \in DOMAIN t.records :
       /\ t.records[i].edit \in DOMAIN t.edits
       /\ t.records[i].f = t.edits[t.records[i].edit].f
       /\ t.records[i].backup = t.edits[t.records[i].edit].backup

\* What an attempt x at an edit knows of the tree t.
Knows(x, t) ==
  /\ x.pc \in {"save", "write", "record"} => x.f \in File
  /\ x.pc = "write" =>
       /\ x.backup \in {0} \cup DOMAIN t.backups
       /\ ~t.broken /\ ~x.disturbed => SavedAs(t, x.backup, t.file[x.f])
  /\ x.pc = "record" =>
       /\ x.edit \in DOMAIN t.edits
       /\ x.f = t.edits[x.edit].f
       /\ x.backup = t.edits[x.edit].backup

\* Nobody else is at a tree that is being seeded.
Alone ==
  ~tree.broken =>
    \A a, b \in Attempt : att[a].pc \in Seeds /\ att[b].pc \in Runs => a = b

Quiet == \A a \in Attempt : att[a].pc \notin Runs

\* The invariant behind the edits.
EditInv ==
  /\ att = [a \in Attempt |-> att[a]]
  /\ \A a \in Attempt : IsAttempt(att[a]) /\ Knows(att[a], tree)
  /\ Consistent(tree)
  /\ snapshot # Absent => Consistent(snapshot)
  /\ op \in {"none", "restore", "cleanup"}
  /\ op # "none" => Quiet
  /\ op = "restore" => snapshot # Absent
  /\ Alone

-----------------------------------------------------------------------------
\* Every file of the repository is there.
Whole(t) == \A f \in File : Source[f] # Absent => t.file[f] # Absent

\* S is a set of all the texts there can be: those that are written, those
\* that are copied, and what comes out when a diff is applied to one.
ClosedTexts(S) ==
  /\ Absent \notin S /\ <<>> \in S /\ Text \subseteq S
  /\ \A f \in File : Source[f] # Absent => Source[f] \in S
  /\ \A old \in S, diff \in Diff : Apply(old, diff).ok => Apply(old, diff).text \in S

\* The files and the backups hold texts of S.
Holds(t, S) ==
  /\ \A f \in File : t.file[f] # Absent => t.file[f] \in S
  /\ \A i \in DOMAIN t.backups : t.backups[i] \in S

\* An edit has no backup only if the repository does not have the file, and
\* what has been edited was whole.
Seeded(t) ==
  ~t.broken =>
    /\ \A n \in DOMAIN t.edits : t.edits[n].backup = 0 => Source[t.edits[n].f] = Absent
    /\ DOMAIN t.edits # {} => Whole(t)

\* With one file there, all are there.
Founded(t) == ~t.broken /\ (\E f \in File : t.file[f] # Absent) => Whole(t)

\* What an attempt x at a step may count on in the tree t.
Fits(x, t, S) ==
  /\ x.pc \in {"save", "write"} => x.new \in S
  /\ ~t.broken =>
       /\ x.pc \in {"clear", "mkdir"} => \A f \in File : t.file[f] = Absent
       /\ x.pc = "copy" => /\ \A f \in File : Source[f] # Absent /\ f \notin x.todo
                                              => t.file[f] # Absent
                           /\ \A f \in x.todo : f \in File /\ Source[f] # Absent
       /\ x.pc \in {"work", "save", "write", "record"} => Whole(t)
       /\ x.pc = "write" /\ x.backup = 0 => Source[x.f] = Absent

\* The invariant behind the seeding.
WholeInv(S) ==
  /\ Holds(tree, S) /\ Seeded(tree)
  /\ (\A a \in Attempt : att[a].pc \notin Seeds) => Founded(tree)
  /\ snapshot # Absent => Holds(snapshot, S) /\ Seeded(snapshot) /\ Founded(snapshot)
  /\ \A a \in Attempt : Fits(att[a], tree, S)

-----------------------------------------------------------------------------

\* A step that makes the tree u of the tree t loses no backup and no edit.
Grown(t, u) ==
  /\ DOMAIN t.backups \subseteq DOMAIN u.backups
  /\ \A i \in DOMAIN t.backups : u.backups[i] = t.backups[i]
  /\ DOMAIN t.edits \subseteq DOMAIN u.edits
  /\ \A n \in DOMAIN t.edits : u.edits[n] = t.edits[n]
  /\ t.broken => u.broken

-----------------------------------------------------------------------------
(* Trees.                                                                  *)

\* One more entry at the end of a sequence.
LEMMA Lengthened ==
  ASSUME NEW s, IsSequence(s), NEW x
  PROVE  /\ IsSequence(Append(s, x))
         /\ Len(s) \in Nat /\ DOMAIN s = 1..Len(s)
         /\ Len(Append(s, x)) = Len(s) + 1 /\ DOMAIN Append(s, x) = 1..Len(s) + 1
         /\ \A i \in DOMAIN s : Append(s, x)[i] = s[i]
         /\ Append(s, x)[Len(s) + 1] = x
<1> DEFINE S == {s[i] : i \in 1..Len(s)} \cup {x}
<1>1. PICK n \in Nat : n = Len(s)
  BY DEF IsSequence
<1>2. s = [i \in 1..n |-> s[i]] /\ \A i \in 1..n : s[i] \in S
  BY <1>1 DEF IsSequence
<1>3. s \in Seq(S)
  <2> HIDE DEF S
  <2> QED BY <1>2
<1>4. x \in S
  OBVIOUS
<1> HIDE DEF S
<1>5. Append(s, x) \in Seq(S)
  BY <1>3, <1>4
<1>6. /\ Len(s) \in Nat /\ DOMAIN s = 1..Len(s)
      /\ Len(Append(s, x)) = Len(s) + 1 /\ DOMAIN Append(s, x) = 1..Len(s) + 1
      /\ \A i \in DOMAIN s : Append(s, x)[i] = s[i]
      /\ Append(s, x)[Len(s) + 1] = x
  BY <1>3, <1>4
<1>7. PICK l : l = Append(s, x)
  OBVIOUS
<1>8. Len(l) \in Nat /\ l \in [1..Len(l) -> S]
  BY <1>5, <1>7, LenProperties
<1>9. IsSequence(Append(s, x))
  BY <1>7, <1>8 DEF IsSequence
<1> QED BY <1>6, <1>9

\* Directories and files change.
LEMMA FilesChange ==
  ASSUME NEW t, Consistent(t), NEW u,
         u = [root |-> u.root, repo |-> u.repo, file |-> u.file, backups |-> t.backups,
              records |-> t.records, edits |-> t.edits, broken |-> u.broken],
         u.file = [f \in File |-> u.file[f]], u.broken \in BOOLEAN, t.broken => u.broken
  PROVE  Consistent(u) /\ Grown(t, u)
<1>1. u.backups = t.backups /\ u.records = t.records /\ u.edits = t.edits
  OBVIOUS
<1>2. u = [root |-> u.root, repo |-> u.repo, file |-> u.file, backups |-> u.backups,
           records |-> u.records, edits |-> u.edits, broken |-> u.broken]
  BY <1>1
<1> QED BY <1>1, <1>2 DEF Consistent, Grown, SavedAs

\* A backup is added.
LEMMA BackupAdded ==
  ASSUME NEW t, Consistent(t), NEW text, NEW u,
         u = [root |-> t.root, repo |-> t.repo, file |-> t.file,
              backups |-> Append(t.backups, text), records |-> t.records,
              edits |-> t.edits, broken |-> t.broken]
  PROVE  /\ Consistent(u) /\ Grown(t, u)
         /\ u.file = t.file /\ u.edits = t.edits /\ u.broken = t.broken
         /\ DOMAIN u.backups = DOMAIN t.backups \cup {Len(t.backups) + 1}
         /\ Len(t.backups) + 1 \in Nat \ {0}
         /\ u.backups[Len(t.backups) + 1] = text
<1>1. /\ u = [root |-> t.root, repo |-> t.repo, file |-> t.file,
              backups |-> Append(t.backups, text), records |-> t.records,
              edits |-> t.edits, broken |-> t.broken]
      /\ IsSequence(t.backups)
  BY DEF Consistent
<1>2. /\ u.file = t.file /\ u.edits = t.edits /\ u.broken = t.broken
      /\ u.records = t.records /\ u.root = t.root /\ u.repo = t.repo
      /\ u.backups = Append(t.backups, text)
  BY <1>1
<1>3. /\ IsSequence(u.backups) /\ DOMAIN t.backups \subseteq DOMAIN u.backups
      /\ DOMAIN u.backups = DOMAIN t.backups \cup {Len(t.backups) + 1}
      /\ \A i \in DOMAIN t.backups : u.backups[i] = t.backups[i]
      /\ u.backups[Len(t.backups) + 1] = text
      /\ Len(t.backups) + 1 \in Nat \ {0}
  BY <1>1, <1>2, Lengthened
<1>4. u = [root |-> u.root, repo |-> u.repo, file |-> u.file, backups |-> u.backups,
           records |-> u.records, edits |-> u.edits, broken |-> u.broken]
  BY <1>1, <1>2
<1>5. ASSUME NEW n \in DOMAIN u.edits
      PROVE  /\ u.edits[n].f \in File
             /\ u.edits[n].backup \in {0} \cup DOMAIN u.backups
             /\ ~u.broken /\ ~u.edits[n].disturbed =>
                  SavedAs(u, u.edits[n].backup, u.edits[n].before)
  <2>1. /\ t.edits[n].f \in File
        /\ t.edits[n].backup \in {0} \cup DOMAIN t.backups
        /\ ~t.broken /\ ~t.edits[n].disturbed =>
             SavedAs(t, t.edits[n].backup, t.edits[n].before)
    BY <1>2, <1>5 DEF Consistent
  <2> QED BY <2>1, <1>2, <1>3 DEF SavedAs
<1>6. Consistent(u)
  BY <1>2, <1>3, <1>4, <1>5 DEF Consistent
<1> QED BY <1>2, <1>3, <1>6 DEF Grown

\* A file is written.
LEMMA EditAdded ==
  ASSUME NEW t, Consistent(t), NEW e, NEW u, NEW file, file = [g \in File |-> file[g]],
         e.f \in File, e.backup \in {0} \cup DOMAIN t.backups,
         ~t.broken /\ ~e.disturbed => SavedAs(t, e.backup, e.before),
         u = [root |-> t.root, repo |-> TRUE, file |-> file,
              backups |-> t.backups, records |-> t.records,
              edits |-> Append(t.edits, e), broken |-> t.broken]
  PROVE  /\ Consistent(u) /\ Grown(t, u)
         /\ Len(t.edits) + 1 \in DOMAIN u.edits /\ u.edits[Len(t.edits) + 1] = e
         /\ DOMAIN u.edits = DOMAIN t.edits \cup {Len(t.edits) + 1}
         /\ \A n \in DOMAIN t.edits : u.edits[n] = t.edits[n]
<1>1. /\ u.file = file /\ u.edits = Append(t.edits, e)
      /\ u.broken = t.broken /\ u.records = t.records /\ u.backups = t.backups
      /\ u.root = t.root /\ u.repo = TRUE
  OBVIOUS
<1>2. IsSequence(t.edits)
  BY DEF Consistent
<1>3. /\ IsSequence(u.edits) /\ DOMAIN t.edits \subseteq DOMAIN u.edits
      /\ DOMAIN u.edits = DOMAIN t.edits \cup {Len(t.edits) + 1}
      /\ \A n \in DOMAIN t.edits : u.edits[n] = t.edits[n]
      /\ u.edits[Len(t.edits) + 1] = e
  BY <1>1, <1>2, Lengthened
<1>4. u = [root |-> u.root, repo |-> u.repo, file |-> u.file, backups |-> u.backups,
           records |-> u.records, edits |-> u.edits, broken |-> u.broken]
  BY <1>1
<1>5. ASSUME NEW n \in DOMAIN u.edits
      PROVE  /\ u.edits[n].f \in File
             /\ u.edits[n].backup \in {0} \cup DOMAIN u.backups
             /\ ~u.broken /\ ~u.edits[n].disturbed =>
                  SavedAs(u, u.edits[n].backup, u.edits[n].before)
  <2>1. CASE n \in DOMAIN t.edits
    <3>1. /\ t.edits[n].f \in File
          /\ t.edits[n].backup \in {0} \cup DOMAIN t.backups
          /\ ~t.broken /\ ~t.edits[n].disturbed =>
               SavedAs(t, t.edits[n].backup, t.edits[n].before)
      BY <2>1 DEF Consistent
    <3> QED BY <2>1, <3>1, <1>1, <1>3 DEF SavedAs
  <2>2. CASE n = Len(t.edits) + 1
    BY <2>2, <1>1, <1>3 DEF SavedAs
  <2> QED BY <1>3, <1>5, <2>1, <2>2
<1>6. u.file = [g \in File |-> u.file[g]]
  BY <1>1
<1>7. ASSUME NEW i \in DOMAIN u.records
      PROVE  /\ u.records[i].edit \in DOMAIN u.edits
             /\ u.records[i].f = u.edits[u.records[i].edit].f
             /\ u.records[i].backup = u.edits[u.records[i].edit].backup
  <2>1. /\ t.records[i].edit \in DOMAIN t.edits
        /\ t.records[i].f = t.edits[t.records[i].edit].f
        /\ t.records[i].backup = t.edits[t.records[i].edit].backup
    BY <1>1, <1>7 DEF Consistent
  <2> QED BY <2>1, <1>1, <1>3
<1>8. /\ IsSequence(u.backups) /\ IsSequence(u.records) /\ u.broken \in BOOLEAN
  BY <1>1 DEF Consistent
<1>9. Consistent(u)
  BY <1>3, <1>4, <1>5, <1>6, <1>7, <1>8 DEF Consistent
<1> QED BY <1>1, <1>3, <1>9 DEF Grown

\* A record is added.
LEMMA RecordAdded ==
  ASSUME NEW t, Consistent(t), NEW r, NEW u,
         r.edit \in DOMAIN t.edits, r.f = t.edits[r.edit].f,
         r.backup = t.edits[r.edit].backup,
         u = [root |-> t.root, repo |-> t.repo, file |-> t.file, backups |-> t.backups,
              records |-> Append(t.records, r), edits |-> t.edits, broken |-> t.broken]
  PROVE  /\ Consistent(u) /\ Grown(t, u)
         /\ u.file = t.file /\ u.edits = t.edits /\ u.backups = t.backups
         /\ u.broken = t.broken
<1>1. /\ u = [root |-> t.root, repo |-> t.repo, file |-> t.file, backups |-> t.backups,
              records |-> Append(t.records, r), edits |-> t.edits, broken |-> t.broken]
      /\ IsSequence(t.records)
  BY DEF Consistent
<1>2. /\ u.file = t.file /\ u.edits = t.edits /\ u.broken = t.broken
      /\ u.records = Append(t.records, r) /\ u.root = t.root /\ u.repo = t.repo
      /\ u.backups = t.backups
  BY <1>1
<1>3. /\ IsSequence(u.records)
      /\ DOMAIN u.records = DOMAIN t.records \cup {Len(t.records) + 1}
      /\ \A i \in DOMAIN t.records : u.records[i] = t.records[i]
      /\ u.records[Len(t.records) + 1] = r
  BY <1>1, <1>2, Lengthened
<1>4. u = [root |-> u.root, repo |-> u.repo, file |-> u.file, backups |-> u.backups,
           records |-> u.records, edits |-> u.edits, broken |-> u.broken]
  BY <1>1, <1>2
<1>5. ASSUME NEW i \in DOMAIN u.records
      PROVE  /\ u.records[i].edit \in DOMAIN u.edits
             /\ u.records[i].f = u.edits[u.records[i].edit].f
             /\ u.records[i].backup = u.edits[u.records[i].edit].backup
  <2>1. CASE i \in DOMAIN t.records
    BY <2>1, <1>2, <1>3 DEF Consistent
  <2>2. CASE i = Len(t.records) + 1
    BY <2>2, <1>2, <1>3
  <2> QED BY <1>3, <1>5, <2>1, <2>2
<1>6. Consistent(u)
  BY <1>2, <1>3, <1>4, <1>5 DEF Consistent, SavedAs
<1> QED BY <1>2, <1>6 DEF Grown

\* There is no tree.
LEMMA NoTreeConsistent ==
  /\ Consistent(NoTree)
  /\ NoTree.backups = <<>> /\ NoTree.edits = <<>> /\ NoTree.broken = FALSE
  /\ NoTree.file = [f \in File |-> Absent]
<1>1. IsSequence(<<>>) /\ DOMAIN <<>> = {}
  BY DEF IsSequence
<1> QED BY <1>1 DEF NoTree, Consistent

-----------------------------------------------------------------------------
(* Attempts.                                                               *)

\* What an attempt is when an operation has ended.
LEMMA Fresh ==
  ASSUME NEW p \in Stages, NEW x, x = [New EXCEPT !.pc = p]
  PROVE  /\ IsAttempt(x) /\ x.pc = p /\ x.todo = {} /\ x.diff = Absent
         /\ (p \notin {"save", "write", "record"} => \A t : Knows(x, t))
<1>1. x = [pc |-> p, todo |-> {}, f |-> Absent, old |-> Absent, new |-> Absent,
           diff |-> Absent, backup |-> 0, edit |-> 0, disturbed |-> FALSE]
  BY DEF New
<1>2. /\ x.pc = p /\ x.todo = {} /\ x.f = Absent /\ x.old = Absent /\ x.new = Absent
      /\ x.diff = Absent /\ x.backup = 0 /\ x.edit = 0 /\ x.disturbed = FALSE
  BY <1>1
<1>3. IsAttempt(x)
  BY <1>1, <1>2 DEF IsAttempt
<1> QED BY <1>2, <1>3 DEF Knows

\* An attempt's knowledge outlasts a step that leaves its file alone.
LEMMA KnowsOn ==
  ASSUME NEW x, NEW t, NEW u, Knows(x, t), Grown(t, u),
         x.pc = "write" /\ ~u.broken /\ ~x.disturbed => u.file[x.f] = t.file[x.f]
  PROVE  Knows(x, u)
<1>1. x.pc = "write" /\ ~u.broken /\ ~x.disturbed => SavedAs(u, x.backup, u.file[x.f])
  <2> SUFFICES ASSUME x.pc = "write", ~u.broken, ~x.disturbed
               PROVE  SavedAs(u, x.backup, u.file[x.f])
    OBVIOUS
  <2>1. SavedAs(t, x.backup, t.file[x.f]) /\ u.file[x.f] = t.file[x.f]
    BY DEF Knows, Grown
  <2> QED BY <2>1 DEF SavedAs, Grown
<1>2. x.pc = "write" => x.backup \in {0} \cup DOMAIN u.backups
  BY DEF Knows, Grown
<1>3. x.pc = "record" => x.edit \in DOMAIN u.edits /\ u.edits[x.edit] = t.edits[x.edit]
  BY DEF Knows, Grown
<1> QED BY <1>1, <1>2, <1>3 DEF Knows

\* The invariant, named by its values.
LEMMA EditInvOf ==
  ASSUME NEW y, att' = y, NEW u, tree' = u, NEW s, snapshot' = s, NEW o, op' = o,
         y = [a \in Attempt |-> y[a]],
         \A a \in Attempt : IsAttempt(y[a]) /\ Knows(y[a], u),
         Consistent(u), s # Absent => Consistent(s),
         o \in {"none", "restore", "cleanup"}, o = "restore" => s # Absent,
         o # "none" => \A a \in Attempt : y[a].pc \notin Runs,
         ~u.broken => \A a, b \in Attempt : y[a].pc \in Seeds /\ y[b].pc \in Runs => a = b
  PROVE  EditInv'
BY DEF EditInv, Quiet, Alone, IsAttempt, Knows, Consistent, SavedAs

\* An attempt steps; the others may notice.
LEMMA AttemptSteps ==
  ASSUME EditInv, op = "none", UNCHANGED <<snapshot, op>>, NEW a \in Attempt,
         NEW y, att' = y, y = [b \in Attempt |-> y[b]], NEW u, tree' = u,
         Consistent(u), IsAttempt(y[a]), Knows(y[a], u),
         \A b \in Attempt \ {a} : IsAttempt(y[b]) /\ y[b].pc = att[b].pc /\ Knows(y[b], u),
         tree.broken => u.broken,
         ~u.broken =>
           \A b \in Attempt \ {a} :
             /\ y[a].pc \in Seeds => att[b].pc \notin Runs
             /\ y[a].pc \in Runs => att[b].pc \notin Seeds
  PROVE  EditInv'
<1>1. \A b \in Attempt : IsAttempt(y[b]) /\ Knows(y[b], u)
  OBVIOUS
<1>2. ~u.broken => \A c, b \in Attempt : y[c].pc \in Seeds /\ y[b].pc \in Runs => c = b
  <2> SUFFICES ASSUME ~u.broken, NEW c \in Attempt, NEW b \in Attempt,
                      y[c].pc \in Seeds, y[b].pc \in Runs, c # b
               PROVE  FALSE
    OBVIOUS
  <2>1. CASE c = a
    BY <2>1
  <2>2. CASE b = a
    BY <2>2
  <2>3. CASE c # a /\ b # a
    <3>1. att[c].pc \in Seeds /\ att[b].pc \in Runs /\ ~tree.broken
      BY <2>3
    <3> QED BY <3>1 DEF EditInv, Alone
  <2> QED BY <2>1, <2>2, <2>3
<1>3. PICK s : s = snapshot
  OBVIOUS
<1>4. snapshot' = s /\ (s # Absent => Consistent(s)) /\ op' = "none"
  BY <1>3 DEF EditInv
<1> QED BY <1>1, <1>2, <1>4, EditInvOf

\* One that is running and does not start to seed goes on by itself.
LEMMA Company ==
  ASSUME EditInv, NEW a \in Attempt, att[a].pc \in Runs, NEW u, tree.broken => u.broken,
         NEW p, p \in Seeds => att[a].pc \in Seeds
  PROVE  /\ op = "none"
         /\ ~u.broken =>
              \A b \in Attempt \ {a} : /\ p \in Seeds => att[b].pc \notin Runs
                                       /\ p \in Runs => att[b].pc \notin Seeds
BY DEF EditInv, Quiet, Alone

\* The others go on knowing what they knew.
LEMMA OthersKnow ==
  ASSUME EditInv, NEW b \in Attempt, NEW u, Grown(tree, u),
         ~u.broken /\ att[b].pc = "write" => u.file[att[b].f] = tree.file[att[b].f]
  PROVE  IsAttempt(att[b]) /\ Knows(att[b], u)
<1>1. PICK z : z = att[b]
  OBVIOUS
<1>2. PICK t : t = tree
  OBVIOUS
<1>3. IsAttempt(z) /\ Knows(z, t) /\ Grown(t, u)
  BY <1>1, <1>2 DEF EditInv
<1>4. Knows(z, u)
  BY <1>1, <1>2, <1>3, KnowsOn
<1> QED BY <1>1, <1>3, <1>4

\* An attempt steps and the others do not notice.
LEMMA AttemptGoesOn ==
  ASSUME EditInv, UNCHANGED <<snapshot, op>>, NEW a \in Attempt, att[a].pc \in Runs,
         NEW x, att' = [att EXCEPT ![a] = x], NEW u, tree' = u,
         Consistent(u), Grown(tree, u), IsAttempt(x), Knows(x, u),
         x.pc \in Seeds => att[a].pc \in Seeds,
         ~u.broken =>
           \A b \in Attempt \ {a} :
             att[b].pc = "write" => u.file[att[b].f] = tree.file[att[b].f]
  PROVE  EditInv'
<1>1. PICK y : y = [att EXCEPT ![a] = x]
  OBVIOUS
<1>2. y = [b \in Attempt |-> y[b]] /\ y[a] = x /\ \A b \in Attempt \ {a} : y[b] = att[b]
  BY <1>1 DEF EditInv
<1>3. \A b \in Attempt \ {a} : IsAttempt(y[b]) /\ y[b].pc = att[b].pc /\ Knows(y[b], u)
  BY <1>2, OthersKnow
<1>4. tree.broken => u.broken
  BY DEF Grown
<1>5. /\ op = "none"
      /\ ~u.broken =>
           \A b \in Attempt \ {a} : /\ x.pc \in Seeds => att[b].pc \notin Runs
                                    /\ x.pc \in Runs => att[b].pc \notin Seeds
  BY <1>4, Company
<1> QED BY <1>1, <1>2, <1>3, <1>4, <1>5, AttemptSteps

\* A command that is given, ends or dies.
LEMMA CommandSteps ==
  ASSUME EditInv, Quiet, UNCHANGED att, NEW u, tree' = u, Consistent(u),
         NEW s, snapshot' = s, s # Absent => Consistent(s), NEW o, op' = o,
         o \in {"none", "restore", "cleanup"}, o = "restore" => s # Absent
  PROVE  EditInv'
<1>1. PICK y : y = att
  OBVIOUS
<1>2. y = [a \in Attempt |-> y[a]] /\ att' = y
  BY <1>1 DEF EditInv
<1>3. \A a \in Attempt : IsAttempt(y[a]) /\ Knows(y[a], u) /\ y[a].pc \notin Runs
  BY <1>1 DEF EditInv, Quiet, Knows, Runs
<1> QED BY <1>2, <1>3, EditInvOf

-----------------------------------------------------------------------------
(* The actions keep EditInv.                                               *)

LEMMA InitEdits == WorkspaceInit => EditInv
<1> SUFFICES ASSUME WorkspaceInit PROVE EditInv
  OBVIOUS
<1>1. \A a \in Attempt : IsAttempt(att[a]) /\ Knows(att[a], tree) /\ att[a].pc = "new"
  <2> SUFFICES ASSUME NEW a \in Attempt PROVE IsAttempt(New) /\ Knows(New, tree) /\ New.pc = "new"
    BY DEF WorkspaceInit
  <2> QED BY DEF New, IsAttempt, Knows, Stages
<1>2. Consistent(tree)
  BY NoTreeConsistent DEF WorkspaceInit
<1> QED BY <1>1, <1>2 DEF WorkspaceInit, EditInv, Alone, Quiet, Seeds, Runs

LEMMA OpenEdits == ASSUME EditInv, NEW a \in Attempt, Open(a) PROVE EditInv'
<1>1. PICK u : u = tree'
  OBVIOUS
<1>2. PICK t : t = tree
  OBVIOUS
<1>3. PICK p \in {"clear", "work"} :
        /\ p = "clear" => Unseeded
        /\ att' = [att EXCEPT ![a] = [New EXCEPT !.pc = p]]
  BY DEF Open, To
<1>4. PICK x : x = [New EXCEPT !.pc = p]
  OBVIOUS
<1>5. PICK y : y = [att EXCEPT ![a] = x]
  OBVIOUS
<1>6. /\ y = [b \in Attempt |-> y[b]] /\ y[a] = x /\ att' = y
      /\ \A b \in Attempt \ {a} : y[b] = att[b]
  BY <1>3, <1>4, <1>5 DEF EditInv
<1>7. PICK broken \in BOOLEAN :
        /\ u = [root |-> TRUE, repo |-> TRUE, file |-> t.file, backups |-> t.backups,
                records |-> t.records, edits |-> t.edits, broken |-> broken]
        /\ ~broken => ~t.broken /\ Seeding = {} /\ (Unseeded => Running = {})
  <2>1. Consistent(t)
    BY <1>2 DEF EditInv
  <2>2. u = [[t EXCEPT !.root = TRUE, !.repo = TRUE] EXCEPT
               !.broken = t.broken \/ Seeding # {} \/ (Unseeded /\ Running # {})]
    BY <1>1, <1>2, <2>1 DEF Open, Made, Consistent
  <2>3. u = [root |-> TRUE, repo |-> TRUE, file |-> t.file, backups |-> t.backups,
             records |-> t.records, edits |-> t.edits,
             broken |-> t.broken \/ Seeding # {} \/ (Unseeded /\ Running # {})]
    BY <2>1, <2>2 DEF Consistent
  <2> QED BY <2>1, <2>3 DEF Consistent
<1>8. Consistent(u) /\ Grown(t, u) /\ u.file = t.file /\ u.broken = broken
  <2>1. Consistent(t) /\ u.file = [f \in File |-> u.file[f]]
    BY <1>2, <1>7 DEF EditInv, Consistent
  <2> QED BY <1>7, <2>1, FilesChange
<1>9. \A b \in Attempt \ {a} : IsAttempt(y[b]) /\ y[b].pc = att[b].pc /\ Knows(y[b], u)
  BY <1>2, <1>6, <1>8, OthersKnow
<1>10. IsAttempt(y[a]) /\ Knows(y[a], u) /\ y[a].pc = p
  BY <1>4, <1>6, Fresh DEF Stages
<1>11. ~u.broken =>
         \A b \in Attempt \ {a} : /\ y[a].pc \in Seeds => att[b].pc \notin Runs
                                  /\ y[a].pc \in Runs => att[b].pc \notin Seeds
  BY <1>3, <1>7, <1>8, <1>10 DEF Running, Seeding, Editing, Runs, Seeds
<1>12. op = "none" /\ UNCHANGED <<snapshot, op>>
  BY DEF Open
<1>13. tree.broken => u.broken
  BY <1>2, <1>8 DEF Grown
<1> QED BY <1>1, <1>6, <1>8, <1>9, <1>10, <1>11, <1>12, <1>13, AttemptSteps

\* A record with the fields of an attempt is one.
LEMMA Explicit ==
  ASSUME NEW p \in Stages, NEW todo, NEW f, NEW old, NEW new, NEW diff, NEW backup, NEW edit,
         NEW disturbed \in BOOLEAN, NEW x,
         x = [pc |-> p, todo |-> todo, f |-> f, old |-> old, new |-> new, diff |-> diff,
              backup |-> backup, edit |-> edit, disturbed |-> disturbed]
  PROVE  /\ IsAttempt(x)
         /\ x.pc = p /\ x.todo = todo /\ x.f = f /\ x.old = old /\ x.new = new
         /\ x.diff = diff /\ x.backup = backup /\ x.edit = edit /\ x.disturbed = disturbed
<1>1. /\ x.pc = p /\ x.todo = todo /\ x.f = f /\ x.old = old /\ x.new = new
      /\ x.diff = diff /\ x.backup = backup /\ x.edit = edit /\ x.disturbed = disturbed
  OBVIOUS
<1> QED BY <1>1 DEF IsAttempt

\* A step that leaves the tree alone.
LEMMA TreeStays ==
  ASSUME EditInv, UNCHANGED <<tree, snapshot, op>>, NEW a \in Attempt, att[a].pc \in Runs,
         NEW x, att' = [att EXCEPT ![a] = x], IsAttempt(x), Knows(x, tree),
         x.pc \in Seeds => att[a].pc \in Seeds
  PROVE  EditInv'
<1>1. PICK u : u = tree
  OBVIOUS
<1>2. tree' = u /\ Consistent(u) /\ Grown(tree, u) /\ Knows(x, u)
  BY <1>1 DEF EditInv, Grown
<1> QED BY <1>1, <1>2, AttemptGoesOn

\* An operation ends and leaves the tree alone.
LEMMA EndsAlone ==
  ASSUME EditInv, UNCHANGED <<tree, snapshot, op>>, NEW a \in Attempt, att[a].pc \in Runs,
         NEW p \in {"mkdir", "work", "dead"}, p \in Seeds => att[a].pc \in Seeds, To(a, p)
  PROVE  EditInv'
<1>1. PICK x : x = [New EXCEPT !.pc = p]
  OBVIOUS
<1>2. IsAttempt(x) /\ x.pc = p /\ Knows(x, tree)
  BY <1>1, Fresh DEF Stages
<1>3. att' = [att EXCEPT ![a] = x]
  BY <1>1 DEF To
<1> QED BY <1>2, <1>3, TreeStays

\* A step of an attempt that seeds; the others are not at the tree.
LEMMA SeedStep ==
  ASSUME EditInv, UNCHANGED <<snapshot, op>>, NEW a \in Attempt, att[a].pc \in Seeds,
         NEW x, att' = [att EXCEPT ![a] = x], IsAttempt(x), x.pc \in Stages \ {"save", "write", "record"},
         NEW repo, NEW file, file = [f \in File |-> file[f]],
         NEW broken \in BOOLEAN, tree.broken => broken,
         tree' = [root |-> tree.root, repo |-> repo, file |-> file, backups |-> tree.backups,
                  records |-> tree.records, edits |-> tree.edits, broken |-> broken]
  PROVE  EditInv'
<1>1. PICK t : t = tree
  OBVIOUS
<1>2. PICK u : u = [root |-> t.root, repo |-> repo, file |-> file, backups |-> t.backups,
                    records |-> t.records, edits |-> t.edits, broken |-> broken]
  OBVIOUS
<1>3. /\ u.root = t.root /\ u.repo = repo /\ u.file = file /\ u.broken = broken
      /\ tree' = u /\ Consistent(t)
  BY <1>1, <1>2 DEF EditInv
<1>4. Consistent(u) /\ Grown(t, u)
  BY <1>1, <1>2, <1>3, FilesChange
<1>5. Knows(x, u) /\ att[a].pc \in Runs
  BY DEF Knows, Runs
<1>6. ~u.broken => \A b \in Attempt \ {a} : att[b].pc # "write"
  BY <1>1, <1>3, <1>5, Company DEF Runs
<1> QED BY <1>1, <1>3, <1>4, <1>5, <1>6, AttemptGoesOn

LEMMA ClearRepoEdits == ASSUME EditInv, NEW a \in Attempt, ClearRepo(a) PROVE EditInv'
<1>1. PICK x : x = [New EXCEPT !.pc = "mkdir"]
  OBVIOUS
<1>2. IsAttempt(x) /\ x.pc = "mkdir" /\ att' = [att EXCEPT ![a] = x]
  BY <1>1, Fresh DEF ClearRepo, To, Stages
<1>3. PICK file : file = NoTree.file
  OBVIOUS
<1>4. file = [f \in File |-> file[f]]
  BY <1>3, NoTreeConsistent
<1>5. /\ tree' = [root |-> tree.root, repo |-> FALSE, file |-> file, backups |-> tree.backups,
                  records |-> tree.records, edits |-> tree.edits, broken |-> tree.broken]
      /\ tree.broken \in BOOLEAN
  <2>1. PICK t : t = tree
    OBVIOUS
  <2>2. Consistent(t) /\ tree' = [t EXCEPT !.repo = FALSE, !.file = file]
    BY <1>3, <2>1 DEF ClearRepo, EditInv
  <2>3. tree' = [root |-> t.root, repo |-> FALSE, file |-> file, backups |-> t.backups,
                 records |-> t.records, edits |-> t.edits, broken |-> t.broken]
    BY <2>2 DEF Consistent
  <2> QED BY <2>1, <2>2, <2>3 DEF Consistent
<1> QED BY <1>2, <1>4, <1>5, SeedStep DEF ClearRepo, Seeds, Stages

LEMMA MakeRepoEdits == ASSUME EditInv, NEW a \in Attempt, MakeRepo(a) PROVE EditInv'
<1>1. CASE tree.repo
  BY <1>1, EndsAlone DEF MakeRepo, Runs, Seeds
<1>2. CASE ~tree.repo
  <2>1. PICK z : z = att[a]
    OBVIOUS
  <2>2. IsAttempt(z) /\ z.pc = "mkdir"
    BY <2>1 DEF EditInv, MakeRepo
  <2>3. PICK todo : todo = {f \in File : Source[f] # Absent}
    OBVIOUS
  <2>4. att' = [att EXCEPT ![a] = [z EXCEPT !.pc = "copy", !.todo = todo]]
    BY <1>2, <2>1, <2>3 DEF MakeRepo, EditInv
  <2>5. PICK x : x = [z EXCEPT !.pc = "copy", !.todo = todo]
    OBVIOUS
  <2>6. x = [pc |-> "copy", todo |-> todo, f |-> z.f, old |-> z.old, new |-> z.new,
             diff |-> z.diff, backup |-> z.backup, edit |-> z.edit, disturbed |-> z.disturbed]
    BY <2>2, <2>5 DEF IsAttempt
  <2>7. IsAttempt(x) /\ x.pc = "copy"
    BY <2>2, <2>6, Explicit DEF IsAttempt, Stages
  <2>8. PICK t : t = tree
    OBVIOUS
  <2>9. Consistent(t) /\ tree' = [t EXCEPT !.repo = TRUE]
    BY <1>2, <2>8 DEF MakeRepo, EditInv
  <2>10. tree' = [root |-> t.root, repo |-> TRUE, file |-> t.file, backups |-> t.backups,
                  records |-> t.records, edits |-> t.edits, broken |-> t.broken]
    BY <2>9 DEF Consistent
  <2>11. t.file = [f \in File |-> t.file[f]] /\ t.broken \in BOOLEAN
    BY <2>9 DEF Consistent
  <2> QED BY <2>2, <2>1, <2>4, <2>5, <2>7, <2>8, <2>10, <2>11, SeedStep DEF MakeRepo, Seeds, Stages
<1> QED BY <1>1, <1>2

LEMMA CopyFileEdits == ASSUME EditInv, NEW a \in Attempt, CopyFile(a) PROVE EditInv'
<1>1. PICK t : t = tree
  OBVIOUS
<1>2. PICK z : z = att[a]
  OBVIOUS
<1>3. Consistent(t) /\ IsAttempt(z) /\ z.pc = "copy"
  BY <1>1, <1>2 DEF EditInv, CopyFile
<1>4. PICK f \in z.todo :
        /\ tree' = IF t.repo THEN [t EXCEPT !.file[f] = Source[f]] ELSE [t EXCEPT !.broken = TRUE]
        /\ att' = [att EXCEPT ![a].todo = @ \ {f}]
  BY <1>1, <1>2 DEF CopyFile
<1>5. PICK x : x = [z EXCEPT !.todo = z.todo \ {f}]
  OBVIOUS
<1>6. att' = [att EXCEPT ![a] = x]
  BY <1>2, <1>4, <1>5 DEF EditInv
<1>7. x = [pc |-> "copy", todo |-> z.todo \ {f}, f |-> z.f, old |-> z.old, new |-> z.new,
           diff |-> z.diff, backup |-> z.backup, edit |-> z.edit, disturbed |-> z.disturbed]
  BY <1>3, <1>5 DEF IsAttempt
<1>8. IsAttempt(x) /\ x.pc = "copy"
  BY <1>3, <1>7, Explicit DEF IsAttempt, Stages
<1>9. PICK file, broken :
        /\ file = [g \in File |-> file[g]] /\ broken \in BOOLEAN /\ (t.broken => broken)
        /\ tree' = [root |-> t.root, repo |-> t.repo, file |-> file, backups |-> t.backups,
                    records |-> t.records, edits |-> t.edits, broken |-> broken]
  <2>1. CASE t.repo
    <3>1. PICK file : file = [t.file EXCEPT ![f] = Source[f]]
      OBVIOUS
    <3>2. tree' = [root |-> t.root, repo |-> t.repo, file |-> file, backups |-> t.backups,
                   records |-> t.records, edits |-> t.edits, broken |-> t.broken]
      BY <1>3, <1>4, <2>1, <3>1 DEF Consistent
    <3>3. file = [g \in File |-> file[g]] /\ t.broken \in BOOLEAN
      BY <1>3, <3>1 DEF Consistent
    <3> QED BY <3>2, <3>3
  <2>2. CASE ~t.repo
    <3>1. tree' = [root |-> t.root, repo |-> t.repo, file |-> t.file, backups |-> t.backups,
                   records |-> t.records, edits |-> t.edits, broken |-> TRUE]
      BY <1>3, <1>4, <2>2 DEF Consistent
    <3>2. t.file = [g \in File |-> t.file[g]]
      BY <1>3 DEF Consistent
    <3> QED BY <3>1, <3>2
  <2> QED BY <2>1, <2>2
<1>10. att[a].pc \in Seeds /\ x.pc \in Stages \ {"save", "write", "record"}
  BY <1>2, <1>3, <1>8 DEF Seeds, Stages
<1>11. UNCHANGED <<snapshot, op>>
  BY DEF CopyFile
<1> QED BY <1>1, <1>6, <1>8, <1>9, <1>10, <1>11, SeedStep

LEMMA EndCopyEdits == ASSUME EditInv, NEW a \in Attempt, EndCopy(a) PROVE EditInv'
<1>1. PICK p \in {"dead", "work"} : To(a, p)
  BY DEF EndCopy
<1> QED BY <1>1, EndsAlone DEF EndCopy, Seeds, Runs

LEMMA StopEdits == ASSUME EditInv, NEW a \in Attempt, Stop(a) PROVE EditInv'
BY EndsAlone DEF Stop, Seeds, Runs

\* An edit begins: what the attempt is then.
LEMMA EditBegins ==
  ASSUME EditInv, NEW a \in Attempt, att[a].pc = "work", NEW f \in File, NEW new, NEW diff,
         Edit(a, f, new, diff)
  PROVE  \E x : /\ att' = [att EXCEPT ![a] = x] /\ IsAttempt(x)
                /\ x.pc = "save" /\ x.f = f /\ x.new = new /\ \A t : Knows(x, t)
<1>1. PICK z : z = att[a]
  OBVIOUS
<1>2. IsAttempt(z)
  BY <1>1 DEF EditInv
<1>3. PICK old : old = Current(f)
  OBVIOUS
<1>4. PICK x : x = [z EXCEPT !.pc = "save", !.f = f, !.diff = diff, !.old = old, !.new = new,
                             !.disturbed = FALSE]
  OBVIOUS
<1>5. att' = [att EXCEPT ![a] = x]
  BY <1>1, <1>3, <1>4 DEF Edit, EditInv
<1>6. x = [pc |-> "save", todo |-> z.todo, f |-> f, old |-> old, new |-> new, diff |-> diff,
           backup |-> z.backup, edit |-> z.edit, disturbed |-> FALSE]
  BY <1>2, <1>4 DEF IsAttempt
<1>7. IsAttempt(x) /\ x.pc = "save" /\ x.f = f /\ x.new = new
  <2>1. PICK disturbed \in BOOLEAN : disturbed = FALSE
    OBVIOUS
  <2>2. x = [pc |-> "save", todo |-> z.todo, f |-> f, old |-> old, new |-> new, diff |-> diff,
             backup |-> z.backup, edit |-> z.edit, disturbed |-> disturbed]
    BY <1>6, <2>1
  <2>3. "save" \in Stages
    BY DEF Stages
  <2> QED BY <2>2, <2>3, Explicit
<1>8. \A t : Knows(x, t)
  BY <1>7 DEF Knows
<1> QED BY <1>5, <1>7, <1>8

\* A step that leaves the files alone.
LEMMA FilesStay ==
  ASSUME EditInv, UNCHANGED <<snapshot, op>>, NEW a \in Attempt, att[a].pc \in Runs,
         NEW x, att' = [att EXCEPT ![a] = x], IsAttempt(x), x.pc \notin Seeds,
         NEW repo, NEW broken \in BOOLEAN, tree.broken => broken,
         tree' = [root |-> tree.root, repo |-> repo, file |-> tree.file, backups |-> tree.backups,
                  records |-> tree.records, edits |-> tree.edits, broken |-> broken],
         \A t : Knows(x, t)
  PROVE  EditInv'
<1>1. PICK t : t = tree
  OBVIOUS
<1>2. PICK u : u = [root |-> t.root, repo |-> repo, file |-> t.file, backups |-> t.backups,
                    records |-> t.records, edits |-> t.edits, broken |-> broken]
  OBVIOUS
<1>3. /\ u.root = t.root /\ u.repo = repo /\ u.file = t.file /\ u.broken = broken
      /\ tree' = u /\ Consistent(t)
  BY <1>1, <1>2 DEF EditInv
<1>4. u.file = [f \in File |-> u.file[f]]
  BY <1>3 DEF Consistent
<1>5. Consistent(u) /\ Grown(t, u)
  BY <1>1, <1>2, <1>3, <1>4, FilesChange
<1> QED BY <1>1, <1>3, <1>5, AttemptGoesOn

LEMMA BeginWriteEdits == ASSUME EditInv, NEW a \in Attempt, BeginWrite(a) PROVE EditInv'
<1>1. PICK f \in File, new \in Text : Edit(a, f, new, Absent)
  BY DEF BeginWrite
<1>2. PICK x : /\ att' = [att EXCEPT ![a] = x] /\ IsAttempt(x)
               /\ x.pc = "save" /\ \A t : Knows(x, t)
  BY <1>1, EditBegins DEF BeginWrite
<1>3. /\ tree' = [root |-> tree.root, repo |-> TRUE, file |-> tree.file,
                  backups |-> tree.backups, records |-> tree.records, edits |-> tree.edits,
                  broken |-> tree.broken]
      /\ tree.broken \in BOOLEAN
  BY DEF BeginWrite, EditInv, Consistent
<1>4. att[a].pc \in Runs /\ x.pc \notin Seeds /\ UNCHANGED <<snapshot, op>>
  BY <1>2 DEF BeginWrite, Runs, Seeds
<1> QED BY <1>2, <1>3, <1>4, FilesStay

LEMMA BeginPatchEdits == ASSUME EditInv, NEW a \in Attempt, BeginPatch(a) PROVE EditInv'
<1>1. PICK f \in File, diff \in Diff :
        \/ Edit(a, f, Apply(Current(f), diff).text, diff)
        \/ att' = [att EXCEPT ![a] = [@ EXCEPT !.f = f, !.diff = diff,
                     !.old = Current(f), !.new = Absent]]
  BY DEF BeginPatch
<1>2. att[a].pc = "work" /\ att[a].pc \in Runs /\ UNCHANGED <<tree, snapshot, op>>
  BY DEF BeginPatch, Runs
<1>3. CASE Edit(a, f, Apply(Current(f), diff).text, diff)
  <2>1. PICK x : /\ att' = [att EXCEPT ![a] = x] /\ IsAttempt(x)
                 /\ x.pc = "save" /\ \A t : Knows(x, t)
    BY <1>2, <1>3, EditBegins
  <2> QED BY <1>2, <2>1, TreeStays DEF Seeds
<1>4. CASE att' = [att EXCEPT ![a] = [@ EXCEPT !.f = f, !.diff = diff,
                     !.old = Current(f), !.new = Absent]]
  <2>1. PICK z : z = att[a]
    OBVIOUS
  <2>2. IsAttempt(z) /\ z.pc = "work"
    BY <1>2, <2>1 DEF EditInv
  <2>3. PICK old : old = Current(f)
    OBVIOUS
  <2>4. PICK x : x = [z EXCEPT !.f = f, !.diff = diff, !.old = old, !.new = Absent]
    OBVIOUS
  <2>5. att' = [att EXCEPT ![a] = x]
    BY <1>4, <2>1, <2>3, <2>4 DEF EditInv
  <2>6. x = [pc |-> "work", todo |-> z.todo, f |-> f, old |-> old, new |-> Absent, diff |-> diff,
             backup |-> z.backup, edit |-> z.edit, disturbed |-> z.disturbed]
    BY <2>2, <2>4 DEF IsAttempt
  <2>7. IsAttempt(x) /\ x.pc = "work"
    BY <2>2, <2>6, Explicit DEF IsAttempt, Stages
  <2>8. Knows(x, tree)
    BY <2>7 DEF Knows
  <2> QED BY <1>2, <2>5, <2>7, <2>8, TreeStays DEF Seeds
<1> QED BY <1>1, <1>3, <1>4

\* What SaveOld leaves: the attempt and the tree.
LEMMA SaveOldLeaves ==
  ASSUME EditInv, NEW a \in Attempt, SaveOld(a)
  PROVE  \E x, u :
           /\ att' = [att EXCEPT ![a] = x] /\ tree' = u
           /\ IsAttempt(x) /\ x.pc = "write" /\ x.f = att[a].f /\ x.new = att[a].new
           /\ Consistent(u) /\ Grown(tree, u) /\ u.file = tree.file /\ u.edits = tree.edits
           /\ x.backup \in {0} \cup DOMAIN u.backups
           /\ SavedAs(u, x.backup, u.file[x.f])
           /\ \A i \in DOMAIN u.backups \ DOMAIN tree.backups :
                u.backups[i] = tree.file[x.f] /\ u.backups[i] # Absent
           /\ u.broken = tree.broken
<1>1. PICK t : t = tree
  OBVIOUS
<1>2. PICK z : z = att[a]
  OBVIOUS
<1>3. Consistent(t) /\ IsAttempt(z) /\ z.pc = "save" /\ z.f \in File
  BY <1>1, <1>2 DEF EditInv, SaveOld, Knows
<1>4. PICK now : now = t.file[z.f]
  OBVIOUS
<1>5. PICK saved : saved = IF now = Absent THEN t.backups ELSE Append(t.backups, now)
  OBVIOUS
<1>6. PICK backup : backup = IF now = Absent THEN 0 ELSE Len(saved)
  OBVIOUS
<1>7. /\ tree' = [t EXCEPT !.backups = saved]
      /\ att' = [att EXCEPT ![a] = [z EXCEPT !.pc = "write", !.backup = backup,
                                             !.disturbed = FALSE]]
  BY <1>1, <1>2, <1>4, <1>5, <1>6 DEF SaveOld, EditInv
<1>8. PICK x : x = [z EXCEPT !.pc = "write", !.backup = backup, !.disturbed = FALSE]
  OBVIOUS
<1>9. x = [pc |-> "write", todo |-> z.todo, f |-> z.f, old |-> z.old, new |-> z.new,
           diff |-> z.diff, backup |-> backup, edit |-> z.edit, disturbed |-> FALSE]
  BY <1>3, <1>8 DEF IsAttempt
<1>10. IsAttempt(x) /\ x.pc = "write" /\ x.f = z.f /\ x.new = z.new /\ x.backup = backup
  <2>1. PICK disturbed \in BOOLEAN : disturbed = FALSE
    OBVIOUS
  <2>2. x = [pc |-> "write", todo |-> z.todo, f |-> z.f, old |-> z.old, new |-> z.new,
             diff |-> z.diff, backup |-> backup, edit |-> z.edit, disturbed |-> disturbed]
    BY <1>9, <2>1
  <2>3. "write" \in Stages
    BY DEF Stages
  <2> QED BY <2>2, <2>3, Explicit
<1>11. CASE now = Absent
  <2>1. tree' = t
    BY <1>3, <1>5, <1>7, <1>11 DEF Consistent
  <2>2. backup = 0 /\ SavedAs(t, backup, t.file[z.f])
    BY <1>4, <1>6, <1>11 DEF SavedAs
  <2>3. Grown(t, t)
    BY DEF Grown
  <2> QED BY <1>1, <1>2, <1>3, <1>7, <1>8, <1>10, <2>1, <2>2, <2>3
<1>12. CASE now # Absent
  <2>1. PICK u : u = [root |-> t.root, repo |-> t.repo, file |-> t.file,
                      backups |-> Append(t.backups, now), records |-> t.records,
                      edits |-> t.edits, broken |-> t.broken]
    OBVIOUS
  <2>2. tree' = u
    <3>1. tree' = [t EXCEPT !.backups = saved]
      BY <1>7
    <3>2. tree' = [root |-> t.root, repo |-> t.repo, file |-> t.file, backups |-> saved,
                   records |-> t.records, edits |-> t.edits, broken |-> t.broken]
      BY <1>3, <3>1 DEF Consistent
    <3>3. saved = Append(t.backups, now)
      BY <1>5, <1>12
    <3> QED BY <2>1, <3>2, <3>3
  <2>3. /\ Consistent(u) /\ Grown(t, u)
        /\ u.file = t.file /\ u.edits = t.edits /\ u.broken = t.broken
        /\ DOMAIN u.backups = DOMAIN t.backups \cup {Len(t.backups) + 1}
        /\ Len(t.backups) + 1 \in Nat \ {0}
        /\ u.backups[Len(t.backups) + 1] = now
    BY <1>3, <2>1, BackupAdded
  <2>4. backup = Len(t.backups) + 1
    <3>1. PICK l : l = t.backups
      OBVIOUS
    <3>2. IsSequence(l)
      BY <1>3, <3>1 DEF Consistent
    <3>3. Len(Append(l, now)) = Len(l) + 1
      BY <3>2, Lengthened
    <3> QED BY <1>5, <1>6, <1>12, <3>1, <3>3
  <2>5. SavedAs(u, backup, u.file[z.f])
    BY <1>4, <1>12, <2>3, <2>4 DEF SavedAs
  <2>6. \A i \in DOMAIN u.backups \ DOMAIN t.backups :
          u.backups[i] = t.file[z.f] /\ u.backups[i] # Absent
    BY <1>4, <1>12, <2>3
  <2>7. att' = [att EXCEPT ![a] = x] /\ tree' = u /\ x.f = att[a].f /\ x.new = att[a].new
    BY <1>2, <1>7, <1>8, <1>10, <2>2
  <2>8. /\ Grown(tree, u) /\ u.file = tree.file /\ u.edits = tree.edits
        /\ u.broken = tree.broken
    BY <1>1, <2>3
  <2>9. x.backup \in {0} \cup DOMAIN u.backups /\ SavedAs(u, x.backup, u.file[x.f])
    BY <1>10, <2>3, <2>4, <2>5
  <2>10. \A i \in DOMAIN u.backups \ DOMAIN tree.backups :
           u.backups[i] = tree.file[x.f] /\ u.backups[i] # Absent
    BY <1>1, <1>10, <2>6
  <2> QED BY <1>10, <2>3, <2>7, <2>8, <2>9, <2>10
<1> QED BY <1>11, <1>12

LEMMA SaveOldEdits == ASSUME EditInv, NEW a \in Attempt, SaveOld(a) PROVE EditInv'
<1>1. PICK x, u :
        /\ att' = [att EXCEPT ![a] = x] /\ tree' = u
        /\ IsAttempt(x) /\ x.pc = "write" /\ x.f = att[a].f
        /\ Consistent(u) /\ Grown(tree, u) /\ u.file = tree.file
        /\ x.backup \in {0} \cup DOMAIN u.backups
        /\ SavedAs(u, x.backup, u.file[x.f])
  BY SaveOldLeaves
<1>2. att[a].pc \in Runs /\ UNCHANGED <<snapshot, op>> /\ att[a].f \in File
  BY DEF SaveOld, Runs, EditInv, Knows
<1>3. Knows(x, u)
  BY <1>1, <1>2 DEF Knows
<1> QED BY <1>1, <1>2, <1>3, AttemptGoesOn DEF Seeds

\* Another attempt after a file was written: the backup it holds of that file,
\* if it is that far, no longer counts.
LEMMA OtherAfterPut ==
  ASSUME NEW z, IsAttempt(z), NEW t, Knows(z, t), NEW u, Grown(t, u), NEW g,
         \A f \in File \ {g} : u.file[f] = t.file[f],
         NEW disturbed \in BOOLEAN, z.disturbed \/ (z.pc = "write" /\ z.f = g) => disturbed,
         NEW x, x = [z EXCEPT !.disturbed = disturbed]
  PROVE  /\ IsAttempt(x) /\ Knows(x, u)
         /\ x.pc = z.pc /\ x.f = z.f /\ x.new = z.new /\ x.backup = z.backup
         /\ x.todo = z.todo
<1>1. x = [pc |-> z.pc, todo |-> z.todo, f |-> z.f, old |-> z.old, new |-> z.new,
           diff |-> z.diff, backup |-> z.backup, edit |-> z.edit, disturbed |-> disturbed]
  BY DEF IsAttempt
<1>2. z.pc \in Stages
  BY DEF IsAttempt
<1>3. /\ IsAttempt(x)
      /\ x.pc = z.pc /\ x.f = z.f /\ x.new = z.new /\ x.backup = z.backup
      /\ x.todo = z.todo /\ x.edit = z.edit /\ x.disturbed = disturbed
  <2>1. /\ x.pc = z.pc /\ x.f = z.f /\ x.new = z.new /\ x.backup = z.backup
        /\ x.todo = z.todo /\ x.edit = z.edit /\ x.disturbed = disturbed
        /\ x.old = z.old /\ x.diff = z.diff
    BY <1>1
  <2> QED BY <1>1, <1>2, <2>1 DEF IsAttempt
<1>4. Knows(x, t)
  BY <1>3 DEF Knows
<1>5. x.pc = "write" /\ ~u.broken /\ ~x.disturbed => u.file[x.f] = t.file[x.f]
  BY <1>3 DEF Knows
<1>6. Knows(x, u)
  BY <1>4, <1>5, KnowsOn
<1> QED BY <1>3, <1>6

\* What Put leaves: the attempts and the tree.
LEMMA PutLeaves ==
  ASSUME EditInv, NEW a \in Attempt, att[a].pc = "write", NEW text, NEW next,
         Put(a, text, next)
  PROVE  \E y, u, e :
           /\ att' = y /\ y = [b \in Attempt |-> y[b]] /\ y[a] = next
           /\ tree' = u /\ Consistent(u) /\ Grown(tree, u)
           /\ u.file[att[a].f] = text
           /\ \A f \in File \ {att[a].f} : u.file[f] = tree.file[f]
           /\ u.backups = tree.backups /\ u.broken = tree.broken
           /\ DOMAIN u.edits = DOMAIN tree.edits \cup {Len(tree.edits) + 1}
           /\ u.edits[Len(tree.edits) + 1] = e
           /\ e.f = att[a].f /\ e.backup = att[a].backup
           /\ \A b \in Attempt \ {a} :
                /\ IsAttempt(y[b]) /\ Knows(y[b], u)
                /\ y[b].pc = att[b].pc /\ y[b].f = att[b].f /\ y[b].new = att[b].new
                /\ y[b].backup = att[b].backup /\ y[b].todo = att[b].todo
<1>1. PICK t : t = tree
  OBVIOUS
<1>2. PICK z : z = att[a]
  OBVIOUS
<1>3. Consistent(t) /\ IsAttempt(z) /\ Knows(z, t) /\ z.pc = "write"
  BY <1>1, <1>2 DEF EditInv
<1>4. PICK e : e = [f |-> z.f, before |-> t.file[z.f], backup |-> z.backup,
                    disturbed |-> z.disturbed]
  OBVIOUS
<1>5. e.f = z.f /\ e.before = t.file[z.f] /\ e.backup = z.backup /\ e.disturbed = z.disturbed
  BY <1>4
<1>6. /\ z.f \in File /\ e.backup \in {0} \cup DOMAIN t.backups
      /\ ~t.broken /\ ~e.disturbed => SavedAs(t, e.backup, e.before)
  BY <1>3, <1>5 DEF Knows
<1>7. PICK u : u = [root |-> t.root, repo |-> TRUE, file |-> [t.file EXCEPT ![z.f] = text],
                    backups |-> t.backups, records |-> t.records,
                    edits |-> Append(t.edits, e), broken |-> t.broken]
  OBVIOUS
<1>8. tree' = u
  <2>1. tree' = [t EXCEPT !.repo = TRUE, !.file[z.f] = text, !.edits = Append(@, e)]
    BY <1>1, <1>2, <1>4 DEF Put
  <2>2. PICK w, l : w = [t.file EXCEPT ![z.f] = text] /\ l = Append(t.edits, e)
    OBVIOUS
  <2>3. t = [root |-> t.root, repo |-> t.repo, file |-> t.file, backups |-> t.backups,
             records |-> t.records, edits |-> t.edits, broken |-> t.broken]
    BY <1>3 DEF Consistent
  <2>4. tree' = [t EXCEPT !.repo = TRUE, !.file = w, !.edits = l]
    BY <2>1, <2>2, <2>3
  <2>5. tree' = [root |-> t.root, repo |-> TRUE, file |-> w, backups |-> t.backups,
                 records |-> t.records, edits |-> l, broken |-> t.broken]
    BY <2>3, <2>4
  <2> QED BY <1>7, <2>2, <2>5
<1>9. /\ Consistent(u) /\ Grown(t, u) /\ u.edits[Len(t.edits) + 1] = e
      /\ DOMAIN u.edits = DOMAIN t.edits \cup {Len(t.edits) + 1}
  <2>1. PICK file : file = [t.file EXCEPT ![z.f] = text]
    OBVIOUS
  <2>2. file = [g \in File |-> file[g]]
    BY <1>3, <2>1 DEF Consistent
  <2>3. e.f \in File
    BY <1>5, <1>6
  <2> QED BY <1>3, <1>6, <1>7, <2>1, <2>2, <2>3, EditAdded
<1>10. /\ u.file[z.f] = text /\ \A f \in File \ {z.f} : u.file[f] = t.file[f]
       /\ u.backups = t.backups /\ u.broken = t.broken
  BY <1>3, <1>6, <1>7 DEF Consistent
<1>11. PICK y : /\ y = [b \in Attempt |->
                         IF b = a THEN next
                         ELSE [att[b] EXCEPT !.disturbed =
                                 @ \/ (att[b].pc = "write" /\ att[b].f = z.f)]]
                /\ att' = y
  BY <1>2 DEF Put
<1>12. y = [b \in Attempt |-> y[b]] /\ y[a] = next
  BY <1>11
<1>13. ASSUME NEW b \in Attempt \ {a}
       PROVE  /\ IsAttempt(y[b]) /\ Knows(y[b], u)
              /\ y[b].pc = att[b].pc /\ y[b].f = att[b].f /\ y[b].new = att[b].new
              /\ y[b].backup = att[b].backup /\ y[b].todo = att[b].todo
  <2>1. PICK w : w = att[b]
    OBVIOUS
  <2>2. IsAttempt(w) /\ Knows(w, t)
    BY <1>1, <2>1 DEF EditInv
  <2>3. PICK x : x = y[b]
    OBVIOUS
  <2>4. PICK disturbed \in BOOLEAN :
          /\ x = [w EXCEPT !.disturbed = disturbed]
          /\ w.disturbed \/ (w.pc = "write" /\ w.f = z.f) => disturbed
    <3>1. x = [w EXCEPT !.disturbed = w.disturbed \/ (w.pc = "write" /\ w.f = z.f)]
      BY <1>11, <2>1, <2>2, <2>3 DEF IsAttempt
    <3> QED BY <3>1
  <2>5. /\ IsAttempt(x) /\ Knows(x, u)
        /\ x.pc = w.pc /\ x.f = w.f /\ x.new = w.new /\ x.backup = w.backup
        /\ x.todo = w.todo
    <3>1. PICK g : g = z.f
      OBVIOUS
    <3>2. \A f \in File \ {g} : u.file[f] = t.file[f]
      BY <1>10, <3>1
    <3>3. w.disturbed \/ (w.pc = "write" /\ w.f = g) => disturbed
      BY <2>4, <3>1
    <3>4. x = [w EXCEPT !.disturbed = disturbed] /\ Grown(t, u)
      BY <1>9, <2>4
    <3> QED BY ONLY <2>2, <3>2, <3>3, <3>4, disturbed \in BOOLEAN, OtherAfterPut
  <2> QED BY <2>1, <2>3, <2>5
<1>14. /\ att' = y /\ y = [b \in Attempt |-> y[b]] /\ y[a] = next
       /\ tree' = u /\ Consistent(u) /\ Grown(tree, u)
       /\ u.file[att[a].f] = text
       /\ \A f \in File \ {att[a].f} : u.file[f] = tree.file[f]
       /\ u.backups = tree.backups /\ u.broken = tree.broken
       /\ DOMAIN u.edits = DOMAIN tree.edits \cup {Len(tree.edits) + 1}
       /\ u.edits[Len(tree.edits) + 1] = e
       /\ e.f = att[a].f /\ e.backup = att[a].backup
  BY <1>1, <1>2, <1>5, <1>8, <1>9, <1>10, <1>11, <1>12
<1> QED BY <1>13, <1>14

\* Writing the file keeps the invariant, whether the write is complete or not.
LEMMA PutEdits ==
  ASSUME EditInv, NEW a \in Attempt, att[a].pc = "write", NEW text, NEW next,
         Put(a, text, next), UNCHANGED <<snapshot, op>>, IsAttempt(next),
         \/ next.pc = "dead"
         \/ /\ next.pc = "record" /\ next.f = att[a].f /\ next.backup = att[a].backup
            /\ next.edit = Len(tree.edits) + 1
  PROVE  EditInv'
<1>1. PICK y, u, e :
        /\ att' = y /\ y = [b \in Attempt |-> y[b]] /\ y[a] = next
        /\ tree' = u /\ Consistent(u) /\ Grown(tree, u)
        /\ u.file[att[a].f] = text
        /\ \A f \in File \ {att[a].f} : u.file[f] = tree.file[f]
        /\ u.backups = tree.backups /\ u.broken = tree.broken
        /\ DOMAIN u.edits = DOMAIN tree.edits \cup {Len(tree.edits) + 1}
        /\ u.edits[Len(tree.edits) + 1] = e
        /\ e.f = att[a].f /\ e.backup = att[a].backup
        /\ \A b \in Attempt \ {a} :
             /\ IsAttempt(y[b]) /\ Knows(y[b], u)
             /\ y[b].pc = att[b].pc /\ y[b].f = att[b].f /\ y[b].new = att[b].new
             /\ y[b].backup = att[b].backup /\ y[b].todo = att[b].todo
  BY PutLeaves
<1>2. att[a].f \in File
  BY DEF EditInv, Knows
<1>3. Knows(next, u)
  BY <1>1, <1>2 DEF Knows
<1>4. next.pc \notin Seeds /\ att[a].pc \in Runs
  BY DEF Seeds, Runs
<1>5. /\ op = "none"
      /\ ~u.broken =>
           \A b \in Attempt \ {a} : /\ next.pc \in Seeds => att[b].pc \notin Runs
                                    /\ next.pc \in Runs => att[b].pc \notin Seeds
  BY <1>1, <1>4, Company
<1>6. tree.broken => u.broken
  BY <1>1
<1> QED BY <1>1, <1>3, <1>5, <1>6, AttemptSteps

LEMMA WriteEdits == ASSUME EditInv, NEW a \in Attempt, Write(a) PROVE EditInv'
<1>1. att[a].pc = "write" /\ att[a].pc \in Runs /\ UNCHANGED <<snapshot, op>>
  BY DEF Write, Runs
<1>2. CASE tree.repo \/ att[a].diff # Absent
  <2>1. PICK f, backup, edit : f = att[a].f /\ backup = att[a].backup /\ edit = Len(tree.edits) + 1
    OBVIOUS
  <2>2. PICK next : next = [New EXCEPT !.pc = "record", !.f = f, !.backup = backup, !.edit = edit]
    OBVIOUS
  <2>3. Put(a, att[a].new, next)
    BY <1>2, <2>1, <2>2 DEF Write
  <2>4. PICK disturbed \in BOOLEAN : disturbed = FALSE
    OBVIOUS
  <2>5. next = [pc |-> "record", todo |-> {}, f |-> f, old |-> Absent, new |-> Absent,
                diff |-> Absent, backup |-> backup, edit |-> edit, disturbed |-> disturbed]
    BY <2>2, <2>4 DEF New
  <2>6. "record" \in Stages
    BY DEF Stages
  <2>7. /\ IsAttempt(next) /\ next.pc = "record" /\ next.f = f /\ next.backup = backup
        /\ next.edit = edit
    BY <2>5, <2>6, Explicit
  <2> QED BY <1>1, <2>1, <2>3, <2>7, PutEdits
<1>3. CASE ~(tree.repo \/ att[a].diff # Absent)
  BY <1>1, <1>3, EndsAlone DEF Write, Seeds
<1> QED BY <1>2, <1>3

LEMMA CrashWritingEdits == ASSUME EditInv, NEW a \in Attempt, CrashWriting(a) PROVE EditInv'
<1>1. PICK next : next = [New EXCEPT !.pc = "dead"]
  OBVIOUS
<1>2. IsAttempt(next) /\ next.pc = "dead"
  BY <1>1, Fresh DEF Stages
<1>3. att[a].pc = "write" /\ Put(a, <<>>, next) /\ UNCHANGED <<snapshot, op>>
  BY <1>1 DEF CrashWriting
<1> QED BY <1>2, <1>3, PutEdits

LEMMA StoreRecordEdits == ASSUME EditInv, NEW a \in Attempt, StoreRecord(a) PROVE EditInv'
<1>1. PICK t : t = tree
  OBVIOUS
<1>2. PICK z : z = att[a]
  OBVIOUS
<1>3. Consistent(t) /\ Knows(z, t) /\ z.pc = "record"
  BY <1>1, <1>2 DEF EditInv, StoreRecord
<1>4. PICK r : r = [edit |-> z.edit, f |-> z.f, backup |-> z.backup]
  OBVIOUS
<1>5. /\ r.edit \in DOMAIN t.edits /\ r.f = t.edits[r.edit].f
      /\ r.backup = t.edits[r.edit].backup
  BY <1>3, <1>4 DEF Knows
<1>6. PICK u : u = [root |-> t.root, repo |-> t.repo, file |-> t.file, backups |-> t.backups,
                    records |-> Append(t.records, r), edits |-> t.edits, broken |-> t.broken]
  OBVIOUS
<1>7. tree' = u
  <2>1. tree' = [t EXCEPT !.records = Append(@, r)]
    BY <1>1, <1>2, <1>4 DEF StoreRecord
  <2>2. PICK l : l = Append(t.records, r)
    OBVIOUS
  <2>3. tree' = [root |-> t.root, repo |-> t.repo, file |-> t.file, backups |-> t.backups,
                 records |-> l, edits |-> t.edits, broken |-> t.broken]
    BY <1>3, <2>1, <2>2 DEF Consistent
  <2> QED BY <1>6, <2>2, <2>3
<1>8. Consistent(u) /\ Grown(t, u) /\ u.file = t.file
  BY <1>3, <1>5, <1>6, RecordAdded
<1>9. PICK x : x = [New EXCEPT !.pc = "work"]
  OBVIOUS
<1>10. IsAttempt(x) /\ x.pc = "work" /\ Knows(x, u) /\ att' = [att EXCEPT ![a] = x]
  BY <1>9, Fresh DEF Stages, StoreRecord, To
<1>11. att[a].pc \in Runs /\ x.pc \notin Seeds /\ UNCHANGED <<snapshot, op>>
  BY <1>10 DEF StoreRecord, Runs, Seeds
<1> QED BY <1>1, <1>7, <1>8, <1>10, <1>11, AttemptGoesOn

LEMMA CrashEdits == ASSUME EditInv, NEW a \in Attempt, Crash(a) PROVE EditInv'
<1>1. PICK t : t = tree
  OBVIOUS
<1>2. Consistent(t)
  BY <1>1 DEF EditInv
<1>3. PICK x : x = [New EXCEPT !.pc = "dead"]
  OBVIOUS
<1>4. IsAttempt(x) /\ x.pc = "dead" /\ (\A u : Knows(x, u)) /\ att' = [att EXCEPT ![a] = x]
  BY <1>3, Fresh DEF Stages, Crash, To
<1>5. PICK broken \in BOOLEAN :
        /\ t.broken => broken
        /\ tree' = [t EXCEPT !.broken = broken]
  <2>1. tree' = [t EXCEPT !.broken = t.broken \/ att[a].todo # {}]
    BY <1>1, <1>2 DEF Crash, Consistent
  <2> QED BY <2>1
<1>6. tree' = [root |-> t.root, repo |-> t.repo, file |-> t.file, backups |-> t.backups,
               records |-> t.records, edits |-> t.edits, broken |-> broken]
  BY <1>2, <1>5 DEF Consistent
<1>7. att[a].pc \in Runs /\ x.pc \notin Seeds /\ UNCHANGED <<snapshot, op>>
  BY <1>4 DEF Crash, Running, Seeding, Editing, Runs, Seeds
<1> QED BY <1>1, <1>4, <1>5, <1>6, <1>7, FilesStay

LEMMA AttemptEdits == ASSUME EditInv, NEW a \in Attempt, AttemptStep(a) PROVE EditInv'
BY OpenEdits, ClearRepoEdits, MakeRepoEdits, CopyFileEdits, EndCopyEdits, BeginWriteEdits,
   BeginPatchEdits, SaveOldEdits, WriteEdits, StoreRecordEdits, StopEdits, CrashEdits,
   CrashWritingEdits
DEF AttemptStep

-----------------------------------------------------------------------------
(* The manager's commands keep EditInv.                                    *)

\* A command finds no attempt running.
LEMMA CommandIsQuiet == ASSUME Command PROVE Quiet /\ op = "none" /\ UNCHANGED att
BY DEF Command, Quiet, Running, Seeding, Editing, Runs, Seeds

\* Laying the directories out changes no file, edit or backup.
LEMMA MadeConsistent == ASSUME Consistent(tree) PROVE Consistent(Made) /\ Made.edits = tree.edits
                               /\ Made.backups = tree.backups /\ Made.file = tree.file
                               /\ Made.broken = tree.broken
<1>1. PICK t : t = tree
  OBVIOUS
<1>2. PICK u : u = [root |-> TRUE, repo |-> TRUE, file |-> t.file, backups |-> t.backups,
                    records |-> t.records, edits |-> t.edits, broken |-> t.broken]
  OBVIOUS
<1>3. u = Made /\ Consistent(t)
  <2>1. Consistent(t) /\ Made = [t EXCEPT !.root = TRUE, !.repo = TRUE]
    BY <1>1 DEF Made
  <2>2. Made = [root |-> TRUE, repo |-> TRUE, file |-> t.file, backups |-> t.backups,
                records |-> t.records, edits |-> t.edits, broken |-> t.broken]
    BY <2>1 DEF Consistent
  <2> QED BY <1>2, <2>1, <2>2
<1>4. u.file = t.file /\ u.broken = t.broken /\ u.edits = t.edits /\ u.backups = t.backups
  BY <1>2
<1>5. u.file = [f \in File |-> u.file[f]] /\ u.broken \in BOOLEAN
  BY <1>3, <1>4 DEF Consistent
<1>6. Consistent(u)
  BY <1>2, <1>3, <1>4, <1>5, FilesChange
<1> QED BY <1>1, <1>3, <1>4, <1>6

\* A command that is given.
LEMMA CommandEdits == ASSUME EditInv, Look \/ Snapshot \/ Restore \/ Cleanup PROVE EditInv'
<1>1. Quiet /\ op = "none" /\ UNCHANGED att
  BY CommandIsQuiet DEF Look, Snapshot, Restore, Cleanup, Wipe
<1>2. PICK u, s, o : tree' = u /\ snapshot' = s /\ op' = o
  OBVIOUS
<1>3. PICK t, old : t = tree /\ old = snapshot
  OBVIOUS
<1>4. Consistent(t) /\ (old # Absent => Consistent(old))
  BY <1>3 DEF EditInv
<1>5. u \in {t, Made, NoTree}
  BY <1>2, <1>3 DEF Look, Snapshot, Restore, Cleanup, Wipe
<1>6. Consistent(u)
  BY <1>3, <1>4, <1>5, MadeConsistent, NoTreeConsistent
<1>7. s \in {old, u} /\ o \in {"none", "restore", "cleanup"} /\ (o = "restore" => s # Absent)
  BY <1>1, <1>2, <1>3 DEF Look, Snapshot, Restore, Cleanup, Wipe
<1>8. s # Absent => Consistent(s)
  BY <1>4, <1>6, <1>7
<1> QED BY <1>1, <1>2, <1>6, <1>7, <1>8, CommandSteps

\* A command that ends.
LEMMA EndEdits == ASSUME EditInv, EndRestore \/ EndCleanup PROVE EditInv'
<1>1. Quiet /\ UNCHANGED att
  BY DEF EditInv, EndRestore, EndCleanup
<1>2. PICK t, s : t = tree /\ s = snapshot
  OBVIOUS
<1>3. PICK u \in {t, s} : tree' = u /\ (u = s => EndRestore \/ s = t)
  BY <1>2 DEF EndRestore, EndCleanup
<1>4. Consistent(t) /\ (s # Absent => Consistent(s)) /\ (EndRestore => s # Absent)
  BY <1>2 DEF EditInv, EndRestore
<1>5. Consistent(u) /\ snapshot' = s /\ op' = "none"
  BY <1>2, <1>3, <1>4 DEF EndRestore, EndCleanup
<1> QED BY <1>1, <1>3, <1>4, <1>5, CommandSteps

\* What is left of the snapshot t when its restore dies.
LEMMA PartConsistent ==
  ASSUME NEW t, Consistent(t), NEW copied, NEW u,
         u = [t EXCEPT !.broken = TRUE,
                !.file = [f \in File |-> IF f \in copied THEN t.file[f] ELSE Absent]]
  PROVE  Consistent(u) /\ Grown(t, u) /\ u.broken
<1>1. PICK file, broken :
        broken \in BOOLEAN /\ file = [f \in File |-> IF f \in copied THEN t.file[f] ELSE Absent] /\ broken = TRUE
  OBVIOUS
<1>2. u = [t EXCEPT !.broken = broken, !.file = file]
  BY <1>1
<1>3. u = [root |-> t.root, repo |-> t.repo, file |-> file, backups |-> t.backups,
           records |-> t.records, edits |-> t.edits, broken |-> broken]
  BY <1>2 DEF Consistent
<1>4. /\ u.root = t.root /\ u.repo = t.repo /\ u.file = file /\ u.broken = broken
      /\ file = [f \in File |-> file[f]]
  BY <1>1, <1>3
<1>5. u = [root |-> u.root, repo |-> u.repo, file |-> u.file, backups |-> t.backups,
           records |-> t.records, edits |-> t.edits, broken |-> u.broken]
  BY <1>3, <1>4
<1> QED BY <1>1, <1>4, <1>5, FilesChange

LEMMA CommandDiesEdits == ASSUME EditInv, CommandDies PROVE EditInv'
<1>1. Quiet /\ UNCHANGED <<att, snapshot>> /\ op' = "none"
  BY DEF EditInv, CommandDies
<1>2. PICK t, s : t = tree /\ s = snapshot
  OBVIOUS
<1>3. Consistent(t) /\ (s # Absent => Consistent(s))
  BY <1>2 DEF EditInv
<1>4. PICK u : tree' = u
  OBVIOUS
<1>5. Consistent(u)
  <2>1. CASE UNCHANGED tree
    BY <1>2, <1>3, <1>4, <2>1
  <2>2. CASE op = "restore" /\ tree' # tree
    <3>1. PICK copied \in SUBSET File :
            u = [s EXCEPT !.broken = TRUE,
                   !.file = [f \in File |-> IF f \in copied THEN s.file[f] ELSE Absent]]
      BY <1>2, <1>4, <2>2 DEF CommandDies
    <3>2. Consistent(s)
      BY <1>2, <1>3, <2>2 DEF EditInv
    <3> QED BY <3>1, <3>2, PartConsistent
  <2> QED BY <2>1, <2>2 DEF CommandDies
<1>6. snapshot' = s
  BY <1>1, <1>2
<1> QED BY <1>1, <1>3, <1>4, <1>5, <1>6, CommandSteps

LEMMA RollbackEdits == ASSUME EditInv, NEW i \in DOMAIN tree.records, Rollback(i) PROVE EditInv'
<1>1. PICK t, s : t = tree /\ s = snapshot
  OBVIOUS
<1>2. Consistent(t) /\ (s # Absent => Consistent(s))
  BY <1>1 DEF EditInv
<1>3. Quiet /\ op' = "none" /\ UNCHANGED <<att, snapshot>>
  BY CommandIsQuiet DEF Rollback
<1>4. PICK r, text : tree' = [t EXCEPT !.file[r.f] = text]
  BY <1>1 DEF Rollback
<1>5. PICK file : file = [t.file EXCEPT ![r.f] = text]
  OBVIOUS
<1>6. file = [f \in File |-> file[f]] /\ t.broken \in BOOLEAN
  BY <1>2, <1>5 DEF Consistent
<1>7. PICK u : u = [root |-> t.root, repo |-> t.repo, file |-> file, backups |-> t.backups,
                    records |-> t.records, edits |-> t.edits, broken |-> t.broken]
  OBVIOUS
<1>8. tree' = u
  BY <1>2, <1>4, <1>5, <1>7 DEF Consistent
<1>9. u.root = t.root /\ u.repo = t.repo /\ u.file = file /\ u.broken = t.broken
  BY <1>7
<1>10. Consistent(u)
  BY <1>2, <1>6, <1>7, <1>9, FilesChange
<1>11. snapshot' = s
  BY <1>1, <1>3
<1> QED BY <1>2, <1>3, <1>8, <1>10, <1>11, CommandSteps

LEMMA StutterEdits == ASSUME EditInv, UNCHANGED workspaceVars PROVE EditInv'
<1>1. PICK y, u, s, o : y = att /\ u = tree /\ s = snapshot /\ o = op
  OBVIOUS
<1>2. /\ att' = y /\ tree' = u /\ snapshot' = s /\ op' = o
      /\ y = [a \in Attempt |-> y[a]] /\ Consistent(u) /\ (s # Absent => Consistent(s))
      /\ \A a \in Attempt : IsAttempt(y[a]) /\ Knows(y[a], u)
      /\ o \in {"none", "restore", "cleanup"} /\ (o = "restore" => s # Absent)
      /\ o # "none" => \A a \in Attempt : y[a].pc \notin Runs
      /\ ~u.broken => \A a, b \in Attempt : y[a].pc \in Seeds /\ y[b].pc \in Runs => a = b
  BY <1>1 DEF workspaceVars, EditInv, Quiet, Alone
<1> QED BY <1>2, EditInvOf

\* Backups, records and edits agree, and an attempt that holds a backup holds
\* the one of what its file is: the invariant is inductive.
THEOREM EditsInductive == WorkspaceSpec => []EditInv
<1>1. EditInv /\ [WorkspaceNext]_workspaceVars => EditInv'
  <2> SUFFICES ASSUME EditInv, [WorkspaceNext]_workspaceVars PROVE EditInv'
    OBVIOUS
  <2>1. CASE \E a \in Attempt : AttemptStep(a)
    BY <2>1, AttemptEdits
  <2>2. CASE Look \/ Snapshot \/ Restore \/ Cleanup
    BY <2>2, CommandEdits
  <2>3. CASE EndRestore \/ EndCleanup
    BY <2>3, EndEdits
  <2>4. CASE CommandDies
    BY <2>4, CommandDiesEdits
  <2>5. CASE \E i \in DOMAIN tree.records : Rollback(i)
    BY <2>5, RollbackEdits
  <2>6. CASE UNCHANGED workspaceVars
    BY <2>6, StutterEdits
  <2> QED BY <2>1, <2>2, <2>3, <2>4, <2>5, <2>6 DEF WorkspaceNext
<1> QED BY InitEdits, <1>1, PTL DEF WorkspaceSpec

\* In a tree that was copied whole, whatever an undisturbed edit wrote over is in
\* its backup, also after crashes, snapshots and restores.
THEOREM EditsReversible == WorkspaceSpec => []EditsAreReversible
<1>1. EditInv => EditsAreReversible
  <2> SUFFICES ASSUME EditInv, ~tree.broken, NEW n \in DOMAIN tree.edits, NEW e,
                      e = tree.edits[n], ~e.disturbed
               PROVE  IF e.before = Absent THEN e.backup = 0
                      ELSE /\ e.backup \in DOMAIN tree.backups
                           /\ tree.backups[e.backup] = e.before
    BY DEF EditsAreReversible
  <2>1. SavedAs(tree, e.backup, e.before)
    BY DEF EditInv, Consistent
  <2> QED BY <2>1 DEF SavedAs
<1> QED BY <1>1, EditsInductive, PTL

\* Rolling an undisturbed edit back gives its file the text that the edit found.
THEOREM RollbackUndoesEdits == WorkspaceSpec => RollbackUndoes
<1>1. EditInv /\ [WorkspaceNext]_workspaceVars =>
        [\A i \in DOMAIN tree.records : Rollback(i) =>
           LET e == tree.edits[tree.records[i].edit] IN
           ~tree.broken /\ ~e.disturbed => tree'.file[e.f] = e.before]_workspaceVars
  <2> SUFFICES ASSUME EditInv, NEW i \in DOMAIN tree.records, Rollback(i), ~tree.broken,
                      NEW e, e = tree.edits[tree.records[i].edit], ~e.disturbed
               PROVE  tree'.file[e.f] = e.before
    OBVIOUS
  <2>1. PICK t : t = tree
    OBVIOUS
  <2>2. PICK r : r = t.records[i]
    OBVIOUS
  <2>3. Consistent(t) /\ e = t.edits[r.edit]
    BY <2>1, <2>2 DEF EditInv
  <2>4. /\ r.edit \in DOMAIN t.edits /\ r.f = e.f /\ r.backup = e.backup
        /\ e.f \in File /\ e.backup \in {0} \cup DOMAIN t.backups
        /\ SavedAs(t, e.backup, e.before)
    BY <2>1, <2>2, <2>3 DEF Consistent
  <2>5. PICK text : text = IF r.backup = 0 THEN Absent ELSE t.backups[r.backup]
    OBVIOUS
  <2>6. text = e.before
    <3>1. 0 \notin DOMAIN t.backups
      BY <2>3 DEF Consistent, IsSequence
    <3> QED BY <2>4, <2>5, <3>1 DEF SavedAs
  <2>7. tree' = [t EXCEPT !.file[r.f] = text]
    BY <2>1, <2>2, <2>5 DEF Rollback
  <2>8. t.file = [f \in File |-> t.file[f]]
    BY <2>3 DEF Consistent
  <2>9. tree'.file = [t.file EXCEPT ![r.f] = text]
    BY <2>3, <2>7 DEF Consistent
  <2> QED BY <2>4, <2>6, <2>8, <2>9
<1> QED BY <1>1, EditsInductive, PTL DEF WorkspaceSpec, RollbackUndoes

-----------------------------------------------------------------------------
(* WholeInv.                                                               *)

\* The invariant, named by its values.
LEMMA WholeInvOf ==
  ASSUME NEW S, NEW y, att' = y, NEW u, tree' = u, NEW s, snapshot' = s,
         Holds(u, S), Seeded(u), (\A a \in Attempt : y[a].pc \notin Seeds) => Founded(u),
         s # Absent => Holds(s, S) /\ Seeded(s) /\ Founded(s),
         \A a \in Attempt : Fits(y[a], u, S)
  PROVE  WholeInv(S)'
BY DEF WholeInv, Holds, Seeded, Founded, Fits, Whole

\* What fitted goes on to fit when the files stay, or stay complete.
LEMMA FitsOn ==
  ASSUME NEW S, NEW z, NEW x, NEW t, NEW u, Fits(z, t, S), t.broken => u.broken,
         x.pc = z.pc, x.f = z.f, x.new = z.new, x.backup = z.backup, x.todo = z.todo,
         ~u.broken => \/ u.file = t.file
                      \/ z.pc \notin Seeds /\ (Whole(t) => Whole(u))
  PROVE  Fits(x, u, S)
<1>1. CASE u.broken
  BY <1>1 DEF Fits
<1>2. CASE ~u.broken /\ u.file = t.file
  BY <1>2 DEF Fits, Whole
<1>3. CASE ~u.broken /\ z.pc \notin Seeds /\ (Whole(t) => Whole(u))
  BY <1>3 DEF Fits, Seeds
<1> QED BY <1>1, <1>2, <1>3

\* An attempt steps; the others may notice.
LEMMA AttemptFits ==
  ASSUME NEW S, WholeInv(S), UNCHANGED snapshot, NEW a \in Attempt,
         NEW y, att' = y, NEW u, tree' = u,
         \A b \in Attempt \ {a} :
           /\ y[b].pc = att[b].pc /\ y[b].f = att[b].f /\ y[b].new = att[b].new
           /\ y[b].backup = att[b].backup /\ y[b].todo = att[b].todo,
         Holds(u, S), Seeded(u), Fits(y[a], u, S), tree.broken => u.broken,
         ~u.broken => \/ u.file = tree.file
                      \/ /\ \A b \in Attempt \ {a} : att[b].pc \notin Seeds
                         /\ Whole(tree) => Whole(u),
         y[a].pc \notin Seeds /\ (\A b \in Attempt \ {a} : att[b].pc \notin Seeds) => Founded(u)
  PROVE  WholeInv(S)'
<1>1. PICK t, s : t = tree /\ s = snapshot
  OBVIOUS
<1>2. ASSUME NEW b \in Attempt \ {a} PROVE Fits(y[b], u, S)
  <2>1. PICK z, x : z = att[b] /\ x = y[b]
    OBVIOUS
  <2>2. Fits(z, t, S)
    BY <1>1, <2>1 DEF WholeInv
  <2>3. /\ x.pc = z.pc /\ x.f = z.f /\ x.new = z.new /\ x.backup = z.backup
        /\ x.todo = z.todo
    BY <2>1
  <2>4. ~u.broken => \/ u.file = t.file
                     \/ z.pc \notin Seeds /\ (Whole(t) => Whole(u))
    BY <1>1, <2>1
  <2>5. t.broken => u.broken
    BY <1>1
  <2>6. Fits(x, u, S)
    BY <2>2, <2>3, <2>4, <2>5, FitsOn
  <2> QED BY <2>1, <2>6
<1>3. \A b \in Attempt : Fits(y[b], u, S)
  BY <1>2
<1>4. (\A b \in Attempt : y[b].pc \notin Seeds) => Founded(u)
  OBVIOUS
<1>5. snapshot' = s /\ (s # Absent => Holds(s, S) /\ Seeded(s) /\ Founded(s))
  BY <1>1 DEF WholeInv
<1> QED BY <1>3, <1>4, <1>5, WholeInvOf

\* The same when the other attempts are as they were.
LEMMA OneFits ==
  ASSUME NEW S, EditInv, WholeInv(S), UNCHANGED snapshot, NEW a \in Attempt,
         NEW x, att' = [att EXCEPT ![a] = x], NEW u, tree' = u,
         Holds(u, S), Seeded(u), Fits(x, u, S), tree.broken => u.broken,
         ~u.broken => \/ u.file = tree.file
                      \/ /\ \A b \in Attempt \ {a} : att[b].pc \notin Seeds
                         /\ Whole(tree) => Whole(u),
         x.pc \notin Seeds /\ (\A b \in Attempt \ {a} : att[b].pc \notin Seeds) => Founded(u)
  PROVE  WholeInv(S)'
<1>1. PICK y : y = [att EXCEPT ![a] = x]
  OBVIOUS
<1>2. att' = y /\ y[a] = x /\ \A b \in Attempt \ {a} : y[b] = att[b]
  BY <1>1 DEF EditInv
<1> QED BY <1>2, AttemptFits

\* A tree with the same files, edits and backups.
LEMMA SameHolds ==
  ASSUME NEW S, NEW t, NEW u, Holds(t, S), Seeded(t), u.file = t.file,
         u.backups = t.backups, u.edits = t.edits, t.broken => u.broken
  PROVE  /\ Holds(u, S) /\ Seeded(u) /\ (Founded(t) => Founded(u))
         /\ (Whole(t) => Whole(u))
BY DEF Holds, Seeded, Founded, Whole

\* A step that leaves the files, the edits and the backups alone.
LEMMA SameFits ==
  ASSUME NEW S, EditInv, WholeInv(S), UNCHANGED snapshot, NEW a \in Attempt,
         NEW x, att' = [att EXCEPT ![a] = x], NEW u, tree' = u,
         u.file = tree.file, u.backups = tree.backups, u.edits = tree.edits,
         tree.broken => u.broken, Fits(x, u, S),
         ~u.broken /\ x.pc \notin Seeds /\ (\A b \in Attempt \ {a} : att[b].pc \notin Seeds)
           => Founded(tree)
  PROVE  WholeInv(S)'
<1>1. PICK t : t = tree
  OBVIOUS
<1>2. Holds(t, S) /\ Seeded(t)
  BY <1>1 DEF WholeInv
<1>3. Holds(u, S) /\ Seeded(u) /\ (Founded(t) => Founded(u))
  BY <1>1, <1>2, SameHolds
<1>4. u.broken => Founded(u)
  BY DEF Founded
<1> QED BY <1>1, <1>3, <1>4, OneFits

\* What an attempt that is running has made of the files, once it does not seed.
LEMMA RunningFounded ==
  ASSUME NEW S, WholeInv(S), NEW a \in Attempt,
         \/ att[a].pc \in {"clear", "mkdir", "work", "save", "write", "record"}
         \/ att[a].pc = "copy" /\ att[a].todo = {}
  PROVE  /\ Founded(tree)
         /\ ~tree.broken /\ att[a].pc \notin {"clear", "mkdir"} => Whole(tree)
<1>1. Fits(att[a], tree, S)
  BY DEF WholeInv
<1>2. CASE att[a].pc \in {"clear", "mkdir"}
  BY <1>1, <1>2 DEF Fits, Founded
<1>3. CASE att[a].pc \in {"work", "save", "write", "record"}
  BY <1>1, <1>3 DEF Fits, Founded
<1>4. CASE att[a].pc = "copy" /\ att[a].todo = {}
  BY <1>1, <1>4 DEF Fits, Founded, Whole
<1> QED BY <1>2, <1>3, <1>4

\* An attempt that has not begun, or is dead, counts on nothing.
LEMMA EndedFits ==
  ASSUME NEW S, NEW t, NEW p \in {"new", "dead"}, NEW x, x.pc = p
  PROVE  Fits(x, t, S)
BY DEF Fits

-----------------------------------------------------------------------------
(* The actions keep WholeInv.                                              *)

LEMMA InitFits == ASSUME NEW S, WorkspaceInit PROVE WholeInv(S)
<1>1. Holds(tree, S) /\ Seeded(tree) /\ Founded(tree)
  BY NoTreeConsistent DEF WorkspaceInit, Holds, Seeded, Founded
<1>2. ASSUME NEW a \in Attempt PROVE Fits(att[a], tree, S)
  BY EndedFits DEF WorkspaceInit, New
<1> QED BY <1>1, <1>2 DEF WorkspaceInit, WholeInv

LEMMA OpenFits ==
  ASSUME NEW S, EditInv, WholeInv(S), NEW a \in Attempt, Open(a)
  PROVE  WholeInv(S)'
<1>1. PICK t, u : t = tree /\ u = tree'
  OBVIOUS
<1>2. Consistent(t)
  BY <1>1 DEF EditInv
<1>3. PICK p \in {"clear", "work"} :
        /\ p = "clear" <=> Unseeded
        /\ att' = [att EXCEPT ![a] = [New EXCEPT !.pc = p]]
  BY DEF Open, To
<1>4. PICK x : x = [New EXCEPT !.pc = p]
  OBVIOUS
<1>5. x.pc = p /\ att' = [att EXCEPT ![a] = x]
  BY <1>3, <1>4 DEF New
<1>6. u = [[t EXCEPT !.root = TRUE, !.repo = TRUE] EXCEPT
             !.broken = t.broken \/ Seeding # {} \/ (Unseeded /\ Running # {})]
  BY <1>1, <1>2 DEF Open, Made, Consistent
<1>7. u = [root |-> TRUE, repo |-> TRUE, file |-> t.file, backups |-> t.backups,
           records |-> t.records, edits |-> t.edits,
           broken |-> t.broken \/ Seeding # {} \/ (Unseeded /\ Running # {})]
  BY <1>2, <1>6 DEF Consistent
<1>8. /\ u.file = t.file /\ u.backups = t.backups /\ u.edits = t.edits
      /\ (t.broken => u.broken) /\ (~u.broken => ~t.broken /\ Seeding = {})
  BY <1>7
<1>9. ~u.broken => Founded(t)
  BY <1>1, <1>8 DEF WholeInv, Seeding, Seeds
<1>10. Fits(x, u, S)
  <2>1. CASE u.broken
    BY <1>3, <1>5, <2>1 DEF Fits
  <2>2. CASE ~u.broken /\ p = "clear"
    BY <1>1, <1>3, <1>5, <1>8, <2>2 DEF Fits, Unseeded
  <2>3. CASE ~u.broken /\ p = "work"
    <3>1. \E f \in File : t.file[f] # Absent
      BY <1>1, <1>3, <2>3 DEF Unseeded
    <3>2. Whole(u)
      BY <1>8, <1>9, <2>3, <3>1 DEF Founded, Whole
    <3> QED BY <1>5, <2>3, <3>2 DEF Fits
  <2> QED BY <1>3, <2>1, <2>2, <2>3
<1>11. UNCHANGED snapshot
  BY DEF Open
<1> QED BY <1>1, <1>5, <1>8, <1>9, <1>10, <1>11, SameFits

LEMMA ClearRepoFits ==
  ASSUME NEW S, EditInv, WholeInv(S), NEW a \in Attempt, ClearRepo(a)
  PROVE  WholeInv(S)'
<1>1. PICK t, u : t = tree /\ u = tree'
  OBVIOUS
<1>2. Consistent(t) /\ Holds(t, S) /\ Seeded(t)
  BY <1>1 DEF EditInv, WholeInv
<1>3. PICK x : x = [New EXCEPT !.pc = "mkdir"]
  OBVIOUS
<1>4. x.pc = "mkdir" /\ att' = [att EXCEPT ![a] = x]
  BY <1>3 DEF ClearRepo, To, New
<1>5. PICK file : file = [f \in File |-> Absent]
  OBVIOUS
<1>6. u = [t EXCEPT !.repo = FALSE, !.file = file]
  BY <1>1, <1>5, NoTreeConsistent DEF ClearRepo
<1>7. /\ u.file = file /\ u.backups = t.backups /\ u.edits = t.edits /\ u.broken = t.broken
  BY <1>2, <1>6 DEF Consistent
<1>8. ~t.broken => \A f \in File : t.file[f] = Absent
  BY <1>1 DEF ClearRepo, WholeInv, Fits
<1>9. ~u.broken => u.file = t.file
  BY <1>2, <1>5, <1>7, <1>8 DEF Consistent
<1>10. Holds(u, S)
  BY <1>2, <1>5, <1>7 DEF Holds
<1>11. Seeded(u)
  BY <1>2, <1>7, <1>9 DEF Seeded, Whole
<1>12. Fits(x, u, S)
  BY <1>4, <1>5, <1>7 DEF Fits
<1>13. x.pc \in Seeds /\ UNCHANGED snapshot
  BY <1>4 DEF Seeds, ClearRepo
<1> QED BY <1>1, <1>4, <1>7, <1>9, <1>10, <1>11, <1>12, <1>13, OneFits

LEMMA MakeRepoFits ==
  ASSUME NEW S, EditInv, WholeInv(S), NEW a \in Attempt, MakeRepo(a)
  PROVE  WholeInv(S)'
<1>1. PICK t, u, z : t = tree /\ u = tree' /\ z = att[a]
  OBVIOUS
<1>2. Consistent(t) /\ IsAttempt(z) /\ z.pc = "mkdir" /\ UNCHANGED snapshot
  BY <1>1 DEF EditInv, MakeRepo
<1>3. Founded(tree)
  BY <1>1, <1>2, RunningFounded
<1>4. u \in {t, [t EXCEPT !.repo = TRUE]}
  BY <1>1 DEF MakeRepo
<1>5. u.file = t.file /\ u.backups = t.backups /\ u.edits = t.edits /\ u.broken = t.broken
  BY <1>2, <1>4 DEF Consistent
<1>6. CASE tree.repo
  <2>1. PICK x : x = [New EXCEPT !.pc = "dead"]
    OBVIOUS
  <2>2. x.pc = "dead" /\ att' = [att EXCEPT ![a] = x]
    BY <1>6, <2>1 DEF MakeRepo, To, New
  <2>3. Fits(x, u, S)
    BY <2>2, EndedFits
  <2> QED BY <1>1, <1>2, <1>3, <1>5, <2>2, <2>3, SameFits
<1>7. CASE ~tree.repo
  <2>1. PICK todo : todo = {f \in File : Source[f] # Absent}
    OBVIOUS
  <2>2. PICK x : x = [z EXCEPT !.pc = "copy", !.todo = todo]
    OBVIOUS
  <2>3. x.pc = "copy" /\ x.todo = todo
    BY <1>2, <2>2 DEF IsAttempt
  <2>4. att' = [att EXCEPT ![a] = x]
    BY <1>1, <1>7, <2>1, <2>2 DEF MakeRepo, EditInv
  <2>5. Fits(x, u, S)
    BY <2>1, <2>3 DEF Fits
  <2> QED BY <1>1, <1>2, <1>3, <1>5, <2>4, <2>5, SameFits
<1> QED BY <1>6, <1>7

LEMMA CopyFileFits ==
  ASSUME NEW S, ClosedTexts(S), EditInv, WholeInv(S), NEW a \in Attempt, CopyFile(a)
  PROVE  WholeInv(S)'
<1>1. PICK t, z : t = tree /\ z = att[a]
  OBVIOUS
<1>2. /\ Consistent(t) /\ IsAttempt(z) /\ z.pc = "copy" /\ Holds(t, S) /\ Seeded(t)
      /\ Fits(z, t, S) /\ UNCHANGED snapshot
  BY <1>1 DEF EditInv, WholeInv, CopyFile
<1>3. PICK f \in z.todo :
        /\ tree' = IF t.repo THEN [t EXCEPT !.file[f] = Source[f]] ELSE [t EXCEPT !.broken = TRUE]
        /\ att' = [att EXCEPT ![a].todo = @ \ {f}]
  BY <1>1 DEF CopyFile
<1>4. PICK x : x = [z EXCEPT !.todo = z.todo \ {f}]
  OBVIOUS
<1>5. x.pc = "copy" /\ x.todo = z.todo \ {f} /\ att' = [att EXCEPT ![a] = x]
  BY <1>1, <1>2, <1>3, <1>4 DEF EditInv, IsAttempt
<1>6. x.pc \in Seeds /\ (\A u : u.broken => Fits(x, u, S))
  BY <1>5 DEF Seeds, Fits
<1>7. CASE ~t.repo
  <2>1. PICK broken, u : broken = TRUE /\ u = [t EXCEPT !.broken = broken]
    OBVIOUS
  <2>2. u.file = t.file /\ u.backups = t.backups /\ u.edits = t.edits /\ u.broken /\ tree' = u
    BY <1>2, <1>3, <1>7, <2>1 DEF Consistent
  <2> QED BY <1>1, <1>2, <1>5, <1>6, <2>2, SameFits
<1>8. CASE t.repo
  <2>1. PICK file, u : file = [t.file EXCEPT ![f] = Source[f]] /\ u = [t EXCEPT !.file = file]
    OBVIOUS
  <2>2. /\ u.file = file /\ u.backups = t.backups /\ u.edits = t.edits /\ u.broken = t.broken
        /\ tree' = u
    BY <1>2, <1>3, <1>8, <2>1 DEF Consistent
  <2>3. \A g \in File : file[g] = IF g = f THEN Source[f] ELSE t.file[g]
    BY <1>2, <2>1 DEF Consistent
  <2>4. Holds(u, S)
    BY <1>2, <2>2, <2>3 DEF Holds, ClosedTexts
  <2>5. ~t.broken => f \in File /\ Source[f] # Absent
    BY <1>2 DEF Fits
  <2>6. ~u.broken => (Whole(t) => Whole(u))
    BY <2>2, <2>3, <2>5 DEF Whole
  <2>7. Seeded(u)
    BY <1>2, <2>2, <2>6 DEF Seeded
  <2>8. Fits(x, u, S)
    <3>1. CASE ~u.broken
      BY <1>2, <1>5, <2>2, <2>3, <2>5, <3>1 DEF Fits
    <3> QED BY <1>6, <3>1
  <2>9. ~u.broken => \A b \in Attempt \ {a} : att[b].pc \notin Seeds
    BY <1>1, <1>2, <2>2, Company DEF Seeds, Runs
  <2> QED BY <1>1, <1>2, <1>5, <1>6, <2>2, <2>4, <2>6, <2>7, <2>8, <2>9, OneFits
<1> QED BY <1>7, <1>8

\* An attempt ends an operation and leaves the tree alone.
LEMMA EndsFits ==
  ASSUME NEW S, EditInv, WholeInv(S), UNCHANGED <<tree, snapshot>>, NEW a \in Attempt,
         NEW p \in {"work", "dead"}, To(a, p), Founded(tree),
         ~tree.broken /\ p = "work" => Whole(tree)
  PROVE  WholeInv(S)'
<1>1. PICK x : x = [New EXCEPT !.pc = p]
  OBVIOUS
<1>2. x.pc = p /\ att' = [att EXCEPT ![a] = x]
  BY <1>1 DEF To, New
<1>3. PICK u : u = tree
  OBVIOUS
<1>4. Fits(x, u, S)
  BY <1>2, <1>3 DEF Fits
<1> QED BY <1>2, <1>3, <1>4, SameFits

LEMMA EndCopyFits ==
  ASSUME NEW S, EditInv, WholeInv(S), NEW a \in Attempt, EndCopy(a)
  PROVE  WholeInv(S)'
<1>1. PICK p \in {"work", "dead"} : To(a, p)
  BY DEF EndCopy
<1>2. Founded(tree) /\ (~tree.broken => Whole(tree))
  BY RunningFounded DEF EndCopy
<1> QED BY <1>1, <1>2, EndsFits DEF EndCopy

LEMMA StopFits ==
  ASSUME NEW S, EditInv, WholeInv(S), NEW a \in Attempt, Stop(a)
  PROVE  WholeInv(S)'
<1>1. Founded(tree)
  BY RunningFounded DEF Stop
<1> QED BY <1>1, EndsFits DEF Stop

LEMMA BeginWriteFits ==
  ASSUME NEW S, ClosedTexts(S), EditInv, WholeInv(S), NEW a \in Attempt, BeginWrite(a)
  PROVE  WholeInv(S)'
<1>1. PICK t, u : t = tree /\ u = tree'
  OBVIOUS
<1>2. Consistent(t) /\ u = [t EXCEPT !.repo = TRUE] /\ UNCHANGED snapshot
  BY <1>1 DEF EditInv, BeginWrite
<1>3. u.file = t.file /\ u.backups = t.backups /\ u.edits = t.edits /\ u.broken = t.broken
  BY <1>2 DEF Consistent
<1>4. PICK f \in File, new \in Text : Edit(a, f, new, Absent)
  BY DEF BeginWrite
<1>5. PICK x : att' = [att EXCEPT ![a] = x] /\ x.pc = "save" /\ x.new = new
  BY <1>4, EditBegins DEF BeginWrite
<1>6. Founded(tree) /\ (~t.broken => Whole(t))
  BY <1>1, RunningFounded DEF BeginWrite
<1>7. Fits(x, u, S)
  BY <1>3, <1>5, <1>6 DEF Fits, Whole, ClosedTexts
<1> QED BY <1>1, <1>2, <1>3, <1>5, <1>6, <1>7, SameFits

LEMMA BeginPatchFits ==
  ASSUME NEW S, ClosedTexts(S), EditInv, WholeInv(S), NEW a \in Attempt, BeginPatch(a)
  PROVE  WholeInv(S)'
<1>1. PICK u, z : u = tree /\ z = att[a]
  OBVIOUS
<1>2. IsAttempt(z) /\ z.pc = "work" /\ tree' = u /\ UNCHANGED snapshot /\ Holds(u, S)
  BY <1>1 DEF EditInv, WholeInv, BeginPatch
<1>3. Founded(tree) /\ (~u.broken => Whole(u))
  BY <1>1, <1>2, RunningFounded
<1>4. PICK x : /\ att' = [att EXCEPT ![a] = x]
               /\ x.pc = "work" \/ (x.pc = "save" /\ x.new \in S)
  <2>1. PICK f \in File, diff \in Diff :
          IF Apply(Current(f), diff).ok THEN Edit(a, f, Apply(Current(f), diff).text, diff)
          ELSE att' = [att EXCEPT ![a] = [@ EXCEPT !.f = f, !.diff = diff,
                         !.old = Current(f), !.new = Absent]]
    BY DEF BeginPatch
  <2>2. PICK old : old = Current(f)
    OBVIOUS
  <2>3. old \in S
    BY <1>1, <1>2, <2>2 DEF Current, Holds, ClosedTexts
  <2>4. CASE Apply(old, diff).ok
    <3>1. PICK new : new = Apply(old, diff).text
      OBVIOUS
    <3>2. new \in S /\ Edit(a, f, new, diff)
      BY <2>1, <2>2, <2>3, <2>4, <3>1 DEF ClosedTexts
    <3>3. PICK x : att' = [att EXCEPT ![a] = x] /\ x.pc = "save" /\ x.new = new
      BY <1>1, <1>2, <3>2, EditBegins
    <3> QED BY <3>2, <3>3
  <2>5. CASE ~Apply(old, diff).ok
    <3>1. PICK x : x = [z EXCEPT !.f = f, !.diff = diff, !.old = old, !.new = Absent]
      OBVIOUS
    <3>2. att' = [att EXCEPT ![a] = x]
      <4>1. att' = [att EXCEPT ![a] = [@ EXCEPT !.f = f, !.diff = diff, !.old = old,
                                                !.new = Absent]]
        BY <2>1, <2>2, <2>5
      <4> QED BY <1>1, <3>1, <4>1 DEF EditInv
    <3>3. x.pc = "work"
      BY <1>2, <3>1 DEF IsAttempt
    <3> QED BY <3>2, <3>3
  <2> QED BY <2>4, <2>5
<1>5. Fits(x, u, S)
  BY <1>3, <1>4 DEF Fits
<1> QED BY <1>1, <1>2, <1>3, <1>4, <1>5, SameFits

LEMMA SaveOldFits ==
  ASSUME NEW S, EditInv, WholeInv(S), NEW a \in Attempt, SaveOld(a)
  PROVE  WholeInv(S)'
<1>1. PICK t, z : t = tree /\ z = att[a]
  OBVIOUS
<1>2. PICK x, u :
        /\ att' = [att EXCEPT ![a] = x] /\ tree' = u
        /\ IsAttempt(x) /\ x.pc = "write" /\ x.f = att[a].f /\ x.new = att[a].new
        /\ Consistent(u) /\ Grown(tree, u) /\ u.file = tree.file /\ u.edits = tree.edits
        /\ x.backup \in {0} \cup DOMAIN u.backups
        /\ SavedAs(u, x.backup, u.file[x.f])
        /\ \A i \in DOMAIN u.backups \ DOMAIN tree.backups :
             u.backups[i] = tree.file[x.f] /\ u.backups[i] # Absent
        /\ u.broken = tree.broken
  BY SaveOldLeaves
<1>3. /\ z.pc = "save" /\ z.f \in File /\ Holds(t, S) /\ Seeded(t) /\ Fits(z, t, S)
      /\ UNCHANGED snapshot
  BY <1>1 DEF EditInv, Knows, WholeInv, SaveOld
<1>4. Founded(tree) /\ (~t.broken => Whole(t))
  BY <1>1, <1>3, RunningFounded
<1>5. /\ u.file = t.file /\ u.edits = t.edits /\ u.broken = t.broken /\ Grown(t, u)
      /\ x.f = z.f /\ x.new = z.new
      /\ \A i \in DOMAIN u.backups \ DOMAIN t.backups :
           u.backups[i] = t.file[x.f] /\ u.backups[i] # Absent
  BY <1>1, <1>2
<1>6. Holds(u, S)
  BY <1>3, <1>5 DEF Holds, Grown
<1>7. Seeded(u) /\ Founded(u) /\ (Whole(t) => Whole(u))
  BY <1>1, <1>3, <1>4, <1>5 DEF Seeded, Founded, Whole
<1>8. x.backup = 0 => u.file[x.f] = Absent
  <2>1. 0 \notin DOMAIN u.backups
    BY <1>2 DEF Consistent, IsSequence
  <2> QED BY <1>2, <2>1 DEF SavedAs
<1>9. Fits(x, u, S)
  <2>1. x.new \in S /\ x.pc = "write"
    BY <1>2, <1>3, <1>5 DEF Fits
  <2>2. ~u.broken => Whole(u) /\ x.f \in File
    BY <1>3, <1>4, <1>5, <1>7
  <2>3. ~u.broken /\ x.backup = 0 => Source[x.f] = Absent
    BY <1>8, <2>2 DEF Whole
  <2> QED BY <2>1, <2>2, <2>3 DEF Fits
<1> QED BY <1>1, <1>2, <1>3, <1>5, <1>6, <1>7, <1>9, OneFits

\* Writing the file.
LEMMA PutFits ==
  ASSUME NEW S, ClosedTexts(S), EditInv, WholeInv(S), NEW a \in Attempt,
         att[a].pc = "write", NEW text \in S, NEW next, Put(a, text, next),
         UNCHANGED snapshot, next.pc \in {"record", "dead"}
  PROVE  WholeInv(S)'
<1>1. PICK t, z : t = tree /\ z = att[a]
  OBVIOUS
<1>2. PICK y, u, e :
        /\ att' = y /\ y = [b \in Attempt |-> y[b]] /\ y[a] = next
        /\ tree' = u /\ Consistent(u) /\ Grown(tree, u)
        /\ u.file[att[a].f] = text
        /\ \A f \in File \ {att[a].f} : u.file[f] = tree.file[f]
        /\ u.backups = tree.backups /\ u.broken = tree.broken
        /\ DOMAIN u.edits = DOMAIN tree.edits \cup {Len(tree.edits) + 1}
        /\ u.edits[Len(tree.edits) + 1] = e
        /\ e.f = att[a].f /\ e.backup = att[a].backup
        /\ \A b \in Attempt \ {a} :
             /\ IsAttempt(y[b]) /\ Knows(y[b], u)
             /\ y[b].pc = att[b].pc /\ y[b].f = att[b].f /\ y[b].new = att[b].new
             /\ y[b].backup = att[b].backup /\ y[b].todo = att[b].todo
  BY PutLeaves
<1>3. /\ z.pc = "write" /\ z.f \in File /\ Holds(t, S) /\ Seeded(t) /\ Fits(z, t, S)
  BY <1>1 DEF EditInv, Knows, WholeInv
<1>4. ~t.broken => Whole(t)
  BY <1>1, <1>3, RunningFounded
<1>5. /\ u.file[z.f] = text /\ \A f \in File \ {z.f} : u.file[f] = t.file[f]
      /\ u.backups = t.backups /\ u.broken = t.broken /\ Grown(t, u)
      /\ DOMAIN u.edits = DOMAIN t.edits \cup {Len(t.edits) + 1}
      /\ u.edits[Len(t.edits) + 1] = e /\ e.f = z.f /\ e.backup = z.backup
  BY <1>1, <1>2
<1>6. Holds(u, S)
  BY <1>3, <1>5 DEF Holds
<1>7. Whole(t) => Whole(u)
  BY <1>3, <1>5 DEF Whole, ClosedTexts
<1>8. Seeded(u)
  <2> SUFFICES ASSUME ~u.broken
               PROVE  /\ \A n \in DOMAIN u.edits :
                           u.edits[n].backup = 0 => Source[u.edits[n].f] = Absent
                      /\ Whole(u)
    BY DEF Seeded
  <2>1. \A n \in DOMAIN t.edits : u.edits[n] = t.edits[n]
    BY <1>5 DEF Grown
  <2>2. e.backup = 0 => Source[e.f] = Absent
    BY <1>3, <1>5 DEF Fits
  <2>3. \A n \in DOMAIN t.edits : t.edits[n].backup = 0 => Source[t.edits[n].f] = Absent
    BY <1>3, <1>5 DEF Seeded
  <2> QED BY <1>4, <1>5, <1>7, <2>1, <2>2, <2>3
<1>9. Founded(u)
  BY <1>4, <1>5, <1>7 DEF Founded
<1>10. Fits(y[a], u, S)
  BY <1>2, <1>4, <1>5, <1>7 DEF Fits
<1>11. ~u.broken => \A b \in Attempt \ {a} : att[b].pc \notin Seeds
  BY <1>1, <1>3, <1>5, Company DEF Runs
<1> QED BY <1>1, <1>2, <1>5, <1>6, <1>7, <1>8, <1>9, <1>10, <1>11, AttemptFits

LEMMA WriteFits ==
  ASSUME NEW S, ClosedTexts(S), EditInv, WholeInv(S), NEW a \in Attempt, Write(a)
  PROVE  WholeInv(S)'
<1>1. att[a].pc = "write" /\ UNCHANGED snapshot
  BY DEF Write
<1>2. CASE tree.repo \/ att[a].diff # Absent
  <2>1. PICK f, backup, edit : f = att[a].f /\ backup = att[a].backup /\ edit = Len(tree.edits) + 1
    OBVIOUS
  <2>2. PICK next : next = [New EXCEPT !.pc = "record", !.f = f, !.backup = backup, !.edit = edit]
    OBVIOUS
  <2>3. Put(a, att[a].new, next)
    BY <1>2, <2>1, <2>2 DEF Write
  <2>4. next.pc = "record"
    BY <2>2 DEF New
  <2>5. PICK text \in S : text = att[a].new
    BY <1>1 DEF WholeInv, Fits
  <2> QED BY <1>1, <2>3, <2>4, <2>5, PutFits
<1>3. CASE ~(tree.repo \/ att[a].diff # Absent)
  <2>1. Founded(tree) /\ (~tree.broken => Whole(tree))
    BY <1>1, RunningFounded
  <2> QED BY <1>1, <1>3, <2>1, EndsFits DEF Write
<1> QED BY <1>2, <1>3

LEMMA CrashWritingFits ==
  ASSUME NEW S, ClosedTexts(S), EditInv, WholeInv(S), NEW a \in Attempt, CrashWriting(a)
  PROVE  WholeInv(S)'
<1>1. PICK next, text : next = [New EXCEPT !.pc = "dead"] /\ text = <<>>
  OBVIOUS
<1>2. att[a].pc = "write" /\ Put(a, text, next) /\ UNCHANGED snapshot
  BY <1>1 DEF CrashWriting
<1>3. next.pc = "dead" /\ text \in S
  BY <1>1 DEF New, ClosedTexts
<1> QED BY <1>2, <1>3, PutFits

LEMMA StoreRecordFits ==
  ASSUME NEW S, EditInv, WholeInv(S), NEW a \in Attempt, StoreRecord(a)
  PROVE  WholeInv(S)'
<1>1. PICK t, u : t = tree /\ u = tree'
  OBVIOUS
<1>2. Consistent(t) /\ UNCHANGED snapshot /\ att[a].pc = "record"
  BY <1>1 DEF EditInv, StoreRecord
<1>3. PICK l : u = [t EXCEPT !.records = l]
  BY <1>1 DEF StoreRecord
<1>4. u.file = t.file /\ u.backups = t.backups /\ u.edits = t.edits /\ u.broken = t.broken
  BY <1>2, <1>3 DEF Consistent
<1>5. PICK x : x = [New EXCEPT !.pc = "work"]
  OBVIOUS
<1>6. x.pc = "work" /\ att' = [att EXCEPT ![a] = x]
  BY <1>5 DEF StoreRecord, To, New
<1>7. Founded(tree) /\ (~t.broken => Whole(t))
  BY <1>1, <1>2, RunningFounded
<1>8. Fits(x, u, S)
  BY <1>4, <1>6, <1>7 DEF Fits, Whole
<1> QED BY <1>1, <1>2, <1>4, <1>6, <1>7, <1>8, SameFits

LEMMA CrashFits ==
  ASSUME NEW S, EditInv, WholeInv(S), NEW a \in Attempt, Crash(a)
  PROVE  WholeInv(S)'
<1>1. PICK t, z : t = tree /\ z = att[a]
  OBVIOUS
<1>2. Consistent(t) /\ UNCHANGED snapshot
  BY <1>1 DEF EditInv, Crash
<1>3. tree' = [t EXCEPT !.broken = t.broken \/ z.todo # {}]
  BY <1>1, <1>2 DEF Crash, Consistent
<1>4. PICK broken, u : /\ broken = (t.broken \/ z.todo # {})
                       /\ tree' = u /\ u = [t EXCEPT !.broken = broken]
  BY <1>3
<1>5. u.file = t.file /\ u.backups = t.backups /\ u.edits = t.edits /\ u.broken = broken
  BY <1>2, <1>4 DEF Consistent
<1>6. PICK x : x = [New EXCEPT !.pc = "dead"]
  OBVIOUS
<1>7. x.pc = "dead" /\ att' = [att EXCEPT ![a] = x]
  BY <1>6 DEF Crash, To, New
<1>8. ~u.broken => Founded(tree)
  <2> SUFFICES ASSUME ~u.broken PROVE Founded(tree)
    OBVIOUS
  <2>1. z.todo = {}
    BY <1>4, <1>5
  <2>2. z.pc \in {"clear", "mkdir", "copy", "work", "save", "write", "record"}
    BY <1>1 DEF Crash, Running, Seeding, Editing
  <2> QED BY <1>1, <2>1, <2>2, RunningFounded
<1>9. Fits(x, u, S) /\ (t.broken => u.broken)
  BY <1>4, <1>5, <1>7, EndedFits
<1> QED BY <1>1, <1>2, <1>4, <1>5, <1>7, <1>8, <1>9, SameFits

LEMMA AttemptWhole ==
  ASSUME NEW S, ClosedTexts(S), EditInv, WholeInv(S), NEW a \in Attempt, AttemptStep(a)
  PROVE  WholeInv(S)'
BY OpenFits, ClearRepoFits, MakeRepoFits, CopyFileFits, EndCopyFits, BeginWriteFits,
   BeginPatchFits, SaveOldFits, WriteFits, StoreRecordFits, StopFits, CrashFits,
   CrashWritingFits
DEF AttemptStep

-----------------------------------------------------------------------------
(* The manager's commands keep WholeInv.                                   *)

\* A command that is given, ends or dies.
LEMMA QuietFits ==
  ASSUME NEW S, EditInv, WholeInv(S), Quiet, UNCHANGED att, NEW u, tree' = u,
         Holds(u, S), Seeded(u), Founded(u),
         NEW s, snapshot' = s, s # Absent => Holds(s, S) /\ Seeded(s) /\ Founded(s)
  PROVE  WholeInv(S)'
<1>1. PICK y : y = att
  OBVIOUS
<1>2. ASSUME NEW a \in Attempt PROVE Fits(y[a], u, S)
  BY <1>1 DEF Quiet, Runs, Seeds, Fits
<1> QED BY <1>1, <1>2, WholeInvOf

LEMMA QuietFounded ==
  ASSUME NEW S, WholeInv(S), Quiet
  PROVE  Holds(tree, S) /\ Seeded(tree) /\ Founded(tree)
BY DEF WholeInv, Quiet, Runs

LEMMA MadeFits ==
  ASSUME NEW S, Consistent(tree), Holds(tree, S), Seeded(tree), Founded(tree)
  PROVE  Holds(Made, S) /\ Seeded(Made) /\ Founded(Made)
<1>1. PICK t, u : t = tree /\ u = Made
  OBVIOUS
<1>2. u.file = t.file /\ u.backups = t.backups /\ u.edits = t.edits /\ u.broken = t.broken
  BY <1>1, MadeConsistent
<1>3. Holds(u, S) /\ Seeded(u) /\ Founded(u)
  BY <1>1, <1>2, SameHolds
<1> QED BY <1>1, <1>3

LEMMA NoTreeFits ==
  ASSUME NEW S PROVE Holds(NoTree, S) /\ Seeded(NoTree) /\ Founded(NoTree)
BY NoTreeConsistent DEF Holds, Seeded, Founded

LEMMA CommandFits ==
  ASSUME NEW S, EditInv, WholeInv(S), Look \/ Snapshot \/ Restore \/ Cleanup
  PROVE  WholeInv(S)'
<1>1. Quiet /\ UNCHANGED att
  BY CommandIsQuiet DEF Look, Snapshot, Restore, Cleanup, Wipe
<1>2. PICK u, s : tree' = u /\ snapshot' = s
  OBVIOUS
<1>3. PICK t, old : t = tree /\ old = snapshot
  OBVIOUS
<1>4. /\ Holds(t, S) /\ Seeded(t) /\ Founded(t)
      /\ old # Absent => Holds(old, S) /\ Seeded(old) /\ Founded(old)
  BY <1>1, <1>3, QuietFounded DEF WholeInv
<1>5. Holds(Made, S) /\ Seeded(Made) /\ Founded(Made)
  BY <1>3, <1>4, MadeFits DEF EditInv
<1>6. u \in {t, Made, NoTree} /\ s \in {old, u}
  BY <1>2, <1>3 DEF Look, Snapshot, Restore, Cleanup, Wipe
<1>7. Holds(u, S) /\ Seeded(u) /\ Founded(u)
  BY <1>4, <1>5, <1>6, NoTreeFits
<1>8. s # Absent => Holds(s, S) /\ Seeded(s) /\ Founded(s)
  BY <1>4, <1>6, <1>7
<1> QED BY <1>1, <1>2, <1>7, <1>8, QuietFits

LEMMA EndFits ==
  ASSUME NEW S, EditInv, WholeInv(S), EndRestore \/ EndCleanup
  PROVE  WholeInv(S)'
<1>1. Quiet /\ UNCHANGED att
  BY DEF EditInv, EndRestore, EndCleanup
<1>2. PICK t, s : t = tree /\ s = snapshot
  OBVIOUS
<1>3. /\ Holds(t, S) /\ Seeded(t) /\ Founded(t) /\ (EndRestore => s # Absent)
      /\ s # Absent => Holds(s, S) /\ Seeded(s) /\ Founded(s)
  BY <1>1, <1>2, QuietFounded DEF WholeInv, EditInv, EndRestore
<1>4. PICK u : tree' = u /\ ((EndRestore /\ u = s) \/ u = t)
  BY <1>2 DEF EndRestore, EndCleanup
<1>5. Holds(u, S) /\ Seeded(u) /\ Founded(u) /\ snapshot' = s
  BY <1>2, <1>3, <1>4 DEF EndRestore, EndCleanup
<1> QED BY <1>1, <1>3, <1>4, <1>5, QuietFits

LEMMA CommandDiesFits ==
  ASSUME NEW S, EditInv, WholeInv(S), CommandDies
  PROVE  WholeInv(S)'
<1>1. Quiet /\ UNCHANGED <<att, snapshot>>
  BY DEF EditInv, CommandDies
<1>2. PICK t, s, u : t = tree /\ s = snapshot /\ u = tree'
  OBVIOUS
<1>3. /\ Holds(t, S) /\ Seeded(t) /\ Founded(t)
      /\ s # Absent => Consistent(s) /\ Holds(s, S) /\ Seeded(s) /\ Founded(s)
  BY <1>1, <1>2, QuietFounded DEF WholeInv, EditInv
<1>4. Holds(u, S) /\ Seeded(u) /\ Founded(u)
  <2>1. CASE UNCHANGED tree
    BY <1>2, <1>3, <2>1
  <2>2. CASE op = "restore" /\ tree' # tree
    <3>1. PICK copied \in SUBSET File :
            u = [s EXCEPT !.broken = TRUE,
                   !.file = [f \in File |-> IF f \in copied THEN s.file[f] ELSE Absent]]
      BY <1>2, <2>2 DEF CommandDies
    <3>2. Consistent(s) /\ Holds(s, S)
      BY <1>2, <1>3, <2>2 DEF EditInv
    <3>3. /\ u.file = [f \in File |-> IF f \in copied THEN s.file[f] ELSE Absent]
          /\ u.backups = s.backups /\ u.broken
      <4>1. PICK file, broken :
              /\ file = [f \in File |-> IF f \in copied THEN s.file[f] ELSE Absent]
              /\ broken = TRUE
        OBVIOUS
      <4>2. u = [s EXCEPT !.broken = broken, !.file = file]
        BY <3>1, <4>1
      <4>3. u.file = file /\ u.backups = s.backups /\ u.broken = broken
        BY <3>2, <4>2 DEF Consistent
      <4> QED BY <4>1, <4>3
    <3>4. Holds(u, S)
      BY <3>1, <3>2, <3>3 DEF Holds
    <3> QED BY <3>3, <3>4 DEF Seeded, Founded
  <2> QED BY <2>1, <2>2 DEF CommandDies
<1>5. snapshot' = s
  BY <1>1, <1>2
<1> QED BY <1>1, <1>2, <1>3, <1>4, <1>5, QuietFits

LEMMA RollbackFits ==
  ASSUME NEW S, ClosedTexts(S), EditInv, WholeInv(S), NEW i \in DOMAIN tree.records, Rollback(i)
  PROVE  WholeInv(S)'
<1>1. PICK t, s, r : t = tree /\ s = snapshot /\ r = tree.records[i]
  OBVIOUS
<1>2. Quiet /\ UNCHANGED <<att, snapshot>>
  BY CommandIsQuiet DEF Rollback
<1>3. /\ Consistent(t) /\ Holds(t, S) /\ Seeded(t) /\ Founded(t)
      /\ s # Absent => Holds(s, S) /\ Seeded(s) /\ Founded(s)
  BY <1>1, <1>2, QuietFounded DEF WholeInv, EditInv
<1>4. PICK e : e = t.edits[r.edit]
  OBVIOUS
<1>5. /\ r.edit \in DOMAIN t.edits /\ r.f = e.f /\ r.backup = e.backup
      /\ e.f \in File /\ e.backup \in {0} \cup DOMAIN t.backups
  BY <1>1, <1>3, <1>4 DEF Consistent
<1>6. PICK text, file, u :
        /\ text = IF r.backup = 0 THEN Absent ELSE t.backups[r.backup]
        /\ file = [t.file EXCEPT ![r.f] = text]
        /\ u = [t EXCEPT !.file = file]
  OBVIOUS
<1>7. tree' = u
  <2>1. tree' = [t EXCEPT !.file[r.f] = text]
    BY <1>1, <1>6 DEF Rollback
  <2> QED BY <1>3, <1>6, <2>1 DEF Consistent
<1>8. u.file = file /\ u.backups = t.backups /\ u.edits = t.edits /\ u.broken = t.broken
  BY <1>3, <1>6 DEF Consistent
<1>9. \A g \in File : file[g] = IF g = r.f THEN text ELSE t.file[g]
  BY <1>3, <1>6 DEF Consistent
<1>10. text # Absent => text \in S
  BY <1>3, <1>5, <1>6 DEF Holds
<1>11. Holds(u, S)
  BY <1>3, <1>8, <1>9, <1>10 DEF Holds
<1>12. ~t.broken => text # Absent \/ Source[e.f] = Absent
  BY <1>3, <1>4, <1>5, <1>6 DEF Holds, Seeded, ClosedTexts
<1>13. ~t.broken => Whole(t) /\ Whole(u)
  <2>1. ~t.broken => Whole(t)
    BY <1>3, <1>5 DEF Seeded
  <2> QED BY <1>5, <1>8, <1>9, <1>12, <2>1 DEF Whole
<1>14. Seeded(u) /\ Founded(u)
  BY <1>3, <1>8, <1>13 DEF Seeded, Founded
<1>15. snapshot' = s
  BY <1>1, <1>2
<1> QED BY <1>2, <1>3, <1>7, <1>11, <1>14, <1>15, QuietFits

LEMMA StutterFits ==
  ASSUME NEW S, WholeInv(S), UNCHANGED workspaceVars
  PROVE  WholeInv(S)'
<1>1. PICK y, u, s : y = att /\ u = tree /\ s = snapshot
  OBVIOUS
<1>2. /\ att' = y /\ tree' = u /\ snapshot' = s
      /\ Holds(u, S) /\ Seeded(u)
      /\ (\A a \in Attempt : y[a].pc \notin Seeds) => Founded(u)
      /\ s # Absent => Holds(s, S) /\ Seeded(s) /\ Founded(s)
      /\ \A a \in Attempt : Fits(y[a], u, S)
  BY <1>1 DEF workspaceVars, WholeInv
<1> QED BY <1>2, WholeInvOf

\* What an unified diff makes of a text of lines is one again, so the texts of
\* lines are all the texts there can be.
LEMMA AppliedText ==
  ASSUME NEW old \in Seq(Line), NEW diff \in Seq(Hunk)
  PROVE  Apply(old, diff).text \in Seq(Line)
<1>1. PICK N \in Nat : N = Len(diff)
  BY LenProperties
<1>2. PICK g \in [0 .. N -> Acc] :
        Apply(old, diff) = [ok |-> g[N].ok, text |-> g[N].out \o SubSeq(old, g[N].cursor, Len(old))]
  BY <1>1, DiffRun
<1>3. PICK acc \in Acc : acc = g[N]
  BY <1>1
<1>4. acc.out \in Seq(Line) /\ acc.cursor \in Nat \ {0}
  BY DEF Acc
<1>5. Len(old) \in Nat /\ Len(old) <= Len(old)
  BY LenProperties
<1>6. SubSeq(old, acc.cursor, Len(old)) \in Seq(Line)
  BY <1>4, <1>5, PartOf
<1>7. acc.out \o SubSeq(old, acc.cursor, Len(old)) \in Seq(Line)
  BY <1>4, <1>6, ConcatProperties
<1>8. PICK ok, text : ok = acc.ok /\ text = acc.out \o SubSeq(old, acc.cursor, Len(old))
  OBVIOUS
<1>9. Apply(old, diff) = [ok |-> ok, text |-> text]
  BY ONLY <1>2, <1>3, <1>8
<1>10. text \in Seq(Line)
  BY <1>7, <1>8
<1> QED BY ONLY <1>9, <1>10

LEMMA TextsClosed == ClosedTexts(Seq(Line))
<1>1. <<>> \in Seq(Line)
  BY EmptySeq
<1>2. \A old \in Seq(Line), diff \in Diff :
        Apply(old, diff).ok => Apply(old, diff).text \in Seq(Line)
  BY AppliedText, TextsAssumption
<1> QED BY <1>1, <1>2, TextsAssumption DEF ClosedTexts

\* What an attempt may count on while it seeds and edits holds in every state: the
\* files and backups hold texts of lines, and what is edited was seeded whole.
THEOREM WholeInductive == WorkspaceSpec => []WholeInv(Seq(Line))
<1> DEFINE S == Seq(Line)
<1>1. EditInv /\ WholeInv(S) /\ [WorkspaceNext]_workspaceVars => WholeInv(S)'
  <2> SUFFICES ASSUME EditInv, WholeInv(S), [WorkspaceNext]_workspaceVars PROVE WholeInv(S)'
    OBVIOUS
  <2>1. CASE \E a \in Attempt : AttemptStep(a)
    BY <2>1, AttemptWhole, TextsClosed
  <2>2. CASE Look \/ Snapshot \/ Restore \/ Cleanup
    BY <2>2, CommandFits, TextsClosed
  <2>3. CASE EndRestore \/ EndCleanup
    BY <2>3, EndFits, TextsClosed
  <2>4. CASE CommandDies
    BY <2>4, CommandDiesFits, TextsClosed
  <2>5. CASE \E i \in DOMAIN tree.records : Rollback(i)
    BY <2>5, RollbackFits, TextsClosed
  <2>6. CASE UNCHANGED workspaceVars
    BY <2>6, StutterFits
  <2> QED BY <2>1, <2>2, <2>3, <2>4, <2>5, <2>6 DEF WorkspaceNext
<1>2. WorkspaceInit => WholeInv(S)
  BY InitFits
<1> QED BY <1>1, <1>2, EditsInductive, PTL DEF WorkspaceSpec

\* An attempt goes to work on a whole copy of the repository (copy_repo_to_workspace,
\* and _run_harness_task that seeds only an empty repo), whatever is written to it
\* and rolled back, unless a copy was cut off or two attempts were seeding at once.
THEOREM SeededWhole == WorkspaceSpec => SeededIsWhole
<1> DEFINE S == Seq(Line)
<1>1. WholeInv(S)' =>
        [\A a \in Attempt :
           /\ att[a].pc \in {"new", "copy"} /\ att'[a].pc = "work"
           /\ ~tree'.broken
           => \A f \in File : Source[f] # Absent => tree'.file[f] # Absent]_workspaceVars
  <2> SUFFICES ASSUME WholeInv(S)', NEW a \in Attempt, att'[a].pc = "work", ~tree'.broken
               PROVE  \A f \in File : Source[f] # Absent => tree'.file[f] # Absent
    OBVIOUS
  <2>1. PICK x, u : x = att'[a] /\ u = tree'
    OBVIOUS
  <2>2. Fits(x, u, S)
    BY <2>1 DEF WholeInv, Fits, Whole
  <2> QED BY <2>1, <2>2 DEF Fits, Whole
<1> QED BY <1>1, WholeInductive, PTL DEF WorkspaceSpec, SeededIsWhole

-----------------------------------------------------------------------------
(* What an attempt at a patch holds: the diff, the text it is for and the  *)
(* outcome of the one on the other.                                        *)
Patched(x) ==
  x.diff # Absent =>
    /\ x.diff \in Diff /\ x.old \in Seq(Line)
    /\ Apply(x.old, x.diff).ok => x.new = Apply(x.old, x.diff).text

\* The invariant behind the patches.
PatchInv == \A a \in Attempt : Patched(att[a])

LEMMA PatchInvOf ==
  ASSUME NEW y, att' = y, \A a \in Attempt : Patched(y[a]) PROVE PatchInv'
BY DEF PatchInv, Patched

\* One attempt steps and the others keep what they have.
LEMMA OnePatched ==
  ASSUME EditInv, PatchInv, NEW a \in Attempt, NEW x, att' = [att EXCEPT ![a] = x], Patched(x)
  PROVE  PatchInv'
<1>1. PICK z : z = att
  OBVIOUS
<1>2. z = [b \in Attempt |-> z[b]] /\ \A b \in Attempt : Patched(z[b])
  BY <1>1 DEF EditInv, PatchInv
<1>3. PICK y : y = [z EXCEPT ![a] = x]
  OBVIOUS
<1>4. \A b \in Attempt : y[b] = IF b = a THEN x ELSE z[b]
  BY <1>2, <1>3
<1>5. \A b \in Attempt : Patched(y[b])
  BY <1>2, <1>4
<1> QED BY <1>1, <1>3, <1>5, PatchInvOf

\* One that has no diff holds nothing.
LEMMA NothingPatched == ASSUME NEW x, x.diff = Absent PROVE Patched(x)
BY DEF Patched

\* With the operation, what the attempt remembers ends.
LEMMA EndPatched ==
  ASSUME EditInv, PatchInv, NEW a \in Attempt, NEW p, To(a, p) PROVE PatchInv'
<1>1. PICK x : x = [New EXCEPT !.pc = p]
  OBVIOUS
<1>2. x.diff = Absent
  BY <1>1 DEF New
<1>3. att' = [att EXCEPT ![a] = x]
  BY <1>1 DEF To
<1> QED BY <1>2, <1>3, NothingPatched, OnePatched

\* A step that leaves diff, old and new as they are.
LEMMA SamePatched ==
  ASSUME EditInv, PatchInv, NEW a \in Attempt, NEW x, att' = [att EXCEPT ![a] = x],
         x.diff = att[a].diff, x.old = att[a].old, x.new = att[a].new
  PROVE  PatchInv'
<1>1. PICK z : z = att[a]
  OBVIOUS
<1>2. Patched(z) /\ x.diff = z.diff /\ x.old = z.old /\ x.new = z.new
  BY <1>1 DEF PatchInv
<1>3. Patched(x)
  BY <1>2 DEF Patched
<1> QED BY <1>3, OnePatched

LEMMA MakeRepoPatched ==
  ASSUME EditInv, PatchInv, NEW a \in Attempt, MakeRepo(a) PROVE PatchInv'
<1>1. PICK z : z = att[a]
  OBVIOUS
<1>2. IsAttempt(z)
  BY <1>1 DEF EditInv
<1>3. CASE tree.repo
  BY <1>3, EndPatched DEF MakeRepo
<1>4. CASE ~tree.repo
  <2>1. PICK todo : todo = {f \in File : Source[f] # Absent}
    OBVIOUS
  <2>2. PICK x : x = [z EXCEPT !.pc = "copy", !.todo = todo]
    OBVIOUS
  <2>3. att' = [att EXCEPT ![a] = x]
    BY <1>1, <1>4, <2>1, <2>2 DEF MakeRepo, EditInv
  <2>4. x.diff = z.diff /\ x.old = z.old /\ x.new = z.new
    BY <1>2, <2>2 DEF IsAttempt
  <2> QED BY <1>1, <2>3, <2>4, SamePatched
<1> QED BY <1>3, <1>4

LEMMA CopyFilePatched ==
  ASSUME EditInv, PatchInv, NEW a \in Attempt, CopyFile(a) PROVE PatchInv'
<1>1. PICK z : z = att[a]
  OBVIOUS
<1>2. IsAttempt(z)
  BY <1>1 DEF EditInv
<1>3. PICK f : att' = [att EXCEPT ![a].todo = @ \ {f}]
  BY DEF CopyFile
<1>4. PICK x : x = [z EXCEPT !.todo = @ \ {f}]
  OBVIOUS
<1>5. att' = [att EXCEPT ![a] = x]
  BY <1>1, <1>3, <1>4 DEF EditInv
<1>6. x.diff = z.diff /\ x.old = z.old /\ x.new = z.new
  BY <1>2, <1>4 DEF IsAttempt
<1> QED BY <1>1, <1>5, <1>6, SamePatched

\* An edit begins: what the attempt remembers.
LEMMA EditRemembers ==
  ASSUME EditInv, NEW a \in Attempt, NEW f, NEW new, NEW diff, Edit(a, f, new, diff)
  PROVE  \E x : /\ att' = [att EXCEPT ![a] = x]
                /\ x.diff = diff /\ x.old = Current(f) /\ x.new = new
<1>1. PICK z, old : z = att[a] /\ old = Current(f)
  OBVIOUS
<1>2. PICK x : x = [z EXCEPT !.pc = "save", !.f = f, !.diff = diff, !.old = old, !.new = new,
                             !.disturbed = FALSE]
  OBVIOUS
<1>3. att' = [att EXCEPT ![a] = x]
  BY <1>1, <1>2 DEF Edit, EditInv
<1>4. x.diff = diff /\ x.old = old /\ x.new = new
  <2>1. IsAttempt(z)
    BY <1>1 DEF EditInv
  <2> QED BY <1>2, <2>1 DEF IsAttempt
<1> QED BY <1>1, <1>3, <1>4

LEMMA BeginWritePatched ==
  ASSUME EditInv, PatchInv, NEW a \in Attempt, BeginWrite(a) PROVE PatchInv'
<1>1. PICK f \in File, new \in Text : Edit(a, f, new, Absent)
  BY DEF BeginWrite
<1>2. PICK x : att' = [att EXCEPT ![a] = x] /\ x.diff = Absent
  BY <1>1, EditRemembers
<1> QED BY <1>2, NothingPatched, OnePatched

\* The text a patch is applied to is one of lines.
LEMMA CurrentText ==
  ASSUME Holds(tree, Seq(Line)), NEW f \in File PROVE Current(f) \in Seq(Line)
<1>1. <<>> \in Seq(Line)
  BY EmptySeq
<1>2. PICK t : t = tree
  OBVIOUS
<1>3. t.file[f] # Absent => t.file[f] \in Seq(Line)
  BY <1>2 DEF Holds
<1> QED BY <1>1, <1>2, <1>3 DEF Current

LEMMA BeginPatchPatched ==
  ASSUME EditInv, WholeInv(Seq(Line)), PatchInv, NEW a \in Attempt, BeginPatch(a)
  PROVE  PatchInv'
<1>1. PICK z : z = att[a]
  OBVIOUS
<1>2. IsAttempt(z) /\ z.pc = "work" /\ Holds(tree, Seq(Line))
  BY <1>1 DEF EditInv, WholeInv, BeginPatch
<1>3. PICK f \in File, diff \in Diff :
        IF Apply(Current(f), diff).ok THEN Edit(a, f, Apply(Current(f), diff).text, diff)
        ELSE att' = [att EXCEPT ![a] = [@ EXCEPT !.f = f, !.diff = diff,
                       !.old = Current(f), !.new = Absent]]
  BY DEF BeginPatch
<1>4. PICK old \in Seq(Line) : old = Current(f)
  BY <1>2, CurrentText
<1>5. CASE Apply(old, diff).ok
  <2>1. PICK new : new = Apply(old, diff).text
    OBVIOUS
  <2>2. Edit(a, f, new, diff)
    BY <1>3, <1>4, <1>5, <2>1
  <2>3. PICK x : /\ att' = [att EXCEPT ![a] = x]
                 /\ x.diff = diff /\ x.old = old /\ x.new = new
    BY <1>4, <2>2, EditRemembers
  <2>4. Patched(x)
    BY <1>4, <2>1, <2>3 DEF Patched
  <2> QED BY <2>3, <2>4, OnePatched
<1>6. CASE ~Apply(old, diff).ok
  <2>1. PICK x : x = [z EXCEPT !.f = f, !.diff = diff, !.old = old, !.new = Absent]
    OBVIOUS
  <2>2. att' = [att EXCEPT ![a] = x]
    <3>1. att' = [att EXCEPT ![a] = [@ EXCEPT !.f = f, !.diff = diff, !.old = old,
                                              !.new = Absent]]
      BY <1>3, <1>4, <1>6
    <3> QED BY <1>1, <2>1, <3>1 DEF EditInv
  <2>3. x.diff = diff /\ x.old = old
    BY <1>2, <2>1 DEF IsAttempt
  <2>4. Patched(x)
    BY <1>4, <1>6, <2>3 DEF Patched
  <2> QED BY <2>2, <2>4, OnePatched
<1> QED BY <1>5, <1>6

LEMMA SaveOldPatched ==
  ASSUME EditInv, PatchInv, NEW a \in Attempt, SaveOld(a) PROVE PatchInv'
<1>1. PICK z : z = att[a]
  OBVIOUS
<1>2. IsAttempt(z)
  BY <1>1 DEF EditInv
<1>3. PICK backup : att' = [att EXCEPT ![a] = [@ EXCEPT !.pc = "write", !.backup = backup,
                                                       !.disturbed = FALSE]]
  BY DEF SaveOld
<1>4. PICK x : x = [z EXCEPT !.pc = "write", !.backup = backup, !.disturbed = FALSE]
  OBVIOUS
<1>5. att' = [att EXCEPT ![a] = x]
  BY <1>1, <1>3, <1>4 DEF EditInv
<1>6. x.diff = z.diff /\ x.old = z.old /\ x.new = z.new
  BY <1>2, <1>4 DEF IsAttempt
<1> QED BY <1>1, <1>5, <1>6, SamePatched

\* A file is written: the one that writes forgets its diff.
LEMMA PutPatched ==
  ASSUME EditInv, PatchInv, NEW a \in Attempt, NEW text, NEW next, Put(a, text, next),
         next.diff = Absent
  PROVE  PatchInv'
<1>1. PICK z, f : z = att /\ f = att[a].f
  OBVIOUS
<1>2. \A b \in Attempt : IsAttempt(z[b]) /\ Patched(z[b])
  BY <1>1 DEF EditInv, PatchInv
<1>3. PICK y : y = [b \in Attempt |-> IF b = a THEN next
                      ELSE [z[b] EXCEPT !.disturbed = @ \/ (z[b].pc = "write" /\ z[b].f = f)]]
  OBVIOUS
<1>4. att' = y
  BY <1>1, <1>3 DEF Put
<1>5. ASSUME NEW b \in Attempt PROVE Patched(y[b])
  <2>1. CASE b = a
    BY <1>3, <2>1, NothingPatched
  <2>2. CASE b # a
    <3>1. y[b].diff = z[b].diff /\ y[b].old = z[b].old /\ y[b].new = z[b].new
      <4>1. PICK v : v = z[b]
        OBVIOUS
      <4>2. PICK disturbed : disturbed = (v.disturbed \/ (v.pc = "write" /\ v.f = f))
        OBVIOUS
      <4>3. y[b] = [v EXCEPT !.disturbed = disturbed]
        BY <1>3, <2>2, <4>1, <4>2
      <4>4. IsAttempt(v)
        BY <1>2, <4>1
      <4> QED BY <4>1, <4>3, <4>4 DEF IsAttempt
    <3>2. Patched(z[b])
      BY <1>2
    <3> QED BY <3>1, <3>2 DEF Patched
  <2> QED BY <2>1, <2>2
<1> QED BY <1>4, <1>5, PatchInvOf

LEMMA WritePatched ==
  ASSUME EditInv, PatchInv, NEW a \in Attempt, Write(a) PROVE PatchInv'
<1>1. CASE tree.repo \/ att[a].diff # Absent
  <2>1. PICK f, backup, edit : f = att[a].f /\ backup = att[a].backup /\ edit = Len(tree.edits) + 1
    OBVIOUS
  <2>2. PICK next : next = [New EXCEPT !.pc = "record", !.f = f, !.backup = backup, !.edit = edit]
    OBVIOUS
  <2>3. Put(a, att[a].new, next)
    BY <1>1, <2>1, <2>2 DEF Write
  <2>4. next.diff = Absent
    BY <2>2 DEF New
  <2>5. PICK text : text = att[a].new
    OBVIOUS
  <2> QED BY <2>3, <2>4, <2>5, PutPatched
<1>2. CASE ~(tree.repo \/ att[a].diff # Absent)
  BY <1>2, EndPatched DEF Write
<1> QED BY <1>1, <1>2

LEMMA CrashWritingPatched ==
  ASSUME EditInv, PatchInv, NEW a \in Attempt, CrashWriting(a) PROVE PatchInv'
<1>1. PICK next, text : next = [New EXCEPT !.pc = "dead"] /\ text = <<>>
  OBVIOUS
<1>2. Put(a, text, next)
  BY <1>1 DEF CrashWriting
<1>3. next.diff = Absent
  BY <1>1 DEF New
<1> QED BY <1>2, <1>3, PutPatched

LEMMA EndsPatched ==
  ASSUME EditInv, PatchInv, NEW a \in Attempt,
         Open(a) \/ ClearRepo(a) \/ EndCopy(a) \/ StoreRecord(a) \/ Stop(a) \/ Crash(a)
  PROVE  PatchInv'
<1>1. \E p : To(a, p)
  BY DEF Open, ClearRepo, EndCopy, StoreRecord, Stop, Crash
<1> QED BY <1>1, EndPatched

LEMMA NobodyPatches == ASSUME PatchInv, UNCHANGED att PROVE PatchInv'
<1>1. PICK y : y = att
  OBVIOUS
<1> QED BY <1>1, PatchInvOf DEF PatchInv

THEOREM PatchInductive == WorkspaceSpec => []PatchInv
<1>1. WorkspaceInit => PatchInv
  BY DEF WorkspaceInit, New, PatchInv, Patched
<1>2. EditInv /\ WholeInv(Seq(Line)) /\ PatchInv /\ [WorkspaceNext]_workspaceVars => PatchInv'
  <2> SUFFICES ASSUME EditInv, WholeInv(Seq(Line)), PatchInv, [WorkspaceNext]_workspaceVars
               PROVE  PatchInv'
    OBVIOUS
  <2>1. CASE \E a \in Attempt : AttemptStep(a)
    BY <2>1, EndsPatched, MakeRepoPatched, CopyFilePatched, BeginWritePatched,
       BeginPatchPatched, SaveOldPatched, WritePatched, CrashWritingPatched DEF AttemptStep
  <2>2. CASE Look \/ Snapshot \/ Restore \/ Cleanup \/ \E i \in DOMAIN tree.records : Rollback(i)
    BY <2>2, NobodyPatches DEF Look, Snapshot, Restore, Cleanup, Wipe, Rollback, Command
  <2>3. CASE EndRestore \/ EndCleanup \/ CommandDies
    BY <2>3, NobodyPatches DEF EndRestore, EndCleanup, CommandDies
  <2>4. CASE UNCHANGED workspaceVars
    BY <2>4, NobodyPatches DEF workspaceVars
  <2> QED BY <2>1, <2>2, <2>3, <2>4 DEF WorkspaceNext
<1> QED BY <1>1, <1>2, EditsInductive, WholeInductive, PTL DEF WorkspaceSpec

\* A diff that was made for the text the file holds, with the line numbers and the
\* lines it says, is applied to it by _apply_unified_diff without an error, and the
\* text that is written is the one the diff means, whatever happens meanwhile.
THEOREM PatchExact == WorkspaceSpec => []PatchIsExact
<1>1. PatchInv => PatchIsExact
  <2> SUFFICES ASSUME PatchInv, NEW a \in Attempt, att[a].diff # Absent,
                      MadeFor(att[a].diff, att[a].old)
               PROVE  att[a].new = Meant(att[a].diff, att[a].old)
    BY DEF PatchIsExact
  <2>1. PICK old, diff, new : old = att[a].old /\ diff = att[a].diff /\ new = att[a].new
    OBVIOUS
  <2>2. /\ diff \in Seq(Hunk) /\ old \in Seq(Line)
        /\ Apply(old, diff).ok => new = Apply(old, diff).text
    BY <2>1, TextsAssumption DEF PatchInv, Patched
  <2>3. MadeFor(diff, old)
    BY <2>1
  <2>4. Apply(old, diff).ok /\ Apply(old, diff).text = Meant(diff, old)
    BY <2>2, <2>3, DiffIsApplied
  <2>5. new = Meant(diff, old)
    BY <2>2, <2>4
  <2> QED BY <2>1, <2>5
<1> QED BY <1>1, PatchInductive, PTL
=============================================================================
