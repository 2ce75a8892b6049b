------------------------ MODULE SkillProposalsProofs ------------------------
(***************************************************************************)
(* Theorems about SkillProposals for any number of definitions, sessions   *)
(* and operations.                                                         *)
(***************************************************************************)
EXTENDS SkillProposals, TLAPS

Publishing == {"checking", "collecting", "committing"}

\* What a session has read, as far as it is still true.
Holds(t) == t.pc # "idle" =>
  /\ t.def \in Definition
  /\ t.pc \in Publishing => t.op \in {"sync", "review", "activate"}
  /\ t.pc \in Publishing /\ t.op = "review" => t.seen = "pending" /\ t.word = "pending"
  /\ t.op = "activate" => t.def \in accepted
  /\ t.pc \in {"rejecting", "accepting"} => t.seen = "pending"
  /\ t.pc = "rejecting" => t.word = "pending"
  /\ t.pc = "accepting" /\ t.word = "approved" =>
       approval[t.def] = "approved" \/ proposal[t.def] # "pending"
  /\ t.seen = "pending" => proposal[t.def] # "none"

\* A session about to publish compared its version with all there were, and if there are
\* no others by now it knows the active ones.
Compared(t) ==
  /\ t.pc = "checking" => t.new = FALSE
  /\ t.pc = "collecting" \/ (t.pc = "committing" /\ t.new = TRUE) =>
       t.tops \subseteq Published /\ \A v \in t.tops : v < t.def.version
  /\ t.pc = "committing" /\ t.new = TRUE => t.olds \subseteq Published
  /\ t.pc = "committing" /\ t.new = TRUE /\ t.tops = Published => t.olds = Active

\* A proposal, its approval and its verdicts.
ProposalInv(d) ==
  /\ proposal[d] \in {"none", "pending"} => d \notin accepted
  /\ proposal[d] \in {"approved", "applied", "activated"} => d \in accepted
  /\ d \notin raced =>
       /\ proposal[d] = "rejected" => d \notin accepted
       /\ d \in accepted => approval[d] = "approved"
       /\ approval[d] = "rejected" => proposal[d] = "rejected"

IInv ==
  /\ TypeOK
  /\ \A s \in Session : Holds(session[s]) /\ Compared(session[s])
  /\ \A d \in Definition : ProposalInv(d)
  /\ PublishedWasAccepted
  /\ NewestIsActive

LEMMA IdleState == Idle \in State /\ Holds(Idle) /\ Compared(Idle)
  BY DEF Idle, State, Holds, Compared

THEOREM Initially == Init => IInv
<1> SUFFICES ASSUME Init PROVE IInv
  OBVIOUS
<1>1. TypeOK
  BY IdleState DEF Init, TypeOK
<1>2. \A s \in Session : Holds(session[s]) /\ Compared(session[s])
  BY IdleState DEF Init
<1>3. \A d \in Definition : ProposalInv(d)
  BY DEF Init, ProposalInv
<1>4. Published = {} /\ Active = {}
  BY DEF Init, Published, Active
<1> QED
  BY <1>1, <1>2, <1>3, <1>4 DEF IInv, PublishedWasAccepted, NewestIsActive

Tables == <<skill, proposal, approval, direct, accepted, raced, crossed, clashed>>

\* A step in which one session goes on and no table is written.
LEMMA Quiet ==
  ASSUME IInv, UNCHANGED Tables, ops' \in Nat,
         NEW s \in Session, NEW t \in State, Holds(t), Compared(t),
         session' = [session EXCEPT ![s] = t]
  PROVE  IInv'
<1>1. TypeOK'
  BY DEF IInv, TypeOK, Tables
<1>2. Published' = Published /\ Active' = Active
  BY DEF Tables, Published, Active
<1>3. ASSUME NEW q \in Session PROVE (Holds(session[q]) /\ Compared(session[q]))'
  <2>1. Holds(session'[q]) /\ Compared(session'[q])
    BY DEF IInv, TypeOK
  <2> QED
    BY <1>2, <2>1 DEF Holds, Compared, Tables
<1>4. ASSUME NEW d \in Definition PROVE ProposalInv(d)'
  BY DEF IInv, ProposalInv, Tables
<1>5. PublishedWasAccepted' /\ NewestIsActive'
  BY <1>2 DEF IInv, PublishedWasAccepted, NewestIsActive, Tables
<1> QED
  BY <1>1, <1>3, <1>4, <1>5 DEF IInv

LEMMA LeaveStep ==
  ASSUME IInv, NEW s \in Session, Leave(s)
  PROVE  IInv'
<1>1. UNCHANGED Tables /\ ops' \in Nat /\ session' = [session EXCEPT ![s] = Idle]
  BY DEF Leave, Tables, IInv, TypeOK
<1> QED
  BY <1>1, IdleState, Quiet

\* What a session takes up must hold of what it has just read.
Taken(op, d, stage) ==
  [Idle EXCEPT !.pc = stage, !.op = op, !.def = d, !.seen = proposal[d], !.word = approval[d]]

LEMMA BeginStep ==
  ASSUME IInv, NEW s \in Session, NEW d \in Definition, NEW op, NEW stage,
         Begin(s, op, d, stage), Taken(op, d, stage) \in State,
         Holds(Taken(op, d, stage)), Compared(Taken(op, d, stage))
  PROVE  IInv'
<1> DEFINE t == Taken(op, d, stage)
<1>1. UNCHANGED Tables /\ ops' \in Nat /\ session' = [session EXCEPT ![s] = t]
  BY DEF Begin, Tables, Taken, IInv, TypeOK
<1>2. t \in State /\ Holds(t) /\ Compared(t)
  OBVIOUS
<1> HIDE DEF t
<1> QED
  BY <1>1, <1>2, Quiet

-----------------------------------------------------------------------------
(* Steps that write no table.                                              *)

LEMMA StartStep ==
  ASSUME IInv, NEW s \in Session, NEW d \in Definition,
         Sync(s, d) \/ Create(s, d) \/ Propose(s, d) \/ Review(s, d) \/ Accept(s, d) \/ Activate(s, d)
  PROVE  IInv'
<1>1. PICK op \in {"sync", "create", "propose", "review", "accept", "activate"},
           stage \in {"proposing", "inserting", "rejecting", "accepting", "checking"} :
        /\ Begin(s, op, d, stage)
        /\ stage = "checking" => op \in {"sync", "review", "activate"}
        /\ op = "review" => proposal[d] = "pending" /\ approval[d] = "pending"
        /\ op = "activate" => proposal[d] \in {"approved", "applied"}
        /\ stage = "rejecting" => op = "review"
        /\ stage = "accepting" => op = "accept" /\ proposal[d] = "pending"
  BY DEF Sync, Create, Propose, Review, Accept, Activate
<1>2. /\ proposal[d] \in ProposalStatus \cup {"none"}
      /\ approval[d] \in {"none", "pending", "approved", "rejected"}
  BY DEF IInv, TypeOK
<1> DEFINE t == Taken(op, d, stage)
<1>3. /\ t \in State /\ t.pc = stage /\ t.op = op /\ t.def = d
      /\ t.seen = proposal[d] /\ t.word = approval[d] /\ t.new = FALSE
  BY <1>2 DEF Taken, Idle, State
<1> HIDE DEF t
<1>4. op = "activate" => d \in accepted
  BY <1>1 DEF IInv, ProposalInv
<1>5. Holds(t)
  BY <1>1, <1>3, <1>4 DEF Holds, Publishing
<1>6. Compared(t)
  BY <1>3 DEF Compared
<1> QED
  BY <1>1, <1>3, <1>5, <1>6, BeginStep DEF t

LEMMA LookForPendingStep ==
  ASSUME IInv, NEW s \in Session, LookForPending(s)
  PROVE  IInv'
<1>1. CASE Leave(s)
  BY <1>1, LeaveStep
<1>2. CASE Goto(s, "inserting")
  <2> DEFINE t == [session[s] EXCEPT !.pc = "inserting"]
  <2>1. session[s] \in State /\ session[s].pc = "proposing"
        /\ Holds(session[s]) /\ Compared(session[s])
    BY DEF LookForPending, At, IInv, TypeOK
  <2>2. /\ t \in State /\ t.pc = "inserting" /\ t.op = session[s].op
        /\ t.def = session[s].def /\ t.seen = session[s].seen
    BY <2>1 DEF State
  <2>3. UNCHANGED Tables /\ ops' \in Nat /\ session' = [session EXCEPT ![s] = t]
    BY <1>2 DEF Goto, Tables, IInv, TypeOK
  <2> HIDE DEF t
  <2>4. Holds(t) /\ Compared(t)
    BY <2>1, <2>2 DEF Holds, Compared, Publishing
  <2> QED
    BY <2>2, <2>3, <2>4, Quiet
<1> QED
  BY <1>1, <1>2 DEF LookForPending

LEMMA CheckStep ==
  ASSUME IInv, NEW s \in Session, Check(s)
  PROVE  IInv'
<1>1. session[s] \in State /\ session[s].pc = "checking" /\ session[s].new = FALSE
      /\ Holds(session[s])
  BY DEF Check, At, IInv, TypeOK, Compared
<1>2. Mine(s) \in Definition
  BY <1>1 DEF Holds, Mine
<1>3. CASE Goto(s, "committing")
  <2> DEFINE t == [session[s] EXCEPT !.pc = "committing"]
  <2>1. /\ t \in State /\ t.pc = "committing" /\ t.op = session[s].op /\ t.word = session[s].word
        /\ t.def = session[s].def /\ t.seen = session[s].seen /\ t.new = FALSE
    BY <1>1 DEF State
  <2>2. UNCHANGED Tables /\ ops' \in Nat /\ session' = [session EXCEPT ![s] = t]
    BY <1>3 DEF Goto, Tables, IInv, TypeOK
  <2> HIDE DEF t
  <2>3. Holds(t) /\ Compared(t)
    BY <1>1, <2>1 DEF Holds, Compared, Publishing
  <2> QED
    BY <2>1, <2>2, <2>3, Quiet
<1>4. CASE Leave(s)
  BY <1>4, LeaveStep
<1>5. CASE /\ Newer(Mine(s))
           /\ session' = [session EXCEPT ![s] = [@ EXCEPT !.pc = "collecting", !.tops = Published]]
           /\ UNCHANGED <<skill, proposal, approval, ops, direct, accepted, raced, crossed, clashed>>
  <2> DEFINE t == [session[s] EXCEPT !.pc = "collecting", !.tops = Published]
  <2>1. /\ t \in State /\ t.pc = "collecting" /\ t.op = session[s].op /\ t.word = session[s].word
        /\ t.def = session[s].def /\ t.seen = session[s].seen /\ t.tops = Published
    BY <1>1 DEF State, Published
  <2>2. UNCHANGED Tables /\ ops' \in Nat /\ session' = [session EXCEPT ![s] = t]
    BY <1>5 DEF Tables, IInv, TypeOK
  <2> HIDE DEF t
  <2>3. Holds(t)
    BY <1>1, <2>1 DEF Holds, Publishing
  <2>4. Compared(t)
    BY <1>5, <2>1 DEF Compared, Newer, Mine
  <2> QED
    BY <2>1, <2>2, <2>3, <2>4, Quiet
<1> QED
  BY <1>3, <1>4, <1>5 DEF Check

LEMMA CollectStep ==
  ASSUME IInv, NEW s \in Session, Collect(s)
  PROVE  IInv'
<1> DEFINE t == [session[s] EXCEPT !.pc = "committing", !.new = TRUE, !.olds = Active]
<1>1. session[s] \in State /\ session[s].pc = "collecting"
      /\ Holds(session[s]) /\ Compared(session[s])
  BY DEF Collect, At, IInv, TypeOK
<1>2. /\ t \in State /\ t.pc = "committing" /\ t.op = session[s].op /\ t.word = session[s].word
      /\ t.def = session[s].def /\ t.seen = session[s].seen /\ t.tops = session[s].tops
      /\ t.olds = Active
  BY <1>1 DEF State, Active
<1>3. UNCHANGED Tables /\ ops' \in Nat /\ session' = [session EXCEPT ![s] = t]
  BY DEF Collect, Tables, IInv, TypeOK
<1> HIDE DEF t
<1>4. Holds(t) /\ Compared(t)
  BY <1>1, <1>2 DEF Holds, Compared, Publishing, Active, Published
<1> QED
  BY <1>2, <1>3, <1>4, Quiet

LEMMA DieStep ==
  ASSUME IInv, NEW s \in Session, Die(s)
  PROVE  IInv'
  BY LeaveStep DEF Die

-----------------------------------------------------------------------------
(* Steps that write the tables.                                            *)

\* What the tables must keep for the sessions that have read them.
LEMMA SessionsKept ==
  ASSUME IInv,
         \A q \in Session : session'[q] \in {session[q], Idle},
         accepted \subseteq accepted',
         \A d \in Definition : proposal[d] # "none" =>
           /\ proposal'[d] # "none"
           /\ approval[d] = "approved" \/ proposal[d] # "pending" =>
                approval'[d] = "approved" \/ proposal'[d] # "pending",
         Published \subseteq Published',
         Published' = Published => Active' = Active
  PROVE  \A q \in Session : (Holds(session[q]) /\ Compared(session[q]))'
<1> SUFFICES ASSUME NEW q \in Session
             PROVE  (Holds(session[q]) /\ Compared(session[q]))'
  OBVIOUS
<1>1. CASE session'[q] = Idle
  BY <1>1 DEF Holds, Compared, Idle
<1>2. CASE session'[q] = session[q]
  <2>1. Holds(session[q]) /\ Compared(session[q])
    BY DEF IInv
  <2>2. Holds(session[q])'
    BY <1>2, <2>1 DEF Holds, Publishing
  <2>3. Compared(session[q])'
    BY <1>2, <2>1 DEF Compared
  <2> QED
    BY <2>2, <2>3
<1> QED
  BY <1>1, <1>2

LEMMA InsertStep ==
  ASSUME IInv, NEW s \in Session, Insert(s)
  PROVE  IInv'
<1> DEFINE d == Mine(s)
<1>1. d \in Definition /\ session[s] \in State
  BY DEF IInv, TypeOK, Holds, Insert, At, Mine
<1>2. /\ session' = [session EXCEPT ![s] = Idle]
      /\ UNCHANGED <<skill, ops, direct, accepted, raced, crossed>>
      /\ \/ UNCHANGED <<proposal, approval>>
         \/ /\ proposal[d] = "none"
            /\ proposal' = [proposal EXCEPT ![d] = "pending"]
            /\ approval' = [approval EXCEPT ![d] = "pending"]
      /\ clashed' \in {clashed, clashed \cup {<<d, proposal[d]>>}}
      /\ clashed' = clashed \/ proposal[d] \in ProposalStatus
  BY <1>1 DEF Insert, IInv, TypeOK
<1> HIDE DEF d
<1>3. TypeOK'
  BY <1>1, <1>2, IdleState DEF IInv, TypeOK, ProposalStatus
<1>4. Published' = Published /\ Active' = Active
  BY <1>2 DEF Published, Active
<1>5. \A q \in Session : (Holds(session[q]) /\ Compared(session[q]))'
  <2>1. \A q \in Session : session'[q] \in {session[q], Idle}
    BY <1>2 DEF IInv, TypeOK
  <2>2. \A e \in Definition : proposal[e] # "none" =>
          proposal'[e] = proposal[e] /\ approval'[e] = approval[e]
    BY <1>1, <1>2 DEF IInv, TypeOK
  <2> QED
    BY <1>2, <1>4, <2>1, <2>2, SessionsKept
<1>6. ASSUME NEW e \in Definition PROVE ProposalInv(e)'
  BY <1>1, <1>2 DEF IInv, TypeOK, ProposalInv
<1>7. PublishedWasAccepted' /\ NewestIsActive'
  BY <1>2, <1>4 DEF IInv, PublishedWasAccepted, NewestIsActive
<1> QED
  BY <1>3, <1>5, <1>6, <1>7 DEF IInv

LEMMA ApproveStep ==
  ASSUME IInv, NEW d \in Definition, Approve(d)
  PROVE  IInv'
<1>1. /\ approval' = [approval EXCEPT ![d] = "approved"]
      /\ UNCHANGED <<skill, proposal, session, ops, direct, accepted, raced, crossed, clashed>>
  BY DEF Approve
<1>2. TypeOK'
  BY <1>1 DEF IInv, TypeOK
<1>3. Published' = Published /\ Active' = Active
  BY <1>1 DEF Published, Active
<1>4. \A q \in Session : (Holds(session[q]) /\ Compared(session[q]))'
  <2>1. \A e \in Definition : approval'[e] \in {approval[e], "approved"}
    BY <1>1 DEF IInv, TypeOK
  <2> QED
    BY <1>1, <1>3, <2>1, SessionsKept
<1>5. ASSUME NEW e \in Definition PROVE ProposalInv(e)'
  BY <1>1 DEF IInv, TypeOK, ProposalInv
<1>6. PublishedWasAccepted' /\ NewestIsActive'
  BY <1>1, <1>3 DEF IInv, PublishedWasAccepted, NewestIsActive
<1> QED
  BY <1>2, <1>4, <1>5, <1>6 DEF IInv

\* A verdict that was given over a pending proposal keeps proposals, approvals and
\* verdicts together.
LEMMA ConcludeStep ==
  ASSUME IInv, NEW s \in Session,
         NEW verdict, NEW word, Conclude(s, verdict, word),
         session[s].pc # "idle", session[s].seen = "pending",
         <<verdict, word>> \in {<<"rejected", "rejected">>, <<"approved", "approved">>,
                                <<"applied", "approved">>},
         session[s].word = word => word = "approved" /\
           (approval[Mine(s)] = "approved" \/ proposal[Mine(s)] # "pending")
  PROVE  /\ proposal' \in [Definition -> ProposalStatus \cup {"none"}]
         /\ approval' \in [Definition -> {"none", "pending", "approved", "rejected"}]
         /\ session' \in [Session -> State]
         /\ accepted' \subseteq Definition /\ raced' \subseteq Definition
         /\ accepted \subseteq accepted'
         /\ verdict = "applied" => Mine(s) \in accepted'
         /\ \A q \in Session : session'[q] \in {session[q], Idle}
         /\ \A d \in Definition : proposal[d] # "none" =>
              /\ proposal'[d] # "none"
              /\ approval[d] = "approved" \/ proposal[d] # "pending" =>
                   approval'[d] = "approved" \/ proposal'[d] # "pending"
         /\ \A d \in Definition : ProposalInv(d)'
<1>1. PICK d \in Definition : d = Mine(s)
  BY DEF IInv, Holds, Mine
<1>2. /\ proposal \in [Definition -> ProposalStatus \cup {"none"}]
      /\ approval \in [Definition -> {"none", "pending", "approved", "rejected"}]
      /\ accepted \subseteq Definition /\ raced \subseteq Definition
      /\ session \in [Session -> State]
  BY DEF IInv, TypeOK
<1>3. /\ proposal' = [proposal EXCEPT ![d] = verdict]
      /\ \/ approval' = [approval EXCEPT ![d] = word]
         \/ approval' = approval /\ word = "approved"
            /\ (approval[d] = "approved" \/ proposal[d] # "pending")
      /\ raced' = IF proposal[d] = "pending" THEN raced ELSE raced \cup {d}
      /\ accepted' = IF word = "approved" THEN accepted \cup {d} ELSE accepted
      /\ session' = [session EXCEPT ![s] = Idle]
  BY <1>1 DEF Conclude
<1>4. verdict \in {"rejected", "approved", "applied"} /\ word \in {"rejected", "approved"}
      /\ (verdict = "rejected" <=> word = "rejected")
  OBVIOUS
<1>5. session' \in [Session -> State] /\ \A q \in Session : session'[q] \in {session[q], Idle}
  BY <1>2, <1>3, IdleState
<1>6. /\ proposal' \in [Definition -> ProposalStatus \cup {"none"}]
      /\ approval' \in [Definition -> {"none", "pending", "approved", "rejected"}]
  BY <1>1, <1>2, <1>3, <1>4 DEF ProposalStatus
<1>7. /\ accepted' \subseteq Definition /\ raced' \subseteq Definition
      /\ accepted \subseteq accepted' /\ (verdict = "applied" => d \in accepted')
  BY <1>1, <1>2, <1>3, <1>4
<1>8. ASSUME NEW e \in Definition, e # d
      PROVE  /\ proposal'[e] = proposal[e] /\ approval'[e] = approval[e]
             /\ (e \in accepted' <=> e \in accepted) /\ (e \in raced' <=> e \in raced)
  BY <1>1, <1>2, <1>3, <1>8
<1>9. proposal'[d] = verdict
  BY <1>1, <1>2, <1>3
<1>10. ProposalInv(d)'
  <2>1. word = "approved" => d \in accepted'
    BY <1>3
  <2>2. ASSUME d \notin raced' PROVE proposal[d] = "pending" /\ approval'[d] = word
    BY <1>1, <1>2, <1>3, <2>2
  <2>3. ASSUME d \notin raced', word = "rejected" PROVE d \notin accepted'
    BY <1>1, <1>3, <2>2, <2>3 DEF IInv, ProposalInv
  <2> QED
    BY <1>4, <1>9, <2>1, <2>2, <2>3 DEF ProposalInv
<1>11. ASSUME NEW e \in Definition PROVE ProposalInv(e)'
  BY <1>8, <1>10 DEF IInv, ProposalInv
<1>12. ASSUME NEW e \in Definition, proposal[e] # "none"
       PROVE  /\ proposal'[e] # "none"
              /\ approval[e] = "approved" \/ proposal[e] # "pending" =>
                   approval'[e] = "approved" \/ proposal'[e] # "pending"
  BY <1>4, <1>8, <1>9, <1>12
<1> QED
  BY <1>1, <1>5, <1>6, <1>7, <1>11, <1>12

LEMMA VerdictStep ==
  ASSUME IInv, NEW s \in Session, CommitReject(s) \/ CommitAccept(s)
  PROVE  IInv'
<1>1. PICK verdict \in {"rejected", "approved"} :
        /\ session[s].pc \in {"rejecting", "accepting"}
        /\ verdict = "rejected" <=> session[s].pc = "rejecting"
        /\ Conclude(s, verdict, verdict)
        /\ UNCHANGED <<skill, ops, direct, crossed, clashed>>
  BY DEF CommitReject, CommitAccept, At
<1>2. /\ session[s].seen = "pending"
      /\ session[s].word = verdict => verdict = "approved" /\
           (approval[Mine(s)] = "approved" \/ proposal[Mine(s)] # "pending")
  BY <1>1 DEF IInv, Holds, Mine
<1>3. /\ proposal' \in [Definition -> ProposalStatus \cup {"none"}]
      /\ approval' \in [Definition -> {"none", "pending", "approved", "rejected"}]
      /\ session' \in [Session -> State]
      /\ accepted' \subseteq Definition /\ raced' \subseteq Definition
      /\ accepted \subseteq accepted'
      /\ \A q \in Session : session'[q] \in {session[q], Idle}
      /\ \A d \in Definition : proposal[d] # "none" =>
           /\ proposal'[d] # "none"
           /\ approval[d] = "approved" \/ proposal[d] # "pending" =>
                approval'[d] = "approved" \/ proposal'[d] # "pending"
      /\ \A d \in Definition : ProposalInv(d)'
  BY <1>1, <1>2, ConcludeStep
<1>4. TypeOK'
  BY <1>1, <1>3 DEF IInv, TypeOK
<1>5. Published' = Published /\ Active' = Active
  BY <1>1 DEF Published, Active
<1>6. \A q \in Session : (Holds(session[q]) /\ Compared(session[q]))'
  BY <1>3, <1>5, SessionsKept
<1>7. PublishedWasAccepted' /\ NewestIsActive'
  BY <1>1, <1>3, <1>5 DEF IInv, PublishedWasAccepted, NewestIsActive
<1> QED
  BY <1>3, <1>4, <1>6, <1>7 DEF IInv

\* The skills after a publication.
LEMMA PublishedStep ==
  ASSUME IInv, NEW s \in Session, NEW v \in Version,
         session[s].pc = "committing", session[s].new = TRUE,
         v = Mine(s).version, Mine(s) \in Definition, v \notin Published,
         skill' = Replaced(s), crossed' = (crossed \/ Published # session[s].tops)
  PROVE  /\ skill' \in [Version -> [def : Definition \cup {None},
                                    status : {"none", "active", "superseded"}]]
         /\ Published' = Published \cup {v}
         /\ skill'[v].def = Mine(s)
         /\ \A w \in Published : skill'[w].def = skill[w].def
         /\ NewestIsActive'
<1>1. /\ skill \in [Version -> [def : Definition \cup {None},
                                status : {"none", "active", "superseded"}]]
      /\ session[s].olds \subseteq Published
      /\ session[s].tops = Published => session[s].olds = Active
      /\ \A w \in session[s].tops : w < v
  BY DEF IInv, TypeOK, Compared, Mine
<1>2. /\ skill' \in [Version -> [def : Definition \cup {None},
                                 status : {"none", "active", "superseded"}]]
      /\ skill'[v].def = Mine(s) /\ skill'[v].status = "active"
  BY <1>1 DEF Replaced
<1>3. ASSUME NEW w \in Version, w # v
      PROVE  /\ skill'[w].def = skill[w].def
             /\ skill'[w].status = IF w \in session[s].olds THEN "superseded" ELSE skill[w].status
  BY <1>1, <1>3 DEF Replaced
<1>4. Published' = Published \cup {v}
  BY <1>1, <1>2, <1>3 DEF Published
<1>5. \A w \in Published : skill'[w].def = skill[w].def
  BY <1>3 DEF Published
<1>6. NewestIsActive'
  <2> SUFFICES ASSUME crossed' = FALSE
               PROVE  Active' = {x \in Published' : \A w \in Published' : w <= x}
    BY DEF NewestIsActive
  <2>1. session[s].tops = Published
    OBVIOUS
  <2>2. Active' = {v}
    BY <1>1, <1>2, <1>3, <2>1 DEF Active, Published
  <2>3. v \in Nat /\ \A w \in Published : w \in Nat /\ w < v
    BY <1>1, <2>1, SkillAssumption DEF Version, Published
  <2>4. {x \in Published \cup {v} : \A w \in Published \cup {v} : w <= x} = {v}
    BY <2>3
  <2> QED
    BY <1>4, <2>2, <2>4
<1> QED
  BY <1>2, <1>4, <1>5, <1>6

\* What the commit of a publication does to the proposal and its approval.
LEMMA ConcludedByCommit ==
  ASSUME IInv, NEW s \in Session, Commit(s), ~Leave(s)
  PROVE  /\ proposal' \in [Definition -> ProposalStatus \cup {"none"}]
         /\ approval' \in [Definition -> {"none", "pending", "approved", "rejected"}]
         /\ session' \in [Session -> State]
         /\ accepted' \subseteq Definition /\ raced' \subseteq Definition
         /\ accepted \subseteq accepted'
         /\ session[s].op # "sync" => Mine(s) \in accepted'
         /\ \A q \in Session : session'[q] \in {session[q], Idle}
         /\ \A d \in Definition : proposal[d] # "none" =>
              /\ proposal'[d] # "none"
              /\ approval[d] = "approved" \/ proposal[d] # "pending" =>
                   approval'[d] = "approved" \/ proposal'[d] # "pending"
         /\ \A d \in Definition : ProposalInv(d)'
<1>1. /\ session[s].pc = "committing" /\ session[s].op \in {"sync", "review", "activate"}
      /\ session[s].op = "review" => session[s].seen = "pending" /\ session[s].word = "pending"
      /\ session[s].op = "activate" => Mine(s) \in accepted
      /\ Mine(s) \in Definition
  BY DEF Commit, At, IInv, Holds, Publishing, Mine
<1>2. /\ proposal \in [Definition -> ProposalStatus \cup {"none"}]
      /\ approval \in [Definition -> {"none", "pending", "approved", "rejected"}]
      /\ accepted \subseteq Definition /\ raced \subseteq Definition
      /\ session \in [Session -> State]
  BY DEF IInv, TypeOK
<1>3. CASE session[s].op = "sync"
  <2>1. session' = [session EXCEPT ![s] = Idle] /\ UNCHANGED <<proposal, approval, accepted, raced>>
    BY <1>3 DEF Commit
  <2>2. \A d \in Definition : ProposalInv(d)'
    BY <2>1 DEF IInv, ProposalInv
  <2> QED
    BY <1>2, <1>3, <2>1, <2>2, IdleState
<1>4. CASE session[s].op = "review"
  <2>1. Conclude(s, "applied", "approved")
    BY <1>4 DEF Commit
  <2> DEFINE verdict == "applied"
             word == "approved"
  <2>2. /\ session[s].pc # "idle" /\ session[s].seen = "pending"
        /\ session[s].word # word
        /\ <<verdict, word>> \in {<<"rejected", "rejected">>, <<"approved", "approved">>,
                                  <<"applied", "approved">>}
    BY <1>1, <1>4
  <2>3. Conclude(s, verdict, word)
    BY <2>1
  <2> QED
    BY <1>4, <2>2, <2>3, ConcludeStep
<1>5. CASE session[s].op = "activate"
  <2>1. PICK e \in Definition : e = Mine(s)
    BY <1>1
  <2>2. /\ proposal' = [proposal EXCEPT ![e] = "activated"]
        /\ session' = [session EXCEPT ![s] = Idle]
        /\ UNCHANGED <<approval, accepted, raced>>
    BY <1>5, <2>1 DEF Commit
  <2>3. e \in accepted
    BY <1>1, <1>5, <2>1
  <2>4. ASSUME NEW d \in Definition PROVE ProposalInv(d)'
    BY <1>2, <2>2, <2>3 DEF IInv, ProposalInv
  <2>5. /\ proposal' \in [Definition -> ProposalStatus \cup {"none"}]
        /\ session' \in [Session -> State]
        /\ \A q \in Session : session'[q] \in {session[q], Idle}
    BY <1>2, <2>2, IdleState DEF ProposalStatus
  <2>6. \A d \in Definition : proposal'[d] \in {proposal[d], "activated"}
    BY <1>2, <2>2
  <2> QED
    BY <1>2, <2>1, <2>2, <2>3, <2>4, <2>5, <2>6
<1> QED
  BY <1>1, <1>3, <1>4, <1>5

LEMMA CommitStep ==
  ASSUME IInv, NEW s \in Session, Commit(s)
  PROVE  IInv'
<1>1. CASE Leave(s)
  BY <1>1, LeaveStep
<1>2. CASE ~Leave(s)
  <2>1. /\ session[s].pc = "committing" /\ session[s].new \in BOOLEAN
        /\ Mine(s) \in Definition /\ Mine(s).version \in Version
    BY DEF Commit, At, IInv, TypeOK, State, Holds, Mine, Version
  <2>2. /\ proposal' \in [Definition -> ProposalStatus \cup {"none"}]
        /\ approval' \in [Definition -> {"none", "pending", "approved", "rejected"}]
        /\ session' \in [Session -> State]
        /\ accepted' \subseteq Definition /\ raced' \subseteq Definition
        /\ accepted \subseteq accepted'
        /\ session[s].op # "sync" => Mine(s) \in accepted'
        /\ \A q \in Session : session'[q] \in {session[q], Idle}
        /\ \A d \in Definition : proposal[d] # "none" =>
             /\ proposal'[d] # "none"
             /\ approval[d] = "approved" \/ proposal[d] # "pending" =>
                  approval'[d] = "approved" \/ proposal'[d] # "pending"
        /\ \A d \in Definition : ProposalInv(d)'
    BY <1>2, ConcludedByCommit
  <2>3. UNCHANGED <<ops, clashed>>
    BY <1>2 DEF Commit
  <2>4. CASE session[s].new = FALSE
    <3>1. UNCHANGED <<skill, crossed, direct>>
      BY <1>2, <2>4 DEF Commit
    <3>2. Published' = Published /\ Active' = Active
      BY <3>1 DEF Published, Active
    <3>3. TypeOK'
      BY <2>2, <2>3, <3>1 DEF IInv, TypeOK
    <3>4. \A q \in Session : (Holds(session[q]) /\ Compared(session[q]))'
      BY <2>2, <3>2, SessionsKept
    <3>5. PublishedWasAccepted' /\ NewestIsActive'
      BY <2>2, <3>1, <3>2 DEF IInv, PublishedWasAccepted, NewestIsActive
    <3> QED
      BY <2>2, <3>3, <3>4, <3>5 DEF IInv
  <2>5. CASE session[s].new = TRUE
    <3>1. PICK v \in Version : v = Mine(s).version
      BY <2>1
    <3>2. /\ v \notin Published /\ skill' = Replaced(s)
          /\ crossed' = (crossed \/ Published # session[s].tops)
          /\ direct' = IF session[s].op = "sync" THEN direct \cup {v} ELSE direct
      BY <1>2, <2>5, <3>1 DEF Commit
    <3>3. /\ skill' \in [Version -> [def : Definition \cup {None},
                                     status : {"none", "active", "superseded"}]]
          /\ Published' = Published \cup {v}
          /\ skill'[v].def = Mine(s)
          /\ \A w \in Published : skill'[w].def = skill[w].def
          /\ NewestIsActive'
      BY <2>1, <2>5, <3>1, <3>2, PublishedStep
    <3>4. TypeOK'
      <4>1. crossed' \in BOOLEAN
        BY <3>2
      <4>2. direct' \subseteq Version
        BY <3>2 DEF IInv, TypeOK
      <4> QED
        BY <2>2, <2>3, <3>3, <4>1, <4>2 DEF IInv, TypeOK
    <3>5. \A q \in Session : (Holds(session[q]) /\ Compared(session[q]))'
      <4>1. Published \subseteq Published' /\ Published' # Published
        BY <3>2, <3>3
      <4> QED
        BY <2>2, <4>1, SessionsKept
    <3>6. PublishedWasAccepted'
      <4> SUFFICES ASSUME NEW w \in Published' \ direct'
                   PROVE  skill'[w].def \in accepted'
        BY DEF PublishedWasAccepted
      <4>1. CASE w = v
        BY <2>2, <3>2, <3>3, <4>1
      <4>2. CASE w # v
        <5>1. w \in Published \ direct
          BY <3>2, <3>3, <4>2
        <5> QED
          BY <2>2, <3>3, <5>1 DEF IInv, PublishedWasAccepted
      <4> QED
        BY <4>1, <4>2
    <3> QED
      BY <2>2, <3>3, <3>4, <3>5, <3>6 DEF IInv
  <2> QED
    BY <2>1, <2>4, <2>5
<1> QED
  BY <1>1, <1>2

-----------------------------------------------------------------------------
(* The theorems.                                                           *)

LEMMA Stuttering ==
  ASSUME IInv, UNCHANGED vars
  PROVE  IInv'
<1>1. Published' = Published /\ Active' = Active
  BY DEF vars, Published, Active
<1>2. TypeOK'
  BY DEF IInv, TypeOK, vars
<1>3. \A q \in Session : (Holds(session[q]) /\ Compared(session[q]))'
  BY <1>1, SessionsKept DEF vars
<1>4. ASSUME NEW d \in Definition PROVE ProposalInv(d)'
  BY DEF IInv, ProposalInv, vars
<1>5. PublishedWasAccepted' /\ NewestIsActive'
  BY <1>1 DEF IInv, PublishedWasAccepted, NewestIsActive, vars
<1> QED
  BY <1>2, <1>3, <1>4, <1>5 DEF IInv

\* Every step of every session keeps the invariant.
THEOREM Inductive == IInv /\ [Next]_vars => IInv'
<1> SUFFICES ASSUME IInv, [Next]_vars PROVE IInv'
  OBVIOUS
<1>1. ASSUME NEW s \in Session, Step(s) PROVE IInv'
  BY <1>1, LookForPendingStep, InsertStep, VerdictStep, CheckStep, CollectStep, CommitStep DEF Step
<1>2. ASSUME NEW s \in Session, Die(s) PROVE IInv'
  BY <1>2, DieStep
<1>3. ASSUME NEW s \in Session, NEW d \in Definition,
             \/ Sync(s, d) \/ Create(s, d) \/ Propose(s, d)
             \/ Review(s, d) \/ Accept(s, d) \/ Activate(s, d)
      PROVE  IInv'
  BY <1>3, StartStep
<1>4. ASSUME NEW d \in Definition, Approve(d) PROVE IInv'
  BY <1>4, ApproveStep
<1>5. CASE UNCHANGED vars
  BY <1>5, Stuttering
<1> QED
  BY <1>1, <1>2, <1>3, <1>4, <1>5 DEF Next

LEMMA Invariant == Spec => []IInv
<1> QED
  BY Initially, Inductive, PTL DEF Spec

\* The tables and the sessions keep their types.
THEOREM TypeCorrect == Spec => []TypeOK
<1>1. IInv => TypeOK
  BY DEF IInv
<1> QED
  BY <1>1, Invariant, PTL

\* A version that did not come from a first sync was accepted by somebody before it was
\* published, whatever overlaps or crashes.
THEOREM Accepted == Spec => []PublishedWasAccepted
<1>1. IInv => PublishedWasAccepted
  BY DEF IInv
<1> QED
  BY <1>1, Invariant, PTL

\* A rejected proposal was not accepted, unless two verdicts overlapped.
THEOREM OneVerdict == Spec => []VerdictIsOne
<1>1. IInv => VerdictIsOne
  BY DEF IInv, ProposalInv, VerdictIsOne
<1> QED
  BY <1>1, Invariant, PTL

\* The approvals table agrees with the verdicts, unless two of them overlapped.
THEOREM Agrees == Spec => []ApprovalAgrees
<1>1. IInv => ApprovalAgrees
  BY DEF IInv, ProposalInv, ApprovalAgrees
<1> QED
  BY <1>1, Invariant, PTL

\* Exactly the newest version is active, unless two publications overlapped.
THEOREM Newest == Spec => []NewestIsActive
<1>1. IInv => NewestIsActive
  BY DEF IInv
<1> QED
  BY <1>1, Invariant, PTL

=============================================================================
