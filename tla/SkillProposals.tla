--------------------------- MODULE SkillProposals ---------------------------
(***************************************************************************)
(* The versions of one skill of a workspace, their proposals and the       *)
(* approvals of these: db/skill_service.py, the skill part of              *)
(* services/agent_learning_service.py and the commands of the gateway that *)
(* call it.  There are two ways to a new version, and they share tables:   *)
(* review_skill_proposal accepts and publishes in one transaction, while   *)
(* /skills approve only accepts and activate_skill_proposal publishes.     *)
(* Every run of an agent synchronises the skill files with the tables      *)
(* first.  No transaction locks what it reads, so what was read may be     *)
(* stale when the transaction commits; unique constraints are what is left. *)
(***************************************************************************)
EXTENDS Integers, FiniteSets

CONSTANTS
  Definition,  \* definitions of the skill in files and requests
  Session,     \* database sessions at work at the same time
  MaxOps,      \* bound: operations started
  None

\* A definition is its version and the hash of its content.
ASSUME SkillAssumption ==
  /\ \A d \in Definition : d.version \in Nat \ {0}
  /\ MaxOps \in Nat
  /\ None \notin Definition

Version == {d.version : d \in Definition}

VARIABLES
  skill,     \* skills, unique in the version: its definition and its status
  proposal,  \* skill_proposals, unique in version and hash: the status
  approval,  \* approvals: the status of the one that goes with a proposal
  session,   \* per session: what it does, and what it has read
  ops,       \* operations started
  direct,    \* history: versions published by a sync because there was none
  accepted,  \* history: proposals that somebody accepted
  raced,     \* history: proposals with a verdict over a status it had not seen
  crossed,   \* history: a version was published over skills it had not seen
  clashed    \* history: proposals, with their status, that a sync wanted to insert again

vars == <<skill, proposal, approval, session, ops, direct, accepted, raced, crossed, clashed>>

ProposalStatus == {"pending", "approved", "rejected", "applied", "activated"}

State == [
  pc   : {"idle", "proposing", "inserting", "rejecting", "accepting",
          "checking", "collecting", "committing"},
  op   : {"sync", "create", "propose", "review", "accept", "activate"},
  def  : Definition \cup {None},
  seen : ProposalStatus \cup {"none"},                  \* the proposal's status
  word : {"none", "pending", "approved", "rejected"},   \* its approval's status
  new  : BOOLEAN,             \* the version is to be inserted
  tops : SUBSET Version,      \* the versions there were when it compared its own
  olds : SUBSET Version]      \* the active versions it is going to supersede

TypeOK ==
  /\ skill \in [Version -> [def : Definition \cup {None},
                            status : {"none", "active", "superseded"}]]
  /\ proposal \in [Definition -> ProposalStatus \cup {"none"}]
  /\ approval \in [Definition -> {"none", "pending", "approved", "rejected"}]
  /\ session \in [Session -> State]
  /\ ops \in Nat
  /\ direct \subseteq Version
  /\ accepted \subseteq Definition
  /\ raced \subseteq Definition
  /\ crossed \in BOOLEAN
  /\ clashed \subseteq Definition \X ProposalStatus

Idle == [pc |-> "idle", op |-> "sync", def |-> None, seen |-> "none", word |-> "none",
         new |-> FALSE, tops |-> {}, olds |-> {}]

Init ==
  /\ skill = [v \in Version |-> [def |-> None, status |-> "none"]]
  /\ proposal = [d \in Definition |-> "none"]
  /\ approval = [d \in Definition |-> "none"]
  /\ session = [s \in Session |-> Idle]
  /\ ops = 0
  /\ direct = {} /\ accepted = {} /\ raced = {} /\ clashed = {}
  /\ crossed = FALSE

At(s, stage) == session[s].pc = stage
Mine(s) == session[s].def
Published == {v \in Version : skill[v].status # "none"}
Active    == {v \in Version : skill[v].status = "active"}
Newer(d)  == \A v \in Published : v < d.version

\* A session takes up an operation on a definition, and reads its proposal and approval.
Begin(s, op, d, stage) ==
  /\ At(s, "idle")
  /\ ops < MaxOps
  /\ ops' = ops + 1
  /\ session' = [session EXCEPT ![s] = [Idle EXCEPT !.pc = stage, !.op = op, !.def = d,
                                         !.seen = proposal[d], !.word = approval[d]]]
  /\ UNCHANGED <<skill, proposal, approval, direct, accepted, raced, crossed, clashed>>

Goto(s, stage) ==
  /\ session' = [session EXCEPT ![s].pc = stage]
  /\ UNCHANGED <<skill, proposal, approval, ops, direct, accepted, raced, crossed, clashed>>

\* The transaction is rolled back: by an exception, a crash, or since all is as it should be.
Leave(s) ==
  /\ session' = [session EXCEPT ![s] = Idle]
  /\ UNCHANGED <<skill, proposal, approval, ops, direct, accepted, raced, crossed, clashed>>

-----------------------------------------------------------------------------
(* Definitions come in.                                                    *)

\* sync_skills_from_directory, one file: the first version is published as it is,
\* a newer one is proposed.  A known version is left alone, or refused if it differs.
Sync(s, d) ==
  /\ d.version \notin Published
  /\ Newer(d)
  /\ Begin(s, "sync", d, IF Published = {} THEN "checking" ELSE "proposing")

\* create_skill_proposal refuses or returns what is known, and proposes the rest.
Create(s, d) ==
  /\ d.version \notin Published
  /\ Newer(d)
  /\ Begin(s, "create", d, "proposing")

\* propose_skill_update looks at nothing.
Propose(s, d) == Begin(s, "propose", d, "inserting")

\* A pending proposal of the same content is found, or it is not.
LookForPending(s) ==
  /\ At(s, "proposing")
  /\ IF proposal[Mine(s)] = "pending" THEN Leave(s) ELSE Goto(s, "inserting")

\* The proposal and its approval are inserted, unless there is one with this version
\* and hash, whatever its status: then the unique constraint raises.
Insert(s) ==
  LET d == Mine(s)
  IN /\ At(s, "inserting")
     /\ IF proposal[d] = "none"
        THEN /\ proposal' = [proposal EXCEPT ![d] = "pending"]
             /\ approval' = [approval EXCEPT ![d] = "pending"]
             /\ UNCHANGED clashed
        ELSE /\ clashed' = IF session[s].op = "sync" THEN clashed \cup {<<d, proposal[d]>>}
                           ELSE clashed
             /\ UNCHANGED <<proposal, approval>>
     /\ session' = [session EXCEPT ![s] = Idle]
     /\ UNCHANGED <<skill, ops, direct, accepted, raced, crossed>>

-----------------------------------------------------------------------------
(* Verdicts.                                                               *)

\* review_skill_proposal wants both the proposal and its approval pending.
Review(s, d) ==
  /\ proposal[d] = "pending"
  /\ approval[d] = "pending"
  /\ \E stage \in {"rejecting", "checking"} : Begin(s, "review", d, stage)

\* approve_skill_proposal wants the proposal pending only.
Accept(s, d) ==
  /\ proposal[d] = "pending"
  /\ Begin(s, "accept", d, "accepting")

ActivateEarly(s, d) ==   \* mutant: a pending proposal will do
  /\ proposal[d] \in {"pending", "approved", "applied"}
  /\ Begin(s, "activate", d, "checking")

\* activate_skill_proposal wants it accepted, by either way.
Activate(s, d) ==
  /\ proposal[d] \in {"approved", "applied"}
  /\ Begin(s, "activate", d, "checking")

ConcludeQuietly(s, verdict, word) ==   \* mutant: the approval is left pending
  /\ proposal' = [proposal EXCEPT ![Mine(s)] = verdict]
  /\ raced' = IF proposal[Mine(s)] = session[s].seen THEN raced ELSE raced \cup {Mine(s)}
  /\ accepted' = IF word = "approved" THEN accepted \cup {Mine(s)} ELSE accepted
  /\ session' = [session EXCEPT ![s] = Idle]
  /\ UNCHANGED approval

\* A verdict is committed, whatever the status is by now.  An approval that was read
\* with the same status is not written.
Conclude(s, verdict, word) ==
  /\ proposal' = [proposal EXCEPT ![Mine(s)] = verdict]
  /\ approval' = IF session[s].word = word THEN approval ELSE [approval EXCEPT ![Mine(s)] = word]
  /\ raced' = IF proposal[Mine(s)] = session[s].seen THEN raced ELSE raced \cup {Mine(s)}
  /\ accepted' = IF word = "approved" THEN accepted \cup {Mine(s)} ELSE accepted
  /\ session' = [session EXCEPT ![s] = Idle]

CommitReject(s) ==
  /\ At(s, "rejecting")
  /\ Conclude(s, "rejected", "rejected")
  /\ UNCHANGED <<skill, ops, direct, crossed, clashed>>

CommitAccept(s) ==
  /\ At(s, "accepting")
  /\ Conclude(s, "approved", "approved")
  /\ UNCHANGED <<skill, ops, direct, crossed, clashed>>

\* /approve with the id of such an approval: the proposal is not looked at.
Approve(d) ==
  /\ approval[d] # "none"
  /\ approval' = [approval EXCEPT ![d] = "approved"]
  /\ UNCHANGED <<skill, proposal, session, ops, direct, accepted, raced, crossed, clashed>>

-----------------------------------------------------------------------------
(* _publish_skill_definition.                                              *)

\* The version is there with the same content, or it is new, or ValueError is raised.
Check(s) ==
  LET d == Mine(s)
  IN /\ At(s, "checking")
     /\ IF skill[d.version].def = d THEN Goto(s, "committing")
        ELSE IF ~Newer(d) THEN Leave(s)
        ELSE /\ session' = [session EXCEPT ![s] = [@ EXCEPT !.pc = "collecting", !.tops = Published]]
             /\ UNCHANGED <<skill, proposal, approval, ops, direct, accepted, raced, crossed, clashed>>

CollectNone(s) ==   \* mutant: the active versions are not superseded
  /\ At(s, "collecting")
  /\ session' = [session EXCEPT ![s] = [@ EXCEPT !.pc = "committing", !.new = TRUE]]
  /\ UNCHANGED <<skill, proposal, approval, ops, direct, accepted, raced, crossed, clashed>>

\* The active versions are read, to be superseded.
Collect(s) ==
  /\ At(s, "collecting")
  /\ session' = [session EXCEPT ![s] =
       [@ EXCEPT !.pc = "committing", !.new = TRUE, !.olds = Active]]
  /\ UNCHANGED <<skill, proposal, approval, ops, direct, accepted, raced, crossed, clashed>>

\* The skills after the insert: those it read as active are superseded.
Replaced(s) ==
  [v \in Version |->
     IF v = Mine(s).version THEN [def |-> Mine(s), status |-> "active"]
     ELSE IF v \in session[s].olds THEN [skill[v] EXCEPT !.status = "superseded"]
     ELSE skill[v]]

\* The skill, the proposal and the approval are one commit.  Somebody else may have
\* inserted the version by now: then the unique constraint raises.
Commit(s) ==
  /\ At(s, "committing")
  /\ IF session[s].new /\ Mine(s).version \in Published
     THEN Leave(s)
     ELSE /\ IF session[s].new
             THEN /\ skill' = Replaced(s)
                  /\ crossed' = (crossed \/ Published # session[s].tops)
                  /\ direct' = IF session[s].op = "sync"
                               THEN direct \cup {Mine(s).version} ELSE direct
             ELSE UNCHANGED <<skill, crossed, direct>>
          /\ CASE session[s].op = "sync" ->
                    /\ session' = [session EXCEPT ![s] = Idle]
                    /\ UNCHANGED <<proposal, approval, accepted, raced>>
               [] session[s].op = "review" -> Conclude(s, "applied", "approved")
               [] OTHER ->
                    /\ proposal' = [proposal EXCEPT ![Mine(s)] = "activated"]
                    /\ session' = [session EXCEPT ![s] = Idle]
                    /\ UNCHANGED <<approval, accepted, raced>>
          /\ UNCHANGED <<ops, clashed>>

Die(s) == ~At(s, "idle") /\ Leave(s)

Step(s) ==
  \/ LookForPending(s) \/ Insert(s) \/ CommitReject(s) \/ CommitAccept(s)
  \/ Check(s) \/ Collect(s) \/ Commit(s)

Next ==
  \/ \E s \in Session : Step(s) \/ Die(s)
  \/ \E s \in Session, d \in Definition :
       \/ Sync(s, d) \/ Create(s, d) \/ Propose(s, d)
       \/ Review(s, d) \/ Accept(s, d) \/ Activate(s, d)
  \/ \E d \in Definition : Approve(d)

Spec == Init /\ [][Next]_vars

-----------------------------------------------------------------------------
(* Properties.                                                             *)

\* Every version but the ones a sync found no predecessor for was accepted by
\* somebody, by either way (docs/self-evolution.md: approval is required).
PublishedWasAccepted ==
  \A v \in Published \ direct : skill[v].def \in accepted

\* A proposal is accepted or rejected, not both, unless two verdicts overlapped.
VerdictIsOne ==
  \A d \in Definition \ raced : proposal[d] = "rejected" => d \notin accepted

\* What was accepted is approved in the approvals table, and what is rejected there was
\* rejected, unless two verdicts overlapped.
ApprovalAgrees ==
  \A d \in Definition \ raced :
    /\ d \in accepted => approval[d] = "approved"
    /\ approval[d] = "rejected" => proposal[d] = "rejected"

\* Of the published versions the newest is the active one, and no other is, unless
\* two publications overlapped.
NewestIsActive ==
  crossed \/ Active = {v \in Published : \A w \in Published : w <= v}

\* docs/self-evolution.md:9 "approved skills publish through the existing skill system":
\* a sync that meets an approved definition never fails on it.
ApprovedSkillsPublish ==
  \A d \in Definition : <<d, "approved">> \notin clashed
=============================================================================
