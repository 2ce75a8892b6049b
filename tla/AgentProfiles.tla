--------------------------- MODULE AgentProfiles ---------------------------
(***************************************************************************)
(* The profiles of the specialist agents: agents/registry.py reads them    *)
(* from files, agents/router.py routes tasks to them, and                  *)
(* services/sub_agent_factory.py adds files for sub-agents whose proposal  *)
(* was approved.  The files are shared by all processes; every process     *)
(* has a router that read them at its start and a cache that it fills at   *)
(* its first look-up and clears when it creates an agent itself.           *)
(*                                                                         *)
(* A task is the set of words its text contains, with the agent its user   *)
(* asked for.                                                              *)
(***************************************************************************)
EXTENDS Integers, FiniteSets

CONSTANTS Process,   \* processes that route or look up agents
          Slug,      \* names of agents and of proposals
          Base,      \* the profiles that come with the program, by slug
          Draft,     \* the sub-agents that may be proposed
          Keywords,  \* the words the registry keeps for a slug
          ServerWords, \* the router's own words for the server agent
          Task,      \* the tasks that may be routed
          Rank,      \* the alphabetical order of slugs
          None,      \* no profile, no agent, no cache
          Empty,     \* a config file that was opened to be written
          MaxStarts  \* bound on the number of process restarts

ASSUME BaseAssumption ==
  /\ DOMAIN Base \subseteq Slug
  /\ {"router_agent", "coding_agent"} \subseteq DOMAIN Base
ASSUME RankAssumption ==
  \A s, t \in Slug : Rank[s] \in Nat /\ (Rank[s] = Rank[t] => s = t)
\* The names in a draft are names of agents; a text has so many words.
ASSUME DraftAssumption == \A d \in Draft : d.file \in Slug /\ d.slug \in Slug
ASSUME TaskAssumption == \A task \in Task : IsFiniteSet(task.words)
ASSUME EmptyAssumption == Empty # None /\ {Empty, None} \cap Draft = {}
ASSUME StartsAssumption == MaxStarts \in Nat

VARIABLES
  proposal,  \* sub_agent_proposals, by proposed_slug
  record,    \* the slugs in agent_profiles
  config,    \* generated config files, by name
  prompts,   \* generated prompt files, by name: absent, empty or whole
  router,    \* the profiles a process routes by; None while it is down
  cache,     \* the profiles a process looks up
  making,    \* the creation a process is at
  last,      \* its last routing that was carried out, or None
  torn,      \* history: the slugs a file of which a process had open when it
             \* died, beside their record or another creation
  starts

vars == <<proposal, record, config, prompts, router, cache, making, last, torn, starts>>
files == <<config, prompts, torn>>

NoProposal == [status |-> "none", draft |-> None, admin |-> FALSE]
NoCreation == [pc |-> "none", of |-> None]

Init ==
  /\ proposal = [s \in Slug |-> NoProposal]
  /\ record = {}
  /\ config = [s \in Slug |-> None] /\ prompts = [s \in Slug |-> "absent"]
  /\ torn = {}
  /\ router = [p \in Process |-> Base]
  /\ cache = [p \in Process |-> None]
  /\ making = [p \in Process |-> NoCreation]
  /\ last = [p \in Process |-> None]
  /\ starts = 0

(***************************************************************************)
(* load_agent_profiles.  The generated files come after those of the       *)
(* program, in the order of their names; the last one of a slug stays.     *)
(***************************************************************************)
Generated == {s \in Slug : config[s] \notin {None, Empty}}
FilesFor(slug) == {f \in Generated : config[f].slug = slug}

Loaded ==
  [s \in DOMAIN Base \cup {config[f].slug : f \in Generated} |->
     IF FilesFor(s) = {} THEN Base[s]
     ELSE config[CHOOSE f \in FilesFor(s) :
                   \A g \in FilesFor(s) : Rank[g] <= Rank[f]]]

\* One profile that does not validate makes the loading fail for everybody,
\* and so does a config file without a line.  A profile another one replaced
\* is not validated any more; a prompt need only exist.
Loadable ==
  /\ \A s \in Slug : config[s] # Empty
  /\ LET profiles == Loaded IN
     \A s \in DOMAIN profiles :
       /\ profiles[s].valid
       /\ profiles[s].prompt # None => prompts[profiles[s].prompt] # "absent"

\* _cached_profiles
Fetched(p) == IF cache[p] = None THEN Loaded ELSE cache[p]
MayFetch(p) == cache[p] # None \/ Loadable

(***************************************************************************)
(* route                                                                   *)
(***************************************************************************)
Score(slug, profile, task) ==
  3 * Cardinality(profile.types \cap task.words)
  + 2 * Cardinality(Keywords[slug] \cap task.words)
  + (IF slug \in task.words THEN 5 ELSE 0)

\* find_agents_for_task, without the router itself: ordered by the score and
\* the slug.
Found(profiles, task) ==
  {s \in DOMAIN profiles \ {"router_agent"} : Score(s, profiles[s], task) > 0}

Better(profiles, task, s, t) ==
  LET a == Score(s, profiles[s], task)
      b == Score(t, profiles[t], task)
  IN  a > b \/ (a = b /\ Rank[s] < Rank[t])

\* The first n of a set of agents.
First(n, agents, profiles, task) ==
  {s \in agents :
     Cardinality({t \in agents : Better(profiles, task, t, s)}) < n}

\* _infer_best_fallback; coding_agent comes with the program.
Fallback(profiles, task) ==
  IF task.words \cap ServerWords # {}
     /\ "server_ops_agent" \in DOMAIN profiles
  THEN "server_ops_agent" ELSE "coding_agent"

Chosen(profiles, task) ==
  LET found == Found(profiles, task) IN
  IF task.requested \in DOMAIN profiles \ {"router_agent"} THEN task.requested
  ELSE IF found # {} THEN CHOOSE s \in First(1, found, profiles, task) : TRUE
  ELSE Fallback(profiles, task)

Decision(profiles, task) ==
  LET agent == Chosen(profiles, task) IN
  [agent     |-> agent,
   model     |-> IF task.critical THEN "escalation" ELSE "default",
   approval  |-> task.critical \/ profiles[agent].risk = "high",
   fallbacks |-> First(3, Found(profiles, task) \ {agent}, profiles, task)]

-----------------------------------------------------------------------------
(***************************************************************************)
(* Proposals: agent_learning_service.py.                                   *)
(***************************************************************************)
Propose(d) ==
  /\ proposal[d.file].status = "none"    \* proposed_slug is unique
  /\ proposal' = [proposal EXCEPT ![d.file] =
                    [status |-> "pending", draft |-> d, admin |-> FALSE]]
  /\ UNCHANGED <<record, files, router, cache, making, last, starts>>

Approve(s) ==
  /\ proposal[s].status = "pending"
  /\ proposal' = [proposal EXCEPT ![s].status = "approved"]
  /\ UNCHANGED <<record, files, router, cache, making, last, starts>>

\* The metadata that admits dangerous tools is written by hand; nothing looks at it
\* for a draft that has none.
GrantTools(s) ==
  /\ proposal[s].status \in {"pending", "approved"} /\ proposal[s].draft.dangerous
  /\ proposal' = [proposal EXCEPT ![s].admin = TRUE]
  /\ UNCHANGED <<record, files, router, cache, making, last, starts>>

(***************************************************************************)
(* create_agent_from_approved_proposal.  The files are written before the  *)
(* record and the status are committed, each by write_text: it empties the *)
(* file, whoever wrote it before, and then writes the text.                *)
(***************************************************************************)
AllowedByName(s) == proposal[s].draft.known   \* mutant: dangerous tools are not looked for

Allowed(s) ==
  /\ proposal[s].draft.known
  /\ proposal[s].draft.dangerous => proposal[s].admin

At(p, pc) == making' = [making EXCEPT ![p].pc = pc]

BeginCreate(p, s) ==
  /\ making[p].pc = "none" /\ router[p] # None
  /\ proposal[s].status = "approved" /\ Allowed(s)
  /\ making' = [making EXCEPT ![p] = [pc |-> "config", of |-> s]]
  /\ UNCHANGED <<proposal, record, files, router, cache, last, starts>>

OpenConfig(p) ==
  /\ making[p].pc = "config"
  /\ config' = [config EXCEPT ![making[p].of] = Empty]
  /\ At(p, "filling")
  /\ UNCHANGED <<proposal, record, prompts, torn, router, cache, last, starts>>

WriteConfig(p) ==
  /\ making[p].pc = "filling"
  /\ config' = [config EXCEPT ![making[p].of] = proposal[making[p].of].draft]
  /\ At(p, "prompt")
  /\ UNCHANGED <<proposal, record, prompts, torn, router, cache, last, starts>>

OpenPromptOnly(p) ==   \* mutant: the prompt is created, its text is left for later
  /\ making[p].pc = "prompt"
  /\ prompts' = [prompts EXCEPT ![making[p].of] = "empty"]
  /\ At(p, "flush")
  /\ UNCHANGED <<proposal, record, config, torn, router, cache, last, starts>>

OpenPrompt(p) ==
  /\ making[p].pc = "prompt"
  /\ prompts' = [prompts EXCEPT ![making[p].of] = "empty"]
  /\ At(p, "writing")
  /\ UNCHANGED <<proposal, record, config, torn, router, cache, last, starts>>

WritePrompt(p) ==
  /\ making[p].pc = "writing"
  /\ prompts' = [prompts EXCEPT ![making[p].of] = "whole"]
  /\ At(p, "flush")
  /\ UNCHANGED <<proposal, record, config, torn, router, cache, last, starts>>

\* The unique slug of a record makes a second creation wait for the first one
\* and fail when that commits.
Others(p) == {q \in Process \ {p} : making[q].pc = "commit"
                                    /\ making[q].of = making[p].of}
FlushRouter(p) ==   \* mutant: the refresh gives the process a new router, not a new cache
  /\ making[p].pc = "flush"
  /\ Others(p) = {} /\ making[p].of \notin record
  /\ At(p, "commit")
  /\ router' = [router EXCEPT ![p] = IF Loadable THEN Loaded ELSE @]
  /\ UNCHANGED <<proposal, record, files, cache, last, starts>>

Flush(p) ==
  /\ making[p].pc = "flush"
  /\ Others(p) = {}
  /\ IF making[p].of \in record
     THEN /\ making' = [making EXCEPT ![p] = NoCreation]
          /\ UNCHANGED cache
     ELSE /\ At(p, "commit")
          /\ cache' = [cache EXCEPT ![p] = None]
  /\ UNCHANGED <<proposal, record, files, router, last, starts>>

Commit(p) ==
  /\ making[p].pc = "commit"
  /\ record' = record \cup {making[p].of}
  /\ proposal' = [proposal EXCEPT ![making[p].of].status = "created"]
  /\ making' = [making EXCEPT ![p] = NoCreation]
  /\ UNCHANGED <<files, router, cache, last, starts>>

(***************************************************************************)
(* Processes.                                                              *)
(***************************************************************************)
\* RouterAgent() reads the files itself; a process that cannot does not start.
Start(p) ==
  /\ router[p] = None /\ starts < MaxStarts
  /\ starts' = starts + 1
  /\ router' = [router EXCEPT ![p] = IF Loadable THEN Loaded ELSE None]
  /\ UNCHANGED <<proposal, record, files, cache, making, last>>

\* A process may die in the middle of a creation: nothing is committed, and
\* the file it had open stays empty.
Open(p, s) == making[p].pc \in {"filling", "writing"} /\ making[p].of = s
Beside(p, s) ==
  s \in record \/ \E q \in Process \ {p} : making[q].pc # "none" /\ making[q].of = s

Die(p) ==
  /\ router[p] # None
  /\ router' = [router EXCEPT ![p] = None]
  /\ cache' = [cache EXCEPT ![p] = None]
  /\ making' = [making EXCEPT ![p] = NoCreation]
  /\ last' = [last EXCEPT ![p] = None]
  /\ torn' = torn \cup {s \in Slug : Open(p, s) /\ Beside(p, s)}
  /\ UNCHANGED <<proposal, record, config, prompts, starts>>

\* run_task: the router decides, the cache gives the profile of its choice.
Route(p, task) ==
  /\ router[p] # None
  /\ LET decision == Decision(router[p], task) IN
     IF ~MayFetch(p)
     THEN /\ last' = [last EXCEPT ![p] = None]
          /\ UNCHANGED cache
     ELSE /\ cache' = [cache EXCEPT ![p] = Fetched(p)]
          /\ last' = [last EXCEPT ![p] = decision]
  /\ UNCHANGED <<proposal, record, files, router, making, starts>>

\* /agent, /agents, /models and /budget.
LookUp(p) ==
  /\ router[p] # None
  /\ MayFetch(p)
  /\ cache' = [cache EXCEPT ![p] = Fetched(p)]
  /\ UNCHANGED <<proposal, record, files, router, making, last, starts>>

Step(p) ==
  \/ \E s \in Slug : BeginCreate(p, s)
  \/ OpenConfig(p) \/ WriteConfig(p) \/ OpenPrompt(p) \/ WritePrompt(p)
  \/ Flush(p) \/ Commit(p)
  \/ Start(p) \/ Die(p) \/ LookUp(p)
  \/ \E task \in Task : Route(p, task)

Next ==
  \/ \E d \in Draft : Propose(d)
  \/ \E s \in Slug : Approve(s) \/ GrantTools(s)
  \/ \E p \in Process : Step(p)

Spec == Init /\ [][Next]_vars

(***************************************************************************)
(* Properties.                                                             *)
(***************************************************************************)
\* Whatever profile a process holds, whoever wrote its file and whoever died
\* in between, is one of the program's or that of a proposal that somebody
\* approved, and with dangerous tools only if that was granted.
Holds(p) ==
  {router[p][s] : s \in IF router[p] = None THEN {} ELSE DOMAIN router[p]}
  \cup {cache[p][s] : s \in IF cache[p] = None THEN {} ELSE DOMAIN cache[p]}

AgentsAreApproved ==
  \A p \in Process : \A profile \in Holds(p) :
    \/ \E s \in DOMAIN Base : profile = Base[s]
    \/ LET of == proposal[profile.file] IN
       /\ of.draft = profile
       /\ of.status \in {"approved", "created"}
       /\ profile.dangerous => of.admin

\* A task never fails because the cache does not know the agent the router
\* chose, nor would one of the fallbacks, though the router and the cache read
\* the files at different times.
RoutedIsKnown ==
  \A p \in Process :
    last[p] # None /\ cache[p] # None =>
      {last[p].agent} \cup last[p].fallbacks \subseteq DOMAIN cache[p]

\* A proposal is created exactly if its record is there, and then both of its
\* files are whole, whichever process made them and whoever died before, but
\* for two gaps of writing a file in place (sub_agent_factory.py:38-39): a
\* second creation has the file open just now, or a process died with one
\* open while the record stood or another creation was under way.  Then the
\* record stands over an empty file, and no process can load profiles.
CreatedIsInstalled ==
  \A s \in Slug :
    /\ proposal[s].status = "created" <=> s \in record
    /\ s \in record =>
         \/ config[s] = proposal[s].draft /\ prompts[s] = "whole"
         \/ \E p \in Process : Open(p, s)
         \/ s \in torn
=============================================================================
