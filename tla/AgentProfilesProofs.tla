------------------------- MODULE AgentProfilesProofs -------------------------
(***************************************************************************)
(* Proofs about AgentProfiles, for any processes, agents, proposals and    *)
(* tasks.                                                                  *)
(*                                                                         *)
(* A proposal and its files agree (ProposalInv): what a file holds is the  *)
(* draft of a proposal that was approved, or nothing yet.  A process       *)
(* agrees with them (Fits): what it creates is approved, what it routes by *)
(* and looks up is sound, and each of its layers knows the agents of the   *)
(* one before: the router those it named, the cache those of the router,   *)
(* since it is filled later from files whose names (Names) only grow.      *)
(* While a file is empty nothing is loaded.                                *)
(*                                                                         *)
(* That the files of a created agent are whole is proved on top of that,   *)
(* one file at a time (ConfigKept, PromptKept): whoever has written a file *)
(* finds it written, or open in another process, or torn.                  *)
(*                                                                         *)
(* The router's choice is the best by score, number and rank; that there   *)
(* is a best one needs bounds: the words of a task bound the scores, and   *)
(* the ranks of the names there are have a greatest one (Bounded).         *)
(***************************************************************************)
EXTENDS AgentProfiles, FiniteSetTheorems, WellFoundedInduction, TLAPS

Installed == {"approved", "created"}

Entry == [status : {"none", "pending"} \cup Installed, draft : Draft \cup {None},
          admin : BOOLEAN]
Creation == [pc : {"none", "config", "filling", "prompt", "writing", "flush", "commit"},
             of : Slug \cup {None}]
Config == [Slug -> Draft \cup {None, Empty}]
Prompts == [Slug -> {"absent", "empty", "whole"}]

TypeOK ==
  /\ proposal \in [Slug -> Entry] /\ record \subseteq Slug
  /\ config \in Config /\ prompts \in Prompts
  /\ making \in [Process -> Creation]
  /\ router = [p \in Process |-> router[p]]
  /\ cache = [p \in Process |-> cache[p]] /\ last = [p \in Process |-> last[p]]

\* A profile of the program, or the one of an approved proposal.
Sound(profile) ==
  \/ \E s \in DOMAIN Base : profile = Base[s]
  \/ /\ profile.file \in Slug
     /\ LET of == proposal[profile.file] IN
        /\ of.draft = profile
        /\ of.status \in Installed
        /\ profile.dangerous => of.admin

Profiles(f) ==
  /\ DOMAIN Base \subseteq DOMAIN f /\ DOMAIN f \subseteq Slug
  /\ \A s \in DOMAIN f : Sound(f[s])

\* What may be written to the files of a slug.
Approved(s) ==
  /\ proposal[s].status \in Installed
  /\ proposal[s].draft \in Draft /\ proposal[s].draft.file = s
  /\ proposal[s].draft.dangerous => proposal[s].admin

ProposalInv(s) ==
  /\ proposal[s].status # "none" =>
       proposal[s].draft \in Draft /\ proposal[s].draft.file = s
  /\ config[s] # None => Approved(s) /\ config[s] \in {proposal[s].draft, Empty}
  /\ proposal[s].status = "created" <=> s \in record

\* The names of the files come to an end.
Bounded == \E n \in Nat : \A f \in Generated : Rank[f] <= n

Filed == {s \in Slug : config[s] # None}
Names == DOMAIN Base \cup {proposal[f].draft.slug : f \in Filed}

\* What a process is creating (c), routes by (r), looks up (k) and routed to (l).
Fits(c, r, k, l) ==
  /\ c.pc # "none" => c.of \in Slug /\ Approved(c.of)
  /\ r = None => k = None /\ l = None /\ c.pc = "none"
  /\ r # None => Profiles(r) /\ DOMAIN r \subseteq Names
  /\ k # None => Profiles(k) /\ DOMAIN r \subseteq DOMAIN k
  /\ l # None => {l.agent} \cup l.fallbacks \subseteq DOMAIN r

ProcessInv(p) == Fits(making[p], router[p], cache[p], last[p])

IInv ==
  /\ TypeOK
  /\ \A s \in Slug : ProposalInv(s)
  /\ Bounded
  /\ \A p \in Process : ProcessInv(p)

-----------------------------------------------------------------------------
(***************************************************************************)
(* The best of some things that are numbered.                              *)
(***************************************************************************)
LEMMA Largest ==
  ASSUME NEW n \in Nat, NEW S, S \subseteq 0..n, S # {}
  PROVE  \E i \in S : \A j \in S : j <= i
<1> DEFINE T == {n - x : x \in S}
<1>1. T \subseteq Nat
  <2> SUFFICES ASSUME NEW x \in S PROVE n - x \in Nat
    OBVIOUS
  <2>1. x \in 0..n
    OBVIOUS
  <2> QED BY <2>1
<1>2. T # {}
  OBVIOUS
<1>3. PICK y \in T : \A z \in T : ~ (<<z, y>> \in OpToRel(<, Nat))
  <2> HIDE DEF T
  <2> QED BY <1>1, <1>2, NatLessThanWellFounded, WFMin
<1>4. \A z \in T : ~ (z < y)
  BY <1>1, <1>3 DEF OpToRel
<1>5. PICK i \in S : y = n - i
  OBVIOUS
<1>6. \A j \in S : j <= i
  <2> TAKE j \in S
  <2>1. i \in 0..n /\ j \in 0..n
    OBVIOUS
  <2>2. n - j \in T
    OBVIOUS
  <2>3. ~ (n - j < n - i)
    BY <1>4, <1>5, <2>2
  <2> HIDE DEF T
  <2> QED BY <2>1, <2>3
<1> QED BY <1>6

LEMMA Smallest ==
  ASSUME NEW S, S \subseteq Nat, S # {}
  PROVE  \E i \in S : \A j \in S : i <= j
<1>1. PICK i \in S : \A j \in S : ~ (<<j, i>> \in OpToRel(<, Nat))
  BY NatLessThanWellFounded, WFMin
<1>2. \A j \in S : ~ (j < i)
  BY <1>1 DEF OpToRel
<1> QED BY <1>2

\* Of some slugs one is the first, and if their ranks are bounded one the last.
LEMMA FirstSlug ==
  ASSUME NEW S, S \subseteq Slug, S # {}
  PROVE  \E s \in S : \A t \in S : Rank[s] <= Rank[t]
<1> DEFINE R == {Rank[s] : s \in S}
<1>1. R \subseteq Nat /\ R # {}
  BY RankAssumption
<1>2. PICK i \in R : \A j \in R : i <= j
  <2> HIDE DEF R
  <2> QED BY <1>1, Smallest
<1> QED BY <1>2

LEMMA LastSlug ==
  ASSUME NEW S, S \subseteq Slug, S # {}, NEW n \in Nat, \A s \in S : Rank[s] <= n
  PROVE  \E s \in S : \A t \in S : Rank[t] <= Rank[s]
<1> DEFINE R == {Rank[s] : s \in S}
<1>1. R # {}
  OBVIOUS
<1>2. R \subseteq 0..n
  <2> SUFFICES ASSUME NEW s \in S PROVE Rank[s] \in 0..n
    OBVIOUS
  <2> QED BY RankAssumption
<1>3. PICK i \in R : \A j \in R : j <= i
  <2> HIDE DEF R
  <2> QED BY <1>1, <1>2, Largest
<1> QED BY <1>3

\* The profiles that are loaded now.
LEMMA LoadedIsSound ==
  ASSUME TypeOK, Bounded, \A s \in Slug : ProposalInv(s)
  PROVE  Profiles(Loaded) /\ (Loadable => DOMAIN Loaded = Names)
<1> DEFINE D == DOMAIN Base \cup {config[f].slug : f \in Generated}
<1>1. DOMAIN Loaded = D
  BY DEF Loaded
<1>2. \A f \in Generated : f \in Slug /\ config[f] # None /\ config[f] # Empty
  BY DEF Generated
<1>3. ASSUME NEW f \in Generated
      PROVE  /\ config[f] = proposal[f].draft /\ config[f] \in Draft
             /\ Sound(config[f]) /\ config[f].slug \in Slug
  <2>1. Approved(f) /\ config[f] = proposal[f].draft
    BY <1>2 DEF ProposalInv
  <2> QED BY <1>2, <2>1, DraftAssumption DEF Approved, Sound
<1>4. D \subseteq Slug
  BY <1>3, BaseAssumption
<1>5. ASSUME NEW s \in D PROVE Sound(Loaded[s])
  <2>1. CASE FilesFor(s) = {}
    <3>1. s \in DOMAIN Base
      BY <2>1 DEF FilesFor
    <3>2. Loaded[s] = Base[s]
      BY <2>1 DEF Loaded
    <3> QED BY <3>1, <3>2 DEF Sound
  <2>2. CASE FilesFor(s) # {}
    <3>1. PICK n \in Nat : \A f \in Generated : Rank[f] <= n
      BY DEF Bounded
    <3>2. \E f \in FilesFor(s) : \A g \in FilesFor(s) : Rank[g] <= Rank[f]
      BY <1>2, <2>2, <3>1, LastSlug DEF FilesFor
    <3> DEFINE f == CHOOSE f \in FilesFor(s) : \A g \in FilesFor(s) : Rank[g] <= Rank[f]
    <3>3. f \in FilesFor(s)
      BY <3>2
    <3>4. Loaded[s] = config[f]
      BY <2>2 DEF Loaded
    <3> HIDE DEF f
    <3> QED BY <1>3, <3>3, <3>4 DEF FilesFor
  <2> QED BY <2>1, <2>2
<1>6. ASSUME Loadable PROVE D = Names
  <2>1. Generated = Filed
    BY <1>6 DEF Generated, Filed, Loadable
  <2> QED BY <1>3, <2>1 DEF Names
<1> QED BY <1>1, <1>4, <1>5, <1>6 DEF Profiles

\* A score has a bound that comes from the length of the task alone.
LEMMA ScoreIsBounded ==
  ASSUME NEW task \in Task, NEW s, NEW profile
  PROVE  /\ 5 * Cardinality(task.words) + 5 \in Nat
         /\ Score(s, profile, task) \in 0..(5 * Cardinality(task.words) + 5)
<1> DEFINE a == Cardinality(profile.types \cap task.words)
           b == Cardinality(Keywords[s] \cap task.words)
           n == Cardinality(task.words)
<1>1. n \in Nat
  BY TaskAssumption, FS_CardinalityType
<1>2. a \in Nat /\ a <= n
  <2>1. IsFiniteSet(profile.types \cap task.words) /\ a <= n
    BY TaskAssumption, FS_Subset
  <2> QED BY <2>1, FS_CardinalityType
<1>3. b \in Nat /\ b <= n
  <2>1. IsFiniteSet(Keywords[s] \cap task.words) /\ b <= n
    BY TaskAssumption, FS_Subset
  <2> QED BY <2>1, FS_CardinalityType
<1>4. Score(s, profile, task) = 3 * a + 2 * b + (IF s \in task.words THEN 5 ELSE 0)
  BY DEF Score
<1> HIDE DEF a, b, n
<1> SUFFICES 5 * n + 5 \in Nat /\ Score(s, profile, task) \in 0..(5 * n + 5)
  BY DEF n
<1> QED BY <1>1, <1>2, <1>3, <1>4

\* find_agents_for_task has a first agent whenever it has one.
LEMMA FirstIsThere ==
  ASSUME NEW task \in Task, NEW f, DOMAIN f \subseteq Slug, NEW S, S \subseteq DOMAIN f, S # {}
  PROVE  First(1, S, f, task) \subseteq S /\ First(1, S, f, task) # {}
<1> DEFINE R == {Score(s, f[s], task) : s \in S}
<1>1. R # {}
  OBVIOUS
<1>2. PICK n \in Nat : R \subseteq 0..n
  BY ScoreIsBounded
<1>3. PICK i \in R : \A j \in R : j <= i
  <2> HIDE DEF R
  <2> QED BY <1>1, <1>2, Largest
<1>4. PICK s \in S : /\ Score(s, f[s], task) = i
                     /\ \A t \in S : Score(t, f[t], task) = i => Rank[s] <= Rank[t]
  <2> DEFINE A == {t \in S : Score(t, f[t], task) = i}
  <2>1. A \subseteq Slug /\ A # {}
    BY <1>3
  <2>2. PICK t \in A : \A u \in A : Rank[t] <= Rank[u]
    <3> HIDE DEF A
    <3> QED BY <2>1, FirstSlug
  <2> QED BY <2>2
<1>5. ASSUME NEW t \in S PROVE ~Better(f, task, t, s)
  <2>1. Score(t, f[t], task) \in R /\ Score(t, f[t], task) <= i
    BY <1>3
  <2>2. Score(t, f[t], task) \in Nat /\ i \in Nat
    BY <1>2, <1>3, <2>1
  <2>3. Rank[s] \in Nat /\ Rank[t] \in Nat
    BY RankAssumption
  <2> QED BY <1>4, <2>1, <2>2, <2>3 DEF Better
<1>6. {t \in S : Better(f, task, t, s)} = {}
  BY <1>5
<1>7. s \in First(1, S, f, task)
  BY <1>6, FS_EmptySet DEF First
<1> QED BY <1>7 DEF First

\* The router chooses agents it knows.
LEMMA DecisionIsKnown ==
  ASSUME NEW task \in Task, NEW f, Profiles(f)
  PROVE  {Decision(f, task).agent} \cup Decision(f, task).fallbacks \subseteq DOMAIN f
<1> DEFINE found == Found(f, task)
<1>1. found \subseteq DOMAIN f
  BY DEF Found
<1>2. Fallback(f, task) \in DOMAIN f
  BY BaseAssumption DEF Fallback, Profiles
<1>3. Chosen(f, task) \in DOMAIN f
  <2>1. CASE task.requested \in DOMAIN f \ {"router_agent"}
    BY <2>1 DEF Chosen
  <2>2. CASE task.requested \notin DOMAIN f \ {"router_agent"} /\ found # {}
    <3>1. First(1, found, f, task) \subseteq found /\ First(1, found, f, task) # {}
      BY <1>1, <2>2, FirstIsThere DEF Profiles
    <3>2. Chosen(f, task) = CHOOSE s \in First(1, found, f, task) : TRUE
      BY <2>2 DEF Chosen
    <3>3. Chosen(f, task) \in First(1, found, f, task)
      BY <3>1, <3>2
    <3> QED BY <1>1, <3>1, <3>3
  <2>3. CASE task.requested \notin DOMAIN f \ {"router_agent"} /\ found = {}
    BY <1>2, <2>3 DEF Chosen
  <2> QED BY <2>1, <2>2, <2>3
<1>4. Decision(f, task).fallbacks \subseteq found /\ Decision(f, task).agent = Chosen(f, task)
  BY DEF Decision, First
<1> QED BY <1>1, <1>3, <1>4

-----------------------------------------------------------------------------
(***************************************************************************)
(* What a step leaves as it is.                                            *)
(***************************************************************************)
\* An approval is not taken back, and no file is removed.
Grow ==
  /\ \A s \in Slug : proposal[s].status \in Installed =>
       /\ proposal'[s].status \in Installed
       /\ proposal'[s].draft = proposal[s].draft
       /\ proposal[s].admin => proposal'[s].admin
  /\ \A s \in Slug : config[s] # None => config'[s] # None

LEMMA SoundStays ==
  ASSUME Grow, NEW profile, Sound(profile)
  PROVE  Sound(profile)'
BY DEF Grow, Sound

LEMMA ProfilesStay ==
  ASSUME Grow, NEW f, Profiles(f)
  PROVE  Profiles(f)'
<1>1. ASSUME NEW s \in DOMAIN f PROVE Sound(f[s])'
  <2>1. PICK profile : profile = f[s]
    OBVIOUS
  <2>2. Sound(profile)'
    BY <2>1, SoundStays DEF Profiles
  <2> QED BY <2>1, <2>2
<1> QED BY <1>1 DEF Profiles

LEMMA ApprovedStays ==
  ASSUME Grow, NEW s \in Slug, Approved(s)
  PROVE  Approved(s)' /\ proposal'[s].draft = proposal[s].draft
BY DEF Grow, Approved

LEMMA FilesStay ==
  ASSUME Grow, \A s \in Slug : ProposalInv(s)
  PROVE  Names \subseteq Names'
<1>1. ASSUME NEW f \in Filed PROVE f \in Filed' /\ proposal'[f].draft = proposal[f].draft
  <2>1. f \in Slug /\ config[f] # None /\ Approved(f)
    BY DEF Filed, ProposalInv
  <2> QED BY <2>1, ApprovedStays DEF Filed, Grow
<1> QED BY <1>1 DEF Names

LEMMA FitsStay ==
  ASSUME Grow, \A s \in Slug : ProposalInv(s), NEW c, NEW r, NEW k, NEW l, Fits(c, r, k, l)
  PROVE  Fits(c, r, k, l)'
<1>1. Names \subseteq Names'
  BY FilesStay
<1>2. c.pc # "none" => c.of \in Slug /\ Approved(c.of)' /\ proposal'[c.of].draft = proposal[c.of].draft
  <2>1. PICK s : s = c.of
    OBVIOUS
  <2>2. Approved(s) /\ s \in Slug => Approved(s)' /\ proposal'[s].draft = proposal[s].draft
    BY ApprovedStays
  <2> QED BY <2>1, <2>2 DEF Fits
<1>3. (r # None => Profiles(r)') /\ (k # None => Profiles(k)')
  BY ProfilesStay DEF Fits
<1> QED BY <1>1, <1>2, <1>3 DEF Fits

\* What a process holds, named by its values.
LEMMA FitsOf ==
  ASSUME NEW p, NEW c, NEW r, NEW k, NEW l, c = making'[p], r = router'[p],
         k = cache'[p], l = last'[p], Fits(c, r, k, l)'
  PROVE  ProcessInv(p)'
BY DEF ProcessInv, Fits, Profiles, Sound, Approved

LEMMA ProcessStays ==
  ASSUME Grow, \A s \in Slug : ProposalInv(s), NEW p, ProcessInv(p),
         making'[p] = making[p], router'[p] = router[p], cache'[p] = cache[p], last'[p] = last[p]
  PROVE  ProcessInv(p)'
<1>1. PICK c, r, k, l : c = making[p] /\ r = router[p] /\ k = cache[p] /\ l = last[p]
  OBVIOUS
<1>2. Fits(c, r, k, l)
  BY <1>1 DEF ProcessInv
<1>3. Fits(c, r, k, l)'
  BY <1>2, FitsStay
<1> QED BY <1>1, <1>3, FitsOf

\* A step that writes no file.
LEMMA UnwrittenBounded ==
  ASSUME Bounded, UNCHANGED config
  PROVE  Bounded'
BY DEF Bounded, Generated

-----------------------------------------------------------------------------
(***************************************************************************)
(* The steps.                                                              *)
(***************************************************************************)
FilesOK ==
  /\ proposal \in [Slug -> Entry] /\ record \subseteq Slug
  /\ config \in Config /\ prompts \in Prompts
  /\ \A s \in Slug : ProposalInv(s)
  /\ Bounded

\* One process makes a step, which may write to the files and the database.
LEMMA ProcessMoves ==
  ASSUME IInv, Grow, FilesOK', NEW p \in Process, NEW c \in Creation, NEW r, NEW k, NEW l,
         making' = [making EXCEPT ![p] = c], router' = [router EXCEPT ![p] = r],
         cache' = [cache EXCEPT ![p] = k], last' = [last EXCEPT ![p] = l],
         Fits(c, r, k, l)'
  PROVE  IInv'
<1>1. /\ making' \in [Process -> Creation] /\ router' = [q \in Process |-> router'[q]]
      /\ cache' = [q \in Process |-> cache'[q]] /\ last' = [q \in Process |-> last'[q]]
  BY DEF IInv, TypeOK
<1>2. \A q \in Process :
        /\ making'[q] = IF q = p THEN c ELSE making[q]
        /\ router'[q] = IF q = p THEN r ELSE router[q]
        /\ cache'[q] = IF q = p THEN k ELSE cache[q]
        /\ last'[q] = IF q = p THEN l ELSE last[q]
  BY DEF IInv, TypeOK
<1>3. ProcessInv(p)'
  BY <1>2, FitsOf
<1>4. ASSUME NEW q \in Process, q # p PROVE ProcessInv(q)'
  BY <1>2, <1>4, ProcessStays DEF IInv
<1> QED BY <1>1, <1>3, <1>4 DEF IInv, TypeOK, FilesOK

\* One that leaves the files and the database alone.
LEMMA ProcessMovesAlone ==
  ASSUME IInv, UNCHANGED <<proposal, record, config, prompts>>,
         NEW p \in Process, NEW c \in Creation, NEW r, NEW k, NEW l,
         making' = [making EXCEPT ![p] = c], router' = [router EXCEPT ![p] = r],
         cache' = [cache EXCEPT ![p] = k], last' = [last EXCEPT ![p] = l],
         Fits(c, r, k, l)
  PROVE  IInv'
<1>1. Grow
  BY DEF Grow
<1>2. FilesOK'
  <2>1. \A s \in Slug : ProposalInv(s)'
    BY DEF IInv, ProposalInv, Approved
  <2>2. Bounded'
    BY UnwrittenBounded DEF IInv
  <2> QED BY <2>1, <2>2 DEF IInv, TypeOK, FilesOK
<1>3. Fits(c, r, k, l)'
  BY <1>1, FitsStay DEF IInv
<1> QED BY <1>1, <1>2, <1>3, ProcessMoves

\* A proposal changes, and no file.
LEMMA ProposalMoves ==
  ASSUME IInv, NEW s \in Slug, NEW e \in Entry, proposal' = [proposal EXCEPT ![s] = e],
         UNCHANGED <<record, config, prompts, making, router, cache, last>>, Grow,
         ProposalInv(s)'
  PROVE  IInv'
<1>1. proposal' \in [Slug -> Entry] /\ \A t \in Slug : t # s => proposal'[t] = proposal[t]
  BY DEF IInv, TypeOK
<1>2. ASSUME NEW t \in Slug, t # s PROVE ProposalInv(t)'
  BY <1>1, <1>2 DEF IInv, ProposalInv, Approved
<1>3. Bounded'
  BY UnwrittenBounded DEF IInv
<1>4. \A p \in Process : ProcessInv(p)'
  BY ProcessStays DEF IInv
<1>5. TypeOK'
  BY <1>1 DEF IInv, TypeOK
<1> QED BY <1>2, <1>3, <1>4, <1>5 DEF IInv

LEMMA ProposeKeeps == \A d \in Draft : IInv /\ Propose(d) => IInv'
<1> SUFFICES ASSUME NEW d \in Draft, IInv, Propose(d) PROVE IInv'
  OBVIOUS
<1>1. PICK s, e : s = d.file /\ e = [status |-> "pending", draft |-> d, admin |-> FALSE]
  OBVIOUS
<1>2. s \in Slug /\ e \in Entry /\ e.status = "pending" /\ e.draft = d
  BY <1>1, DraftAssumption DEF Entry
<1>3. /\ proposal[s].status = "none" /\ proposal' = [proposal EXCEPT ![s] = e]
      /\ UNCHANGED <<record, config, prompts, making, router, cache, last>>
  BY <1>1 DEF Propose, files
<1>4. proposal'[s] = e /\ \A t \in Slug : t # s => proposal'[t] = proposal[t]
  BY <1>2, <1>3 DEF IInv, TypeOK
<1>5. Grow
  BY <1>3, <1>4 DEF Grow, Installed
<1>6. ProposalInv(s)'
  BY <1>1, <1>2, <1>3, <1>4 DEF IInv, ProposalInv, Approved, Installed
<1> QED BY <1>2, <1>3, <1>5, <1>6, ProposalMoves

LEMMA ApproveKeeps == \A s \in Slug : IInv /\ Approve(s) => IInv'
<1> SUFFICES ASSUME NEW s \in Slug, IInv, Approve(s) PROVE IInv'
  OBVIOUS
<1>1. PICK e : e = [proposal[s] EXCEPT !.status = "approved"]
  OBVIOUS
<1>2. /\ e \in Entry /\ e.status = "approved" /\ e.draft = proposal[s].draft
      /\ e.admin = proposal[s].admin
  BY <1>1 DEF Entry, IInv, TypeOK, Installed
<1>3. /\ proposal[s].status = "pending" /\ proposal' = [proposal EXCEPT ![s] = e]
      /\ UNCHANGED <<record, config, prompts, making, router, cache, last>>
  BY <1>1 DEF Approve, files
<1>4. proposal'[s] = e /\ \A t \in Slug : t # s => proposal'[t] = proposal[t]
  BY <1>3 DEF IInv, TypeOK
<1>5. Grow
  BY <1>3, <1>4 DEF Grow, Installed
<1>6. ProposalInv(s)'
  BY <1>2, <1>3, <1>4 DEF IInv, ProposalInv, Approved, Installed
<1> QED BY <1>2, <1>3, <1>5, <1>6, ProposalMoves

LEMMA GrantToolsKeeps == \A s \in Slug : IInv /\ GrantTools(s) => IInv'
<1> SUFFICES ASSUME NEW s \in Slug, IInv, GrantTools(s) PROVE IInv'
  OBVIOUS
<1>1. PICK e : e = [proposal[s] EXCEPT !.admin = TRUE]
  OBVIOUS
<1>2. /\ e \in Entry /\ e.status = proposal[s].status /\ e.draft = proposal[s].draft
      /\ e.admin = TRUE
  BY <1>1 DEF Entry, IInv, TypeOK, Installed
<1>3. /\ proposal[s].status \in {"pending", "approved"} /\ proposal' = [proposal EXCEPT ![s] = e]
      /\ UNCHANGED <<record, config, prompts, making, router, cache, last>>
  BY <1>1 DEF GrantTools, files
<1>4. proposal'[s] = e /\ \A t \in Slug : t # s => proposal'[t] = proposal[t]
  BY <1>3 DEF IInv, TypeOK
<1>5. Grow
  BY <1>2, <1>3, <1>4 DEF Grow
<1>6. ProposalInv(s)'
  BY <1>2, <1>3, <1>4 DEF IInv, ProposalInv, Approved, Installed
<1> QED BY <1>2, <1>3, <1>5, <1>6, ProposalMoves

\* A step of a process that only goes on with its creation.
LEMMA Unmoved ==
  ASSUME TypeOK, NEW p \in Process
  PROVE  /\ making = [making EXCEPT ![p] = making[p]] /\ making[p] \in Creation
         /\ router = [router EXCEPT ![p] = router[p]]
         /\ cache = [cache EXCEPT ![p] = cache[p]] /\ last = [last EXCEPT ![p] = last[p]]
BY DEF TypeOK

LEMMA BeginCreateKeeps ==
  \A p \in Process, s \in Slug : IInv /\ BeginCreate(p, s) => IInv'
<1> SUFFICES ASSUME NEW p \in Process, NEW s \in Slug, IInv, BeginCreate(p, s) PROVE IInv'
  OBVIOUS
<1>1. PICK c, r, k, l : c = [pc |-> "config", of |-> s] /\ r = router[p] /\ k = cache[p] /\ l = last[p]
  OBVIOUS
<1>2. /\ making[p].pc = "none" /\ r # None /\ proposal[s].status = "approved" /\ Allowed(s)
      /\ making' = [making EXCEPT ![p] = c]
      /\ UNCHANGED <<proposal, record, config, prompts, router, cache, last>>
  BY <1>1 DEF BeginCreate, files
<1>3. Approved(s)
  BY <1>2 DEF Allowed, Approved, IInv, ProposalInv, Installed
<1>4. c \in Creation /\ Fits(c, r, k, l)
  BY <1>1, <1>2, <1>3 DEF Creation, IInv, ProcessInv, Fits
<1>5. /\ router' = [router EXCEPT ![p] = r] /\ cache' = [cache EXCEPT ![p] = k]
      /\ last' = [last EXCEPT ![p] = l]
  BY <1>1, <1>2, Unmoved DEF IInv
<1> QED BY <1>2, <1>4, <1>5, ProcessMovesAlone

\* What a process is at while it creates an agent.
LEMMA CreatingNow ==
  ASSUME IInv, NEW p \in Process, making[p].pc # "none", NEW s, s = making[p].of,
         NEW pc \in {"config", "filling", "prompt", "writing", "flush", "commit"},
         NEW c, c = [making[p] EXCEPT !.pc = pc]
  PROVE  /\ c \in Creation /\ c.pc = pc /\ c.of = s /\ s \in Slug /\ Approved(s)
         /\ router[p] # None /\ Fits(making[p], router[p], cache[p], last[p])
         /\ Fits(c, router[p], cache[p], last[p])
<1>1. Fits(making[p], router[p], cache[p], last[p]) /\ making[p] \in Creation
  BY DEF IInv, TypeOK, ProcessInv
<1>2. s \in Slug /\ Approved(s) /\ router[p] # None
  BY <1>1 DEF Fits
<1>3. c \in Creation /\ c.pc = pc /\ c.of = s
  BY <1>1 DEF Creation
<1>4. Fits(c, router[p], cache[p], last[p])
  BY <1>1, <1>2, <1>3 DEF Fits
<1> QED BY <1>1, <1>2, <1>3, <1>4

\* A creation that is under way writes to the config file.
LEMMA ConfigMoves ==
  ASSUME IInv, NEW p \in Process, making[p].pc # "none", NEW s, s = making[p].of,
         NEW pc \in {"filling", "prompt"}, At(p, pc),
         NEW text \in {proposal[s].draft, Empty}, config' = [config EXCEPT ![s] = text],
         UNCHANGED <<proposal, record, prompts, router, cache, last>>
  PROVE  IInv'
<1>1. PICK c, r, k, l : /\ c = [making[p] EXCEPT !.pc = pc]
                        /\ r = router[p] /\ k = cache[p] /\ l = last[p]
  OBVIOUS
<1>2. making' = [making EXCEPT ![p] = c]
  BY <1>1 DEF At
<1>3. c \in Creation /\ c.of = s /\ s \in Slug /\ Approved(s) /\ Fits(c, r, k, l)
  BY <1>1, CreatingNow
<1>4. text \in Draft \cup {Empty} /\ text # None
  BY <1>3, EmptyAssumption DEF Approved
<1>5. /\ config' \in Config /\ config'[s] = text
      /\ \A t \in Slug : t # s => config'[t] = config[t]
  BY <1>3, <1>4 DEF IInv, TypeOK, Config, Approved
<1>6. Grow
  BY <1>3, <1>4, <1>5 DEF Grow, Approved
<1>7. ASSUME NEW t \in Slug PROVE ProposalInv(t)'
  BY <1>3, <1>5 DEF IInv, ProposalInv, Approved
<1>8. Bounded'
  <2>1. PICK n \in Nat : \A f \in Generated : Rank[f] <= n
    BY DEF IInv, Bounded
  <2>2. Generated' \subseteq Generated \cup {s}
    BY <1>5 DEF Generated
  <2>3. Rank[s] \in Nat /\ \A f \in Generated : Rank[f] \in Nat
    BY <1>3, RankAssumption DEF Generated
  <2>4. \A f \in Generated' : Rank[f] <= n + Rank[s]
    BY <2>1, <2>2, <2>3
  <2>5. n + Rank[s] \in Nat
    BY <2>3
  <2> QED BY <2>4, <2>5 DEF Bounded
<1>9. Fits(c, r, k, l)'
  BY <1>3, <1>6, FitsStay DEF IInv
<1>10. /\ router' = [router EXCEPT ![p] = r] /\ cache' = [cache EXCEPT ![p] = k]
       /\ last' = [last EXCEPT ![p] = l]
  BY <1>1, Unmoved DEF IInv
<1>11. FilesOK'
  BY <1>5, <1>7, <1>8 DEF FilesOK, IInv, TypeOK
<1> QED BY <1>2, <1>3, <1>6, <1>9, <1>10, <1>11, ProcessMoves

LEMMA OpenConfigKeeps == \A p \in Process : IInv /\ OpenConfig(p) => IInv'
<1> SUFFICES ASSUME NEW p \in Process, IInv, OpenConfig(p) PROVE IInv'
  OBVIOUS
<1> QED BY ConfigMoves DEF OpenConfig

LEMMA WriteConfigKeeps == \A p \in Process : IInv /\ WriteConfig(p) => IInv'
<1> SUFFICES ASSUME NEW p \in Process, IInv, WriteConfig(p) PROVE IInv'
  OBVIOUS
<1> QED BY ConfigMoves DEF WriteConfig

\* A creation that is under way writes to the prompt.
LEMMA PromptMoves ==
  ASSUME IInv, NEW p \in Process, making[p].pc # "none", NEW s, s = making[p].of,
         NEW pc \in {"writing", "flush"}, At(p, pc),
         NEW text \in {"empty", "whole"}, prompts' = [prompts EXCEPT ![s] = text],
         UNCHANGED <<proposal, record, config, router, cache, last>>
  PROVE  IInv'
<1>1. PICK c, r, k, l : /\ c = [making[p] EXCEPT !.pc = pc]
                        /\ r = router[p] /\ k = cache[p] /\ l = last[p]
  OBVIOUS
<1>2. making' = [making EXCEPT ![p] = c]
  BY <1>1 DEF At
<1>3. c \in Creation /\ c.of = s /\ s \in Slug /\ Approved(s) /\ Fits(c, r, k, l)
  BY <1>1, CreatingNow
<1>4. prompts' \in Prompts
  BY <1>3 DEF IInv, TypeOK, Prompts
<1>5. Grow
  BY DEF Grow
<1>6. ASSUME NEW t \in Slug PROVE ProposalInv(t)'
  BY DEF IInv, ProposalInv, Approved
<1>7. Bounded'
  BY UnwrittenBounded DEF IInv
<1>8. Fits(c, r, k, l)'
  BY <1>3, <1>5, FitsStay DEF IInv
<1>9. /\ router' = [router EXCEPT ![p] = r] /\ cache' = [cache EXCEPT ![p] = k]
      /\ last' = [last EXCEPT ![p] = l]
  BY <1>1, Unmoved DEF IInv
<1>10. FilesOK'
  BY <1>4, <1>6, <1>7 DEF FilesOK, IInv, TypeOK
<1> QED BY <1>2, <1>3, <1>5, <1>8, <1>9, <1>10, ProcessMoves

LEMMA OpenPromptKeeps == \A p \in Process : IInv /\ OpenPrompt(p) => IInv'
<1> SUFFICES ASSUME NEW p \in Process, IInv, OpenPrompt(p) PROVE IInv'
  OBVIOUS
<1> QED BY PromptMoves DEF OpenPrompt

LEMMA WritePromptKeeps == \A p \in Process : IInv /\ WritePrompt(p) => IInv'
<1> SUFFICES ASSUME NEW p \in Process, IInv, WritePrompt(p) PROVE IInv'
  OBVIOUS
<1> QED BY PromptMoves DEF WritePrompt

LEMMA FlushKeeps == \A p \in Process : IInv /\ Flush(p) => IInv'
<1> SUFFICES ASSUME NEW p \in Process, IInv, Flush(p) PROVE IInv'
  OBVIOUS
<1>1. PICK s, c, r, k, l : /\ s = making[p].of /\ c = [making[p] EXCEPT !.pc = "commit"]
                           /\ r = router[p] /\ k = cache[p] /\ l = last[p]
  OBVIOUS
<1>2. making[p].pc = "flush" /\ UNCHANGED <<proposal, record, config, prompts, router, last>>
  BY DEF Flush, files
<1>3. /\ c \in Creation /\ c.pc = "commit" /\ c.of = s /\ s \in Slug /\ Approved(s)
      /\ r # None /\ Fits(making[p], r, k, l)
  BY <1>1, <1>2, CreatingNow
<1>4. router' = [router EXCEPT ![p] = r] /\ last' = [last EXCEPT ![p] = l]
  BY <1>1, <1>2, Unmoved DEF IInv
<1>5. CASE s \in record
  <2>1. making' = [making EXCEPT ![p] = NoCreation] /\ cache' = cache
    BY <1>1, <1>5 DEF Flush
  <2>2. cache' = [cache EXCEPT ![p] = k]
    BY <1>1, <2>1, Unmoved DEF IInv
  <2>3. NoCreation \in Creation /\ Fits(NoCreation, r, k, l)
    BY <1>3 DEF NoCreation, Creation, Fits
  <2> QED BY <1>2, <1>4, <2>1, <2>2, <2>3, ProcessMovesAlone
<1>6. CASE s \notin record
  <2>1. making' = [making EXCEPT ![p] = c] /\ cache' = [cache EXCEPT ![p] = None]
    BY <1>1, <1>6 DEF Flush, At
  <2>2. Fits(c, r, None, l)
    BY <1>3 DEF Fits
  <2> QED BY <1>2, <1>3, <1>4, <2>1, <2>2, ProcessMovesAlone
<1> QED BY <1>5, <1>6

LEMMA CommitKeeps == \A p \in Process : IInv /\ Commit(p) => IInv'
<1> SUFFICES ASSUME NEW p \in Process, IInv, Commit(p) PROVE IInv'
  OBVIOUS
<1>1. PICK s, c, r, k, l : /\ s = making[p].of /\ c = [making[p] EXCEPT !.pc = "commit"]
                           /\ r = router[p] /\ k = cache[p] /\ l = last[p]
  OBVIOUS
<1>2. /\ making[p].pc = "commit" /\ record' = record \cup {s}
      /\ proposal' = [proposal EXCEPT ![s].status = "created"]
      /\ making' = [making EXCEPT ![p] = NoCreation]
      /\ UNCHANGED <<config, prompts, router, cache, last>>
  BY <1>1 DEF Commit, files
<1>3. s \in Slug /\ Approved(s) /\ r # None /\ Fits(making[p], r, k, l)
  BY <1>1, <1>2, CreatingNow
<1>4. PICK e : e = [proposal[s] EXCEPT !.status = "created"]
  OBVIOUS
<1>5. e \in Entry /\ e.status = "created" /\ e.draft = proposal[s].draft /\ e.admin = proposal[s].admin
  BY <1>3, <1>4 DEF Entry, IInv, TypeOK, Installed
<1>6. /\ proposal' \in [Slug -> Entry] /\ proposal'[s] = e
      /\ \A t \in Slug : t # s => proposal'[t] = proposal[t]
  BY <1>2, <1>3, <1>4, <1>5 DEF IInv, TypeOK
<1>7. Grow
  BY <1>2, <1>5, <1>6 DEF Grow, Installed
<1>8. ASSUME NEW t \in Slug PROVE ProposalInv(t)'
  <2>1. ProposalInv(t)
    BY DEF IInv
  <2>2. CASE t = s
    BY <1>2, <1>3, <1>5, <1>6, <2>1, <2>2 DEF ProposalInv, Approved, Installed
  <2>3. CASE t # s
    BY <1>2, <1>6, <2>1, <2>3 DEF ProposalInv, Approved
  <2> QED BY <2>2, <2>3
<1>9. Bounded'
  BY <1>2, UnwrittenBounded DEF IInv
<1>10. FilesOK'
  BY <1>2, <1>3, <1>6, <1>8, <1>9 DEF FilesOK, IInv, TypeOK
<1>11. PICK d : d = NoCreation
  OBVIOUS
<1>12. d \in Creation /\ Fits(d, r, k, l)
  BY <1>3, <1>11 DEF NoCreation, Creation, Fits
<1>13. Fits(d, r, k, l)'
  BY <1>7, <1>12, FitsStay DEF IInv
<1>14. /\ router' = [router EXCEPT ![p] = r] /\ cache' = [cache EXCEPT ![p] = k]
       /\ last' = [last EXCEPT ![p] = l] /\ making' = [making EXCEPT ![p] = d]
  BY <1>1, <1>2, <1>11, Unmoved DEF IInv
<1> QED BY <1>7, <1>10, <1>12, <1>13, <1>14, ProcessMoves

\* What can be loaded or is in the cache.
LEMMA FetchedIsSound ==
  ASSUME IInv, NEW p \in Process, router[p] # None, MayFetch(p)
  PROVE  Profiles(Fetched(p)) /\ DOMAIN router[p] \subseteq DOMAIN Fetched(p)
<1>1. Fits(making[p], router[p], cache[p], last[p])
  BY DEF IInv, ProcessInv
<1>2. Profiles(Loaded) /\ (Loadable => DOMAIN Loaded = Names)
  BY LoadedIsSound DEF IInv
<1> QED BY <1>1, <1>2 DEF Fits, Fetched, MayFetch

LEMMA StartKeeps == \A p \in Process : IInv /\ Start(p) => IInv'
<1> SUFFICES ASSUME NEW p \in Process, IInv, Start(p) PROVE IInv'
  OBVIOUS
<1>1. PICK c, r, k, l : /\ c = making[p] /\ r = (IF Loadable THEN Loaded ELSE None)
                        /\ k = cache[p] /\ l = last[p]
  OBVIOUS
<1>2. /\ router[p] = None /\ router' = [router EXCEPT ![p] = r]
      /\ UNCHANGED <<proposal, record, config, prompts, cache, making, last>>
  BY <1>1 DEF Start, files
<1>3. k = None /\ l = None /\ c.pc = "none" /\ c \in Creation
  BY <1>1, <1>2 DEF IInv, TypeOK, ProcessInv, Fits
<1>4. r # None => Profiles(r) /\ DOMAIN r \subseteq Names
  BY <1>1, LoadedIsSound DEF IInv
<1>5. Fits(c, r, k, l)
  BY <1>3, <1>4 DEF Fits
<1>6. /\ making' = [making EXCEPT ![p] = c] /\ cache' = [cache EXCEPT ![p] = k]
      /\ last' = [last EXCEPT ![p] = l]
  BY <1>1, <1>2, Unmoved DEF IInv
<1>7. UNCHANGED <<proposal, record, config, prompts>> /\ router' = [router EXCEPT ![p] = r]
  BY <1>2
<1>8. c \in Creation
  BY <1>3
<1> QED BY <1>5, <1>6, <1>7, <1>8, ProcessMovesAlone

LEMMA DieKeeps == \A p \in Process : IInv /\ Die(p) => IInv'
<1> SUFFICES ASSUME NEW p \in Process, IInv, Die(p) PROVE IInv'
  OBVIOUS
<1>1. NoCreation \in Creation /\ Fits(NoCreation, None, None, None)
  BY DEF NoCreation, Creation, Fits
<1> QED BY <1>1, ProcessMovesAlone DEF Die, files

LEMMA RouteKeeps == \A p \in Process, task \in Task : IInv /\ Route(p, task) => IInv'
<1> SUFFICES ASSUME NEW p \in Process, NEW task \in Task, IInv, Route(p, task) PROVE IInv'
  OBVIOUS
<1>1. PICK c, r, k, l : c = making[p] /\ r = router[p] /\ k = cache[p] /\ l = Decision(router[p], task)
  OBVIOUS
<1>2. r # None /\ UNCHANGED <<proposal, record, config, prompts, router, making>>
  BY <1>1 DEF Route, files
<1>3. c \in Creation /\ Fits(c, r, k, last[p])
  BY <1>1 DEF IInv, TypeOK, ProcessInv
<1>4. making' = [making EXCEPT ![p] = c] /\ router' = [router EXCEPT ![p] = r]
  BY <1>1, <1>2, Unmoved DEF IInv
<1>5. CASE ~MayFetch(p)
  <2>1. last' = [last EXCEPT ![p] = None] /\ cache' = cache
    BY <1>5 DEF Route
  <2>2. cache' = [cache EXCEPT ![p] = k]
    BY <1>1, <2>1, Unmoved DEF IInv
  <2>3. Fits(c, r, k, None)
    BY <1>2, <1>3 DEF Fits
  <2> QED BY <1>2, <1>3, <1>4, <2>1, <2>2, <2>3, ProcessMovesAlone
<1>6. CASE MayFetch(p)
  <2>1. PICK f : f = Fetched(p)
    OBVIOUS
  <2>2. last' = [last EXCEPT ![p] = l] /\ cache' = [cache EXCEPT ![p] = f]
    BY <1>1, <1>6, <2>1 DEF Route
  <2>3. Profiles(f) /\ DOMAIN r \subseteq DOMAIN f
    BY <1>1, <1>2, <1>6, <2>1, FetchedIsSound
  <2>4. Profiles(r)
    BY <1>2, <1>3 DEF Fits
  <2>5. {l.agent} \cup l.fallbacks \subseteq DOMAIN r
    BY <1>1, <2>4, DecisionIsKnown
  <2>6. Fits(c, r, f, l)
    BY <1>2, <1>3, <2>3, <2>5 DEF Fits
  <2> QED BY <1>2, <1>3, <1>4, <2>2, <2>6, ProcessMovesAlone
<1> QED BY <1>5, <1>6

LEMMA LookUpKeeps == \A p \in Process : IInv /\ LookUp(p) => IInv'
<1> SUFFICES ASSUME NEW p \in Process, IInv, LookUp(p) PROVE IInv'
  OBVIOUS
<1>1. PICK c, r, k, l : c = making[p] /\ r = router[p] /\ k = Fetched(p) /\ l = last[p]
  OBVIOUS
<1>2. /\ r # None /\ UNCHANGED <<proposal, record, config, prompts, router, making, last>>
      /\ cache' = [cache EXCEPT ![p] = k]
  BY <1>1 DEF LookUp, files
<1>3. c \in Creation /\ Fits(c, r, cache[p], l)
  BY <1>1 DEF IInv, TypeOK, ProcessInv
<1>4. /\ making' = [making EXCEPT ![p] = c] /\ router' = [router EXCEPT ![p] = r]
      /\ last' = [last EXCEPT ![p] = l]
  BY <1>1, <1>2, Unmoved DEF IInv
<1>5. Profiles(k) /\ DOMAIN r \subseteq DOMAIN k
  BY <1>1, <1>2, FetchedIsSound DEF LookUp
<1>6. Fits(c, r, k, l)
  BY <1>2, <1>3, <1>5 DEF Fits
<1> QED BY <1>2, <1>3, <1>4, <1>6, ProcessMovesAlone

-----------------------------------------------------------------------------
(***************************************************************************)
(* The theorems.                                                           *)
(***************************************************************************)
LEMMA InitHolds == Init => IInv
<1> SUFFICES ASSUME Init PROVE IInv
  OBVIOUS
<1>1. TypeOK
  BY DEF Init, TypeOK, Entry, Creation, Config, Prompts, NoProposal, NoCreation, Installed
<1>2. Generated = {}
  BY DEF Init, Generated
<1>3. Bounded
  BY <1>2 DEF Bounded
<1>4. ASSUME NEW s \in Slug PROVE ProposalInv(s)
  BY DEF Init, ProposalInv, NoProposal
<1>5. Profiles(Base) /\ DOMAIN Base \subseteq Names
  BY BaseAssumption DEF Profiles, Sound, Names
<1>6. ASSUME NEW p \in Process PROVE ProcessInv(p)
  BY <1>5 DEF Init, ProcessInv, Fits, NoCreation
<1> QED BY <1>1, <1>3, <1>4, <1>6 DEF IInv

LEMMA StepHolds == IInv /\ [Next]_vars => IInv'
<1> SUFFICES ASSUME IInv, [Next]_vars PROVE IInv'
  OBVIOUS
<1>1. ASSUME NEW d \in Draft, Propose(d) PROVE IInv'
  BY <1>1, ProposeKeeps
<1>2. ASSUME NEW s \in Slug, Approve(s) \/ GrantTools(s) PROVE IInv'
  BY <1>2, ApproveKeeps, GrantToolsKeeps
<1>3. ASSUME NEW p \in Process, Step(p) PROVE IInv'
  BY <1>3, BeginCreateKeeps, OpenConfigKeeps, WriteConfigKeeps, OpenPromptKeeps,
     WritePromptKeeps, FlushKeeps, CommitKeeps, StartKeeps, DieKeeps, RouteKeeps, LookUpKeeps DEF Step
<1>4. CASE UNCHANGED vars
  <2>1. UNCHANGED <<proposal, record, config, prompts, router, cache, making, last>>
    BY <1>4 DEF vars
  <2>2. \A s \in Slug : ProposalInv(s)'
    BY <2>1 DEF IInv, ProposalInv, Approved
  <2>3. Grow /\ Bounded' /\ TypeOK'
    BY <2>1, UnwrittenBounded DEF Grow, IInv, TypeOK
  <2>4. \A p \in Process : ProcessInv(p)'
    BY <2>1, <2>3, ProcessStays DEF IInv
  <2> QED BY <2>2, <2>3, <2>4 DEF IInv
<1> QED BY <1>1, <1>2, <1>3, <1>4 DEF Next

\* The proposals, the files and what the processes hold agree, whatever is
\* proposed, approved, created, restarted, looked up and routed.
THEOREM ProfilesInductive == Spec => []IInv
<1>1. Init => IInv
  BY InitHolds
<1>2. IInv /\ [Next]_vars => IInv'
  BY StepHolds
<1> QED BY <1>1, <1>2, PTL DEF Spec

\* Whatever profile a process routes by or looks up
\* (agents/registry.py:load_agent_profiles) is one of the program's or one that
\* was approved, with dangerous tools only if they were granted.
THEOREM AgentsApproved == Spec => []AgentsAreApproved
<1>1. IInv => AgentsAreApproved
  <2> SUFFICES ASSUME IInv, NEW p \in Process, NEW profile \in Holds(p)
               PROVE  Sound(profile)
    BY DEF AgentsAreApproved, Sound, Installed
  <2>1. Fits(making[p], router[p], cache[p], last[p])
    BY DEF IInv, ProcessInv
  <2>2. \/ \E s \in DOMAIN router[p] : router[p] # None /\ profile = router[p][s]
        \/ \E s \in DOMAIN cache[p] : cache[p] # None /\ profile = cache[p][s]
    BY DEF Holds
  <2> QED BY <2>1, <2>2 DEF Fits, Profiles
<1> QED BY <1>1, ProfilesInductive, PTL

\* The cache knows every agent the router chose, and its fallbacks
\* (agents/runtime.py:SpecialistRuntime.run_task).
THEOREM RoutedKnown == Spec => []RoutedIsKnown
<1>1. IInv => RoutedIsKnown
  BY DEF IInv, ProcessInv, Fits, RoutedIsKnown
<1> QED BY <1>1, ProfilesInductive, PTL
-----------------------------------------------------------------------------
(***************************************************************************)
(* The files of a created agent.                                           *)
(***************************************************************************)
\* Who has written a file of s, and who has it open.
WroteConfig(s) == \E q \in Process :
  making[q].of = s /\ making[q].pc \in {"prompt", "writing", "flush", "commit"}
WrotePrompt(s) == \E q \in Process : making[q].of = s /\ making[q].pc \in {"flush", "commit"}
Filling(s) == \E q \in Process : making[q].of = s /\ making[q].pc = "filling"
Writing(s) == \E q \in Process : making[q].of = s /\ making[q].pc = "writing"

ConfigKept(s) ==
  s \in record \/ WroteConfig(s) =>
    config[s] = proposal[s].draft \/ Filling(s) \/ s \in torn
PromptKept(s) ==
  s \in record \/ WrotePrompt(s) => prompts[s] = "whole" \/ Writing(s) \/ s \in torn

FilesKept == \A s \in Slug : ConfigKept(s) /\ PromptKept(s)

\* What somebody creates is approved, and a record is a created proposal's.
LEMMA CreatedFrom ==
  ASSUME IInv
  PROVE  /\ making \in [Process -> Creation]
         /\ \A q \in Process : making[q].pc # "none" =>
              making[q].of \in Slug /\ proposal[making[q].of].status \in Installed
         /\ \A s \in Slug : s \in record => proposal[s].status \in Installed
<1>1. ASSUME NEW q \in Process, making[q].pc # "none"
      PROVE  making[q].of \in Slug /\ proposal[making[q].of].status \in Installed
  <2>1. Fits(making[q], router[q], cache[q], last[q])
    BY DEF IInv, ProcessInv
  <2> QED BY <1>1, <2>1 DEF Fits, Approved
<1> QED BY <1>1 DEF IInv, TypeOK, ProposalInv, Installed

\* A step at most of a proposal.
LEMMA ProposalKeepsFiles ==
  ASSUME IInv, FilesKept, NEW s \in Slug, NEW e, proposal' = [proposal EXCEPT ![s] = e],
         proposal[s].status = "none" \/ e.draft = proposal[s].draft,
         UNCHANGED <<record, config, prompts, torn, making>>
  PROVE  FilesKept'
<1>1. \A t \in Slug : proposal'[t] = IF t = s THEN e ELSE proposal[t]
  BY DEF IInv, TypeOK
<1>2. ASSUME NEW t \in Slug PROVE ConfigKept(t)'
  <2>1. CASE t = s /\ proposal[s].status = "none"
    <3>1. s \notin record /\ ~WroteConfig(s)
      BY <2>1, CreatedFrom DEF WroteConfig, Installed
    <3> QED BY <2>1, <3>1 DEF ConfigKept, WroteConfig
  <2>2. CASE ~(t = s /\ proposal[s].status = "none")
    BY <1>1, <2>2 DEF FilesKept, ConfigKept, WroteConfig, Filling
  <2> QED BY <2>1, <2>2
<1>3. ASSUME NEW t \in Slug PROVE PromptKept(t)'
  BY DEF FilesKept, PromptKept, WrotePrompt, Writing
<1> QED BY <1>2, <1>3 DEF FilesKept

\* A step of a creation that leaves the proposal's draft as it is.
LEMMA CreationKeepsFiles ==
  ASSUME IInv, FilesKept, NEW p \in Process, NEW c, making' = [making EXCEPT ![p] = c],
         \A s \in Slug : proposal'[s].draft = proposal[s].draft,
         NEW s \in Slug, c.pc # "none" => c.of = s, making[p].pc # "none" => making[p].of = s,
         \A t \in Slug \ {s} :
           config'[t] = config[t] /\ prompts'[t] = prompts[t] /\ (t \in record' <=> t \in record),
         torn \subseteq torn', ConfigKept(s)', PromptKept(s)'
  PROVE  FilesKept'
<1>1. \A q \in Process : making'[q] = IF q = p THEN c ELSE making[q]
  BY CreatedFrom
<1>2. ASSUME NEW t \in Slug \ {s} PROVE ConfigKept(t)' /\ PromptKept(t)'
  <2>1. ConfigKept(t) /\ PromptKept(t)
    BY DEF FilesKept
  <2>2. (WroteConfig(t)' => WroteConfig(t)) /\ (WrotePrompt(t)' => WrotePrompt(t))
    BY <1>1 DEF WroteConfig, WrotePrompt
  <2>3. (Filling(t) => Filling(t)') /\ (Writing(t) => Writing(t)')
    BY <1>1 DEF Filling, Writing
  <2> QED BY <2>1, <2>2, <2>3 DEF ConfigKept, PromptKept
<1> QED BY <1>2 DEF FilesKept

\* A creation goes on from one place to the next.
LEMMA GoesOn ==
  ASSUME IInv, NEW p \in Process, making[p].pc # "none", NEW pc, At(p, pc),
         NEW s, s = making[p].of
  PROVE  /\ s \in Slug
         /\ making' = [making EXCEPT ![p] = [making[p] EXCEPT !.pc = pc]]
         /\ \A q \in Process : making'[q].of = making[q].of
                               /\ making'[q].pc = IF q = p THEN pc ELSE making[q].pc
BY CreatedFrom DEF At, Creation

LEMMA GoesOnKeepsFiles ==
  ASSUME IInv, FilesKept, NEW p \in Process, making[p].pc # "none", NEW pc, At(p, pc),
         NEW s, s = making[p].of, pc # "none",
         \A t \in Slug : proposal'[t].draft = proposal[t].draft,
         \A t \in Slug \ {s} : config'[t] = config[t] /\ prompts'[t] = prompts[t],
         UNCHANGED <<record, torn>>, ConfigKept(s)', PromptKept(s)'
  PROVE  FilesKept'
<1>1. PICK c : c = [making[p] EXCEPT !.pc = pc]
  OBVIOUS
<1>2. s \in Slug /\ making' = [making EXCEPT ![p] = c] /\ making[p] \in Creation
  BY <1>1, GoesOn, CreatedFrom
<1>3. c.of = s /\ c.pc = pc
  BY <1>1, <1>2 DEF Creation
<1> QED BY <1>2, <1>3, CreationKeepsFiles

LEMMA OpenConfigKeepsFiles ==
  ASSUME IInv, FilesKept, NEW p \in Process, OpenConfig(p)
  PROVE  FilesKept'
<1>1. PICK s : s = making[p].of
  OBVIOUS
<1>2. /\ making[p].pc = "config" /\ At(p, "filling") /\ UNCHANGED <<proposal, record, prompts, torn>>
      /\ config' = [config EXCEPT ![s] = Empty]
  BY <1>1 DEF OpenConfig
<1>3. /\ s \in Slug
      /\ \A q \in Process : making'[q].of = making[q].of
                            /\ making'[q].pc = IF q = p THEN "filling" ELSE making[q].pc
  BY <1>1, <1>2, GoesOn
<1>4. ConfigKept(s)'
  <2>1. Filling(s)'
    BY <1>1, <1>3 DEF Filling
  <2> QED BY <2>1 DEF ConfigKept
<1>5. PromptKept(s)'
  <2>1. (WrotePrompt(s)' => WrotePrompt(s)) /\ (Writing(s) => Writing(s)')
    BY <1>2, <1>3 DEF WrotePrompt, Writing
  <2> QED BY <1>2, <1>3, <2>1 DEF FilesKept, PromptKept
<1>6. \A t \in Slug \ {s} : config'[t] = config[t]
  BY <1>2 DEF IInv, TypeOK, Config
<1> QED BY <1>1, <1>2, <1>4, <1>5, <1>6, GoesOnKeepsFiles

LEMMA WriteConfigKeepsFiles ==
  ASSUME IInv, FilesKept, NEW p \in Process, WriteConfig(p)
  PROVE  FilesKept'
<1>1. PICK s : s = making[p].of
  OBVIOUS
<1>2. /\ making[p].pc = "filling" /\ At(p, "prompt") /\ UNCHANGED <<proposal, record, prompts, torn>>
      /\ config' = [config EXCEPT ![s] = proposal[s].draft]
  BY <1>1 DEF WriteConfig
<1>3. /\ s \in Slug
      /\ \A q \in Process : making'[q].of = making[q].of
                            /\ making'[q].pc = IF q = p THEN "prompt" ELSE making[q].pc
  BY <1>1, <1>2, GoesOn
<1>4. ConfigKept(s)'
  BY <1>2, <1>3 DEF ConfigKept, IInv, TypeOK, Config
<1>5. PromptKept(s)'
  <2>1. (WrotePrompt(s)' => WrotePrompt(s)) /\ (Writing(s) => Writing(s)')
    BY <1>2, <1>3 DEF WrotePrompt, Writing
  <2> QED BY <1>2, <1>3, <2>1 DEF FilesKept, PromptKept
<1>6. \A t \in Slug \ {s} : config'[t] = config[t]
  BY <1>2 DEF IInv, TypeOK, Config
<1> QED BY <1>1, <1>2, <1>4, <1>5, <1>6, GoesOnKeepsFiles

LEMMA OpenPromptKeepsFiles ==
  ASSUME IInv, FilesKept, NEW p \in Process, OpenPrompt(p)
  PROVE  FilesKept'
<1>1. PICK s : s = making[p].of
  OBVIOUS
<1>2. /\ making[p].pc = "prompt" /\ At(p, "writing") /\ UNCHANGED <<proposal, record, config, torn>>
      /\ prompts' = [prompts EXCEPT ![s] = "empty"]
  BY <1>1 DEF OpenPrompt
<1>3. /\ s \in Slug
      /\ \A q \in Process : making'[q].of = making[q].of
                            /\ making'[q].pc = IF q = p THEN "writing" ELSE making[q].pc
  BY <1>1, <1>2, GoesOn
<1>4. ConfigKept(s)'
  <2>1. (WroteConfig(s)' => WroteConfig(s)) /\ (Filling(s) => Filling(s)')
    BY <1>1, <1>2, <1>3 DEF WroteConfig, Filling
  <2> QED BY <1>2, <1>3, <2>1 DEF FilesKept, ConfigKept
<1>5. PromptKept(s)'
  <2>1. Writing(s)'
    BY <1>1, <1>3 DEF Writing
  <2> QED BY <2>1 DEF PromptKept
<1>6. \A t \in Slug \ {s} : prompts'[t] = prompts[t]
  BY <1>2 DEF IInv, TypeOK, Prompts
<1> QED BY <1>1, <1>2, <1>4, <1>5, <1>6, GoesOnKeepsFiles

LEMMA WritePromptKeepsFiles ==
  ASSUME IInv, FilesKept, NEW p \in Process, WritePrompt(p)
  PROVE  FilesKept'
<1>1. PICK s : s = making[p].of
  OBVIOUS
<1>2. /\ making[p].pc = "writing" /\ At(p, "flush") /\ UNCHANGED <<proposal, record, config, torn>>
      /\ prompts' = [prompts EXCEPT ![s] = "whole"]
  BY <1>1 DEF WritePrompt
<1>3. /\ s \in Slug
      /\ \A q \in Process : making'[q].of = making[q].of
                            /\ making'[q].pc = IF q = p THEN "flush" ELSE making[q].pc
  BY <1>1, <1>2, GoesOn
<1>4. ConfigKept(s)'
  <2>1. (WroteConfig(s)' => WroteConfig(s)) /\ (Filling(s) => Filling(s)')
    BY <1>1, <1>2, <1>3 DEF WroteConfig, Filling
  <2> QED BY <1>2, <1>3, <2>1 DEF FilesKept, ConfigKept
<1>5. PromptKept(s)'
  BY <1>2, <1>3 DEF PromptKept, IInv, TypeOK, Prompts
<1>6. \A t \in Slug \ {s} : prompts'[t] = prompts[t]
  BY <1>2 DEF IInv, TypeOK, Prompts
<1> QED BY <1>1, <1>2, <1>4, <1>5, <1>6, GoesOnKeepsFiles

\* A process that has no file open goes elsewhere.
LEMMA ElsewhereKeepsFiles ==
  ASSUME IInv, FilesKept, NEW p \in Process, NEW c, making' = [making EXCEPT ![p] = c],
         NEW s \in Slug, making[p].pc \notin {"filling", "writing"},
         c.pc # "none" => c.of = s, making[p].pc # "none" => making[p].of = s,
         c.pc = "commit" => making[p].pc = "flush", c.pc \in {"none", "config", "commit"},
         UNCHANGED <<proposal, record, config, prompts, torn>>
  PROVE  FilesKept'
<1>1. \A q \in Process : making'[q] = IF q = p THEN c ELSE making[q]
  BY CreatedFrom
<1>2. (WroteConfig(s)' => WroteConfig(s)) /\ (WrotePrompt(s)' => WrotePrompt(s))
  BY <1>1 DEF WroteConfig, WrotePrompt
<1>3. (Filling(s) => Filling(s)') /\ (Writing(s) => Writing(s)')
  BY <1>1 DEF Filling, Writing
<1>4. ConfigKept(s)' /\ PromptKept(s)'
  BY <1>2, <1>3 DEF FilesKept, ConfigKept, PromptKept
<1> QED BY <1>4, CreationKeepsFiles

LEMMA BeginCreateKeepsFiles ==
  ASSUME IInv, FilesKept, NEW p \in Process, NEW s \in Slug, BeginCreate(p, s)
  PROVE  FilesKept'
<1>1. PICK c : c = [pc |-> "config", of |-> s]
  OBVIOUS
<1>2. /\ making[p].pc = "none" /\ making' = [making EXCEPT ![p] = c] /\ c.pc = "config" /\ c.of = s
      /\ UNCHANGED <<proposal, record, config, prompts, torn>>
  BY <1>1 DEF BeginCreate, files
<1> QED BY <1>2, ElsewhereKeepsFiles

LEMMA FlushKeepsFiles ==
  ASSUME IInv, FilesKept, NEW p \in Process, Flush(p)
  PROVE  FilesKept'
<1>1. PICK s : s = making[p].of
  OBVIOUS
<1>2. making[p].pc = "flush" /\ UNCHANGED <<proposal, record, config, prompts, torn>>
  BY DEF Flush, files
<1>3. s \in Slug /\ making[p] \in Creation
  BY <1>1, <1>2, CreatedFrom
<1>4. PICK c : /\ making' = [making EXCEPT ![p] = c] /\ c.pc \in {"none", "commit"}
               /\ c.pc = "commit" => c.of = s
  <2>1. CASE s \in record
    BY <1>1, <2>1 DEF Flush, NoCreation
  <2>2. CASE s \notin record
    <3>1. making' = [making EXCEPT ![p] = [making[p] EXCEPT !.pc = "commit"]]
      BY <1>1, <1>2, <2>2, GoesOn DEF Flush
    <3>2. PICK d : d = [making[p] EXCEPT !.pc = "commit"]
      OBVIOUS
    <3>3. d.pc = "commit" /\ d.of = s
      BY <1>1, <1>3, <3>2 DEF Creation
    <3> QED BY <3>1, <3>2, <3>3
  <2> QED BY <2>1, <2>2
<1>5. /\ making[p].pc \notin {"filling", "writing"}
      /\ c.pc # "none" => c.of = s /\ making[p].pc = "flush"
      /\ c.pc \in {"none", "config", "commit"} /\ making[p].of = s
  BY <1>1, <1>2, <1>4
<1> QED BY <1>2, <1>3, <1>4, <1>5, ElsewhereKeepsFiles

LEMMA CommitKeepsFiles ==
  ASSUME IInv, FilesKept, NEW p \in Process, Commit(p)
  PROVE  FilesKept'
<1>1. PICK s, c : s = making[p].of /\ c = NoCreation
  OBVIOUS
<1>2. /\ making[p].pc = "commit" /\ making' = [making EXCEPT ![p] = c] /\ c.pc = "none"
      /\ record' = record \cup {s} /\ proposal' = [proposal EXCEPT ![s].status = "created"]
      /\ UNCHANGED <<config, prompts, torn>>
  BY <1>1 DEF Commit, files, NoCreation
<1>3. s \in Slug /\ \A q \in Process : making'[q] = IF q = p THEN c ELSE making[q]
  BY <1>1, <1>2, CreatedFrom
<1>4. \A t \in Slug : proposal'[t].draft = proposal[t].draft
  <2>1. proposal \in [Slug -> Entry]
    BY DEF IInv, TypeOK
  <2> QED BY <1>2, <1>3, <2>1 DEF Entry
<1>5. WroteConfig(s) /\ WrotePrompt(s)
  BY <1>1, <1>2 DEF WroteConfig, WrotePrompt
<1>6. (Filling(s) => Filling(s)') /\ (Writing(s) => Writing(s)')
  BY <1>2, <1>3 DEF Filling, Writing
<1>7. ConfigKept(s)' /\ PromptKept(s)'
  BY <1>2, <1>3, <1>4, <1>5, <1>6 DEF FilesKept, ConfigKept, PromptKept
<1> QED BY <1>1, <1>2, <1>3, <1>4, <1>7, CreationKeepsFiles

LEMMA DieKeepsFiles ==
  ASSUME IInv, FilesKept, NEW p \in Process, Die(p)
  PROVE  FilesKept'
<1>1. /\ UNCHANGED <<proposal, record, config, prompts>> /\ torn \subseteq torn'
      /\ \A q \in Process : making'[q] = IF q = p THEN NoCreation ELSE making[q]
      /\ \A t \in Slug : Open(p, t) /\ Beside(p, t) => t \in torn'
  BY CreatedFrom DEF Die
<1>2. ASSUME NEW t \in Slug, Open(p, t), t \in record \/ WroteConfig(t)' \/ WrotePrompt(t)'
      PROVE  t \in torn'
  <2>1. Beside(p, t)
    BY <1>1, <1>2 DEF Beside, WroteConfig, WrotePrompt, NoCreation
  <2> QED BY <1>1, <1>2, <2>1
<1>3. ASSUME NEW t \in Slug, ~Open(p, t)
      PROVE  (Filling(t) => Filling(t)') /\ (Writing(t) => Writing(t)')
  BY <1>1, <1>3 DEF Filling, Writing, Open
<1>4. ASSUME NEW t \in Slug
      PROVE  (WroteConfig(t)' => WroteConfig(t)) /\ (WrotePrompt(t)' => WrotePrompt(t))
  BY <1>1 DEF WroteConfig, WrotePrompt, NoCreation
<1>5. ASSUME NEW t \in Slug PROVE ConfigKept(t)' /\ PromptKept(t)'
  <2>1. CASE Open(p, t)
    BY <1>1, <1>2, <2>1 DEF ConfigKept, PromptKept
  <2>2. CASE ~Open(p, t)
    BY <1>1, <1>3, <1>4, <2>2 DEF FilesKept, ConfigKept, PromptKept
  <2> QED BY <2>1, <2>2
<1> QED BY <1>5 DEF FilesKept

LEMMA StepKeepsFiles == IInv /\ FilesKept /\ [Next]_vars => FilesKept'
<1> SUFFICES ASSUME IInv, FilesKept, [Next]_vars PROVE FilesKept'
  OBVIOUS
<1>1. ASSUME NEW d \in Draft, Propose(d) PROVE FilesKept'
  <2>1. PICK e : e = [status |-> "pending", draft |-> d, admin |-> FALSE]
    OBVIOUS
  <2> QED BY <1>1, <2>1, DraftAssumption, ProposalKeepsFiles DEF Propose, files
<1>2. ASSUME NEW s \in Slug, Approve(s) \/ GrantTools(s) PROVE FilesKept'
  <2>1. proposal[s] \in Entry
    BY DEF IInv, TypeOK
  <2>2. PICK e : proposal' = [proposal EXCEPT ![s] = e] /\ e.draft = proposal[s].draft
    <3>1. CASE Approve(s)
      <4>1. PICK e : e = [proposal[s] EXCEPT !.status = "approved"]
        OBVIOUS
      <4>2. e.draft = proposal[s].draft
        BY <2>1, <4>1 DEF Entry
      <4>3. proposal' = [proposal EXCEPT ![s] = e]
        BY <3>1, <4>1 DEF Approve
      <4> QED BY <4>2, <4>3
    <3>2. CASE GrantTools(s)
      <4>1. PICK e : e = [proposal[s] EXCEPT !.admin = TRUE]
        OBVIOUS
      <4>2. e.draft = proposal[s].draft
        BY <2>1, <4>1 DEF Entry
      <4>3. proposal' = [proposal EXCEPT ![s] = e]
        BY <3>2, <4>1 DEF GrantTools
      <4> QED BY <4>2, <4>3
    <3> QED BY <1>2, <3>1, <3>2
  <2> QED BY <1>2, <2>2, ProposalKeepsFiles DEF Approve, GrantTools, files
<1>3. ASSUME UNCHANGED <<proposal, record, config, prompts, torn, making>> PROVE FilesKept'
  <2>1. \A t \in Slug : ConfigKept(t)'
    BY <1>3 DEF FilesKept, ConfigKept, WroteConfig, Filling
  <2>2. \A t \in Slug : PromptKept(t)'
    BY <1>3 DEF FilesKept, PromptKept, WrotePrompt, Writing
  <2> QED BY <2>1, <2>2 DEF FilesKept
<1>4. ASSUME NEW p \in Process, Step(p) PROVE FilesKept'
  <2>1. CASE Start(p) \/ LookUp(p) \/ \E task \in Task : Route(p, task)
    BY <1>3, <2>1 DEF Start, LookUp, Route, files
  <2> QED BY <1>4, <2>1, BeginCreateKeepsFiles, OpenConfigKeepsFiles, WriteConfigKeepsFiles,
             OpenPromptKeepsFiles, WritePromptKeepsFiles, FlushKeepsFiles, CommitKeepsFiles,
             DieKeepsFiles DEF Step
<1>5. CASE UNCHANGED vars
  BY <1>3, <1>5 DEF vars
<1> QED BY <1>1, <1>2, <1>4, <1>5 DEF Next

\* A proposal is created exactly if its record is committed
\* (agent_learning_service.py:create_agent_from_approved_proposal), and then
\* the files hold what was proposed, unless another creation has one open or
\* died with it open, beside the record or beside the first creation
\* (sub_agent_factory.py:38-39).
THEOREM CreatedInstalled == Spec => []CreatedIsInstalled
<1>1. Init => FilesKept
  BY DEF Init, FilesKept, ConfigKept, PromptKept, WroteConfig, WrotePrompt, NoCreation
<1>2. IInv /\ FilesKept => CreatedIsInstalled
  <2> SUFFICES ASSUME IInv, FilesKept, NEW s \in Slug
               PROVE  /\ proposal[s].status = "created" <=> s \in record
                      /\ s \in record =>
                           \/ config[s] = proposal[s].draft /\ prompts[s] = "whole"
                           \/ \E p \in Process : Open(p, s)
                           \/ s \in torn
    BY DEF CreatedIsInstalled
  <2>1. ProposalInv(s)
    BY DEF IInv
  <2>2. Filling(s) \/ Writing(s) => \E p \in Process : Open(p, s)
    BY DEF Filling, Writing, Open
  <2>3. ConfigKept(s) /\ PromptKept(s)
    BY DEF FilesKept
  <2> QED BY <2>1, <2>2, <2>3 DEF ProposalInv, ConfigKept, PromptKept
<1> QED BY <1>1, <1>2, ProfilesInductive, StepKeepsFiles, PTL DEF Spec
=============================================================================
