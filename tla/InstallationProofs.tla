------------------------- MODULE InstallationProofs -------------------------
(***************************************************************************)
(* The invariants of Installation, for any answers of the operator, any    *)
(* number of versions and of runs of the installer.                        *)
(***************************************************************************)
EXTENDS Installation, TLAPS

\* The versions in the target, and the databases.
Target == [code: Nat, deps: Nat]
Data == [Database -> [schema: Nat, rows: BOOLEAN]]

\* The steps by what of the host they find.
Synced == {"deps", "preflight", "migrate", "seed", "ids", "check", "restart",
           "doctor"}
Filled == {"prepare", "rewrite"} \cup Synced
Installed == {"preflight", "migrate", "seed", "ids", "check", "restart", "doctor"}
Pc == {"idle", "sync", "collect", "ensure", "write"} \cup Filled

TypeOK ==
  /\ local \in BOOLEAN /\ repo \in Nat \ {0} /\ up \in SUBSET Database
  /\ target \in Target
  /\ env = None \/ env \in Env
  /\ data \in Data
  /\ inst.pc \in Pc /\ inst.root \in BOOLEAN /\ inst.start \in BOOLEAN
  /\ inst = [pc |-> inst.pc, root |-> inst.root, start |-> inst.start,
             want |-> inst.want]
  /\ report \in {"none", "failed", "started", "installed"}
  /\ moved \in BOOLEAN

\* What the file holds, whatever was written to it and whatever was cut off.
\* The first answers are given while the specialists' models are those of the
\* example, hence the key of OpenRouter.
EnvInv ==
  env \in Env =>
    /\ env.db = None => env.spec = TRUE
    /\ env.db # None => /\ "openrouter" \in env.keys
                        /\ env.model = "openai" => "openai" \in env.keys
    /\ env.ids # None => /\ data[env.ids].rows = TRUE
                         /\ moved = FALSE => env.ids = env.db

\* What a run has done, by its step.
StepInv ==
  /\ inst.pc \in {"ensure", "write"} \cup {"prepare", "rewrite"} => inst.want \in Answer
  /\ inst.pc \in {"collect", "ensure", "write"} \cup Filled => target.code # 0
  /\ inst.pc \in {"write"} \cup Filled => env \in Env
  /\ inst.pc \in Filled => env.db # None
  /\ inst.pc \in Installed => target.deps = target.code
  /\ inst.pc = "ids" => data[env.db].rows = TRUE
  /\ inst.pc \in {"check", "restart", "doctor"} => env.ids # None
  /\ inst.pc = "doctor" /\ inst.start = TRUE => service = Fresh

\* What the last run has left.
ReportInv ==
  /\ report # "none" => inst.pc = "idle"
  /\ report \in {"started", "installed"} =>
       /\ env \in Env
       /\ env.ids # None
       /\ env.db # None
  /\ StartedIsCurrent

IInv == TypeOK /\ EnvInv /\ StepInv /\ ReportInv
-----------------------------------------------------------------------------
\* A host without an .env, or with nothing at all.
LEMMA InitInv == Init => IInv
<1> SUFFICES ASSUME Init PROVE IInv
  OBVIOUS
<1>1. TypeOK
  <2>1. data \in Data
    BY DEF Init, Data
  <2>2. inst.pc \in Pc /\ inst.root \in BOOLEAN /\ inst.start \in BOOLEAN
    BY DEF Init, Idle, Pc
  <2>3. inst = [pc |-> inst.pc, root |-> inst.root, start |-> inst.start,
                want |-> inst.want]
    BY DEF Init, Idle
  <2>4. up \in SUBSET Database /\ target \in Target
    BY DEF Init, Target, Database
  <2>5. local \in BOOLEAN /\ moved \in BOOLEAN
    BY Zenon DEF Init
  <2>6. repo \in Nat \ {0} /\ env = None /\ report = "none"
    BY DEF Init
  <2> QED BY <2>1, <2>2, <2>3, <2>4, <2>5, <2>6 DEF TypeOK
<1>2. EnvInv
  BY NoneAssumption DEF Init, EnvInv
<1>3. StepInv
  BY DEF Init, StepInv, Idle, Filled, Synced, Installed
<1>4. ReportInv
  BY DEF Init, ReportInv, Idle, StartedIsCurrent
<1> QED BY <1>1, <1>2, <1>3, <1>4 DEF IInv

\* Every step of the installer, of systemd and of the operator.
LEMMA NextInv == IInv /\ [Next]_vars => IInv'
<1> SUFFICES ASSUME IInv, [Next]_vars PROVE IInv'
  OBVIOUS
<1> USE NoneAssumption DEF IInv
<1>1. CASE Begin
  <2>1. TypeOK'
    BY <1>1 DEF TypeOK, Pc, Filled, Synced, TypeOK, StepInv, Begin, host, Idle
  <2>2. EnvInv'
    BY <1>1 DEF EnvInv, TypeOK, StepInv, Begin, host, Idle
  <2>3. StepInv'
    BY <1>1 DEF StepInv, Filled, Synced, Installed, TypeOK, StepInv, Begin, host, Idle
  <2>4. ReportInv'
    BY <1>1 DEF ReportInv, StartedIsCurrent, Fresh, TypeOK, StepInv, Begin, host, Idle
  <2> QED BY <2>1, <2>2, <2>3, <2>4
<1>2. CASE Sync
  <2>1. TypeOK'
    BY <1>2 DEF TypeOK, Pc, Filled, Synced, TypeOK, StepInv, Sync, host, To, Target
  <2>2. EnvInv'
    BY <1>2 DEF EnvInv, TypeOK, StepInv, Sync, host, To, Target
  <2>3. StepInv'
    BY <1>2 DEF StepInv, Filled, Synced, Installed, TypeOK, StepInv, Sync, host, To, Target
  <2>4. ReportInv'
    BY <1>2 DEF ReportInv, StartedIsCurrent, Fresh, TypeOK, StepInv, Sync, host, To, Target
  <2> QED BY <2>1, <2>2, <2>3, <2>4
<1>3. CASE Collect
  <2>1. TypeOK'
    BY <1>3, AnswersAssumption DEF TypeOK, Pc, Filled, Synced, TypeOK, StepInv, Collect, host, Answer
  <2>2. EnvInv'
    BY <1>3, AnswersAssumption DEF EnvInv, TypeOK, StepInv, Collect, host, Answer
  <2>3. StepInv'
    BY <1>3, AnswersAssumption DEF StepInv, Filled, Synced, Installed, TypeOK, StepInv, Collect, host, Answer
  <2>4. ReportInv'
    BY <1>3, AnswersAssumption DEF ReportInv, StartedIsCurrent, Fresh, TypeOK, StepInv, Collect, host, Answer
  <2> QED BY <2>1, <2>2, <2>3, <2>4
<1>7. CASE Deps
  BY <1>7 DEF TypeOK, EnvInv, StepInv, ReportInv, StartedIsCurrent, Deps, To, Target, Pc, Filled, Synced, Installed, host, Fresh
<1>12. CASE Check
  BY <1>12 DEF TypeOK, EnvInv, StepInv, ReportInv, StartedIsCurrent, Check, To, Pc, Filled, Synced, Installed, host, Fresh, Healthy, ValuesFit
<1>13. CASE Restart
  BY <1>13 DEF TypeOK, EnvInv, StepInv, ReportInv, StartedIsCurrent, Restart, To, Pc, Filled, Synced, Installed, host, Fresh
<1>14. CASE Doctor
  BY <1>14 DEF TypeOK, EnvInv, StepInv, ReportInv, StartedIsCurrent, Doctor, Idle, Pc, Filled, Synced, Installed, host, Fresh, Healthy, ValuesFit, DatabaseFits
<1>16. CASE Release
  BY <1>16 DEF TypeOK, EnvInv, StepInv, ReportInv, StartedIsCurrent, Release, host, Fresh
<1>17. CASE Serve
  BY <1>17 DEF TypeOK, EnvInv, StepInv, ReportInv, StartedIsCurrent, Serve, Fresh, Database
<1>18. CASE Revive
  BY <1>18 DEF TypeOK, EnvInv, StepInv, ReportInv, StartedIsCurrent, Revive, host, Fresh
<1>20. CASE UNCHANGED vars
  BY <1>20 DEF TypeOK, EnvInv, StepInv, ReportInv, StartedIsCurrent, vars, host, Fresh
<1>4. CASE EnsureEnv
  <2>1. Example \in Env
    BY DEF Example, Env
  <2>2. TypeOK'
    BY <1>4, <2>1 DEF TypeOK, EnsureEnv, To, host, Pc, Filled, Synced
  <2>3. EnvInv'
    BY <1>4 DEF EnvInv, EnsureEnv, Example
  <2>4. StepInv'
    BY <1>4, <2>1 DEF TypeOK, StepInv, EnsureEnv, To, Filled, Synced, Installed
  <2>5. ReportInv'
    BY <1>4 DEF ReportInv, EnsureEnv, StartedIsCurrent
  <2> QED BY <2>2, <2>3, <2>4, <2>5
<1>5. CASE WriteEnv
  <2>1. inst.want \in Answer /\ env \in Env
    BY <1>5 DEF StepInv, WriteEnv, Filled
  <2>2. env' \in Env /\ Keys(inst.want.model) \subseteq env'.keys
    BY <1>5, <2>1 DEF WriteEnv, Updated, Keys, KeyOf, Env, Answer
  <2>3. TypeOK'
    BY <1>5, <2>1, <2>2 DEF TypeOK, WriteEnv, Moves, To, host, Pc, Filled, Synced
  <2>4. EnvInv'
    <3>1. env'.db # None /\ env'.ids = env.ids /\ env'.model = inst.want.model
      BY <1>5, <2>1 DEF WriteEnv, Updated, Env, Answer
    <3>2. env'.model = "openai" => "openai" \in env'.keys
      BY <2>2, <3>1 DEF Keys, KeyOf
    <3>3. "openrouter" \in env'.keys
      <4>1. CASE env.db = None
        BY <4>1, <2>1, <2>2 DEF EnvInv, Keys, Asks, Current
      <4>2. CASE env.db # None
        BY <4>2, <1>5, <2>1 DEF EnvInv, WriteEnv, Updated, Env
      <4> QED BY <4>1, <4>2
    <3>4. env'.ids # None => /\ data'[env'.ids].rows = TRUE
                             /\ moved' = FALSE => env'.ids = env'.db
      BY <1>5, <2>1, <3>1 DEF EnvInv, WriteEnv, Moves, Updated, Env, Answer, TypeOK
    <3> QED BY <3>1, <3>2, <3>3, <3>4 DEF EnvInv
  <2>5. StepInv'
    BY <1>5, <2>1, <2>2 DEF TypeOK, StepInv, WriteEnv, Updated, To, Filled, Synced,
                            Installed, Answer, Env, host
  <2>6. ReportInv'
    BY <1>5 DEF ReportInv, StartedIsCurrent, WriteEnv
  <2> QED BY <2>3, <2>4, <2>5, <2>6
<1>6. CASE Prepare
  <2>1. inst'.pc = "rewrite" /\ inst'.root = inst.root /\ inst'.start = inst.start
        /\ inst'.want \in Answer
    <3>1. inst.want \in Answer
      BY <1>6 DEF StepInv, Prepare
    <3>2. [inst.want EXCEPT !.db = "bundled"] \in Answer
      BY <3>1 DEF Answer, Database
    <3> QED BY <1>6, <3>1, <3>2 DEF TypeOK, Prepare, To
  <2>2. /\ inst' = [pc |-> inst'.pc, root |-> inst'.root, start |-> inst'.start,
                    want |-> inst'.want]
        /\ up' \in SUBSET Database
    BY <1>6 DEF TypeOK, Prepare, To, Database
  <2>3. TypeOK'
    BY <1>6, <2>1, <2>2 DEF TypeOK, Prepare, Pc, Filled
  <2>4. EnvInv' /\ ReportInv'
    BY <1>6 DEF EnvInv, ReportInv, StartedIsCurrent, Prepare
  <2>5. StepInv'
    BY <1>6, <2>1 DEF StepInv, Prepare, Filled, Synced, Installed
  <2> QED BY <2>3, <2>4, <2>5
<1>8. CASE Preflight
  <2>1. env \in Env /\ env.db # None
    BY <1>8 DEF StepInv, Preflight, Filled, Synced
  <2>2. env' \in Env /\ env'.db # None /\ env'.ids = env.ids
        /\ env'.keys = env.keys /\ env'.model = env.model
    BY <1>8, <2>1 DEF Preflight, Env, Database
  <2>3. TypeOK'
    BY <1>8, <2>1, <2>2 DEF TypeOK, Preflight, Moves, To, host, Pc, Filled, Synced
  <2>4. EnvInv'
    BY <1>8, <2>1, <2>2 DEF EnvInv, Preflight, Moves, TypeOK, Env
  <2>5. StepInv'
    BY <1>8, <2>1, <2>2 DEF TypeOK, StepInv, Preflight, To, Filled, Synced, Installed
  <2>6. ReportInv'
    BY <1>8 DEF ReportInv, StartedIsCurrent, Preflight
  <2> QED BY <2>3, <2>4, <2>5, <2>6
<1>9. CASE Migrate
  <2>1. env \in Env /\ env.db \in Database
    BY <1>9 DEF StepInv, Migrate, Filled, Synced, Env
  <2>2. data' \in Data /\ \A d \in Database : data'[d].rows = data[d].rows
    BY <1>9, <2>1 DEF TypeOK, Migrate, Data, Target
  <2>3. TypeOK'
    BY <1>9, <2>2 DEF TypeOK, Migrate, To, host, Pc, Filled, Synced
  <2>4. EnvInv'
    BY <1>9, <2>2 DEF EnvInv, Migrate, Env
  <2>5. StepInv'
    BY <1>9, <2>1 DEF TypeOK, StepInv, Migrate, To, Filled, Synced, Installed
  <2>6. ReportInv'
    BY <1>9 DEF ReportInv, StartedIsCurrent, Migrate
  <2> QED BY <2>3, <2>4, <2>5, <2>6
<1>10. CASE Seed
  <2>1. env \in Env /\ env.db \in Database
    BY <1>10 DEF StepInv, Seed, Filled, Synced, Env
  <2>2. /\ data' \in Data /\ data'[env.db].rows = TRUE
        /\ \A d \in Database : data[d].rows = TRUE => data'[d].rows = TRUE
    BY <1>10, <2>1 DEF TypeOK, Seed, Data
  <2>3. TypeOK'
    BY <1>10, <2>2 DEF TypeOK, Seed, To, host, Pc, Filled, Synced
  <2>4. EnvInv'
    BY <1>10, <2>2 DEF EnvInv, Seed, Env
  <2>5. StepInv'
    BY <1>10, <2>1, <2>2 DEF TypeOK, StepInv, Seed, To, Filled, Synced, Installed
  <2>6. ReportInv'
    BY <1>10 DEF ReportInv, StartedIsCurrent, Seed
  <2> QED BY <2>3, <2>4, <2>5, <2>6
<1>11. CASE SaveIds
  <2>1. env \in Env /\ env.db # None /\ data[env.db].rows = TRUE
    BY <1>11 DEF StepInv, SaveIds, Filled, Synced
  <2>2. /\ env' \in Env /\ env'.ids = env.db /\ env'.db = env.db
        /\ env'.keys = env.keys /\ env'.model = env.model
    BY <1>11, <2>1 DEF SaveIds, Env
  <2>3. TypeOK'
    BY <1>11, <2>2 DEF TypeOK, SaveIds, To, host, Pc, Filled, Synced
  <2>4. EnvInv'
    BY <1>11, <2>1, <2>2 DEF EnvInv, SaveIds
  <2>5. StepInv'
    BY <1>11, <2>1, <2>2 DEF TypeOK, StepInv, SaveIds, To, Filled, Synced, Installed
  <2>6. ReportInv'
    BY <1>11 DEF ReportInv, StartedIsCurrent, SaveIds
  <2> QED BY <2>3, <2>4, <2>5, <2>6
<1>15. CASE Fail
  <2>1. (env' = env /\ moved' = moved) \/ (env' = Example /\ moved' = FALSE)
    BY <1>15 DEF Fail
  <2>2. Example \in Env /\ Example.db = None /\ Example.spec = TRUE
        /\ Example.ids = None
    BY DEF Example, Env
  <2>3. target' \in Target
    BY <1>15 DEF Fail, TypeOK, Target
  <2>4. TypeOK'
    BY <1>15, <2>1, <2>2, <2>3 DEF TypeOK, Fail, Idle, host, Pc
  <2>5. EnvInv'
    BY <1>15, <2>1, <2>2 DEF EnvInv, Fail
  <2>6. StepInv' /\ ReportInv'
    BY <1>15 DEF StepInv, ReportInv, StartedIsCurrent, Fail, Idle, Filled, Synced,
                 Installed
  <2> QED BY <2>4, <2>5, <2>6
<1>19. CASE ClearIds
  <2>1. env \in Env
    BY <1>19 DEF ClearIds, TypeOK
  <2>2. /\ env' \in Env /\ env'.ids = None /\ env'.db = env.db
        /\ env'.keys = env.keys /\ env'.model = env.model /\ env'.spec = env.spec
    BY <1>19, <2>1 DEF ClearIds, Env
  <2>3. TypeOK'
    BY <1>19, <2>2 DEF TypeOK, ClearIds, host
  <2>4. EnvInv'
    BY <1>19, <2>1, <2>2 DEF EnvInv, ClearIds
  <2>5. StepInv' /\ ReportInv'
    BY <1>19 DEF StepInv, ReportInv, StartedIsCurrent, ClearIds, Filled, Synced,
                 Installed
  <2> QED BY <2>3, <2>4, <2>5
<1> QED
  BY <1>1, <1>2, <1>3, <1>4, <1>5, <1>6, <1>7, <1>8, <1>9, <1>10, <1>11, <1>12,
     <1>13, <1>14, <1>15, <1>16, <1>17, <1>18, <1>19, <1>20 DEF Next

LEMMA Invariance == Spec => []IInv
  BY InitInv, NextInv, PTL DEF Spec

-----------------------------------------------------------------------------
\* The variables keep their types.
THEOREM TypeCorrect == Spec => []TypeOK
  BY Invariance, PTL DEF IInv

\* Started services run what was synced, with the values and the database it
\* was migrated for, in every installation.
THEOREM StartedCurrent == Spec => []StartedIsCurrent
  BY Invariance, PTL DEF IInv, ReportInv

\* After a successful run the ids name rows of the database in use, unless a
\* run changed the database under them.
THEOREM Ids == Spec => []IdsAreRows
<1>1. IInv => IdsAreRows
  BY DEF IInv, TypeOK, EnvInv, ReportInv, IdsAreRows
<1> QED BY <1>1, Invariance, PTL

\* The keys of the chosen models are in every file the installer has filled.
THEOREM ModelKeys == Spec => []ModelsHaveKeys
<1>1. IInv => ModelsHaveKeys
  BY DEF IInv, TypeOK, EnvInv, ModelsHaveKeys, Credentials, Env
<1> QED BY <1>1, Invariance, PTL
=============================================================================
