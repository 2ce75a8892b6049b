---------------------------- MODULE Installation ----------------------------
(***************************************************************************)
(* A production host and its installer: scripts/install.py syncs a         *)
(* checkout, writes .env, sees to the database, has                        *)
(* deployment/linux/bootstrap-app.sh install, migrate and seed, restarts   *)
(* the services and asks scripts/doctor.py.  A step that fails or a        *)
(* crash ends a run, the next one starts from the first step; meanwhile    *)
(* systemd restarts services, servers come and go, and the checkout moves  *)
(* on.                                                                     *)
(*                                                                         *)
(* Of .env these values are told apart: the database, the two DEFAULT_     *)
(* ids, the model and its key, whether a specialist's model is one of      *)
(* OpenRouter, and whether the rest makes sense.  The database stands for  *)
(* Redis and Qdrant too, which are treated alike; Anthropic, Gemini and    *)
(* Ollama are asked for like OpenAI, and nginx is a step that may fail.    *)
(***************************************************************************)
EXTENDS Integers, FiniteSets

CONSTANTS None,        \* no file, no service, no database
          Answers,     \* what the operator or the environment may give
          MaxVersion,  \* bound on the versions of the checkout
          MaxRuns      \* bound on the runs of the installer

\* The operator's own database, and the one of docker-compose.yml.
Database == {"own", "bundled"}

\* A placeholder for the database is refused, but numbers and secrets are not
\* looked at.
Answer == [db: Database, model: {"openrouter", "openai", "other"},
           spec: BOOLEAN, good: BOOLEAN]

\* What is told apart of .env; the ids are the database they were written for.
Env == [db: Database \cup {None}, ids: Database \cup {None},
        model: {"openrouter", "openai", "other"}, spec: BOOLEAN,
        keys: SUBSET {"openrouter", "openai", "litellm"}, good: BOOLEAN]

ASSUME NoneAssumption == None \notin Database \cup Env
ASSUME AnswersAssumption == Answers \subseteq Answer
ASSUME BoundsAssumption == MaxVersion \in Nat \ {0} /\ MaxRuns \in Nat

VARIABLES
  local,    \* the own database is at a loopback address, where the bundled is
  repo,     \* the version of the checkout
  target,   \* the versions of the code and of its dependencies; 0: none or a mix
  env,      \* .env, or None
  up,       \* the databases that are served
  data,     \* the schema of each, and whether it has a user and a workspace
  service,  \* what the services were started with, or None
  inst,     \* the installer
  report,   \* how its last run ended
  moved,    \* history: the database was changed under ids that were set
  runs

host == <<local, repo, up>>
vars == <<host, target, env, data, service, inst, report, moved, runs>>

Idle == [pc |-> "idle", root |-> FALSE, start |-> FALSE, want |-> None]

\* .env.example has no real database and no key; nor has a file that was cut
\* off, and the installer's own defaults for it are the same.
Example == [db |-> None, ids |-> None, model |-> "openrouter", spec |-> TRUE,
            keys |-> {}, good |-> FALSE]

Init ==
  /\ local \in BOOLEAN
  /\ repo = 1
  /\ target = [code |-> 0, deps |-> 0]
  /\ env = None
  /\ up \in {{}, {"own"}}
  /\ data = [d \in Database |-> [schema |-> 0, rows |-> FALSE]]
  /\ service = None
  /\ inst = Idle /\ report = "none" /\ moved = FALSE /\ runs = 0

To(pc) == inst' = [inst EXCEPT !.pc = pc]

-----------------------------------------------------------------------------
(***************************************************************************)
(* The installer.                                                          *)
(***************************************************************************)
\* The host assets are the same for every run.
Begin ==
  /\ inst.pc = "idle" /\ runs < MaxRuns
  /\ \E root, start \in BOOLEAN :
       inst' = [Idle EXCEPT !.pc = "sync", !.root = root, !.start = start]
  /\ report' = "none" /\ runs' = runs + 1
  /\ UNCHANGED <<host, target, env, data, service, moved>>

Sync ==
  /\ inst.pc = "sync"
  /\ target' = [target EXCEPT !.code = repo]
  /\ To("collect")
  /\ UNCHANGED <<host, env, data, service, report, moved, runs>>

(***************************************************************************)
(* The values of .env.                                                     *)
(***************************************************************************)
\* The key asked for with a choice of model; "6" is any model, and has its own.
KeyOf(model) == IF model = "other" THEN "litellm" ELSE model

Current == IF env = None THEN Example ELSE env

AsksForModel(model) == model = "openrouter"   \* mutant: the specialists' models are not looked at

\* A key of OpenRouter is asked for by the specialists' models as they were.
Asks(model) == model = "openrouter" \/ Current.spec

Keys(model) == {KeyOf(model)} \cup {k \in {"openrouter"} : Asks(model)}

\* The target belongs to agentos by now and is closed to anybody else but root.
Collect ==
  /\ inst.pc = "collect" /\ inst.root
  /\ \E answer \in Answers :
       inst' = [inst EXCEPT !.pc = IF env = None THEN "ensure" ELSE "write",
                            !.want = answer]
  /\ UNCHANGED <<host, target, env, data, service, report, moved, runs>>

EnsureEnv ==
  /\ inst.pc = "ensure"
  /\ env' = Example
  /\ To("write")
  /\ UNCHANGED <<host, target, data, service, report, moved, runs>>

\* update_env_file: the other values stay.
Updated(want) ==
  [env EXCEPT !.db = want.db, !.model = want.model, !.spec = want.spec,
              !.good = want.good, !.keys = @ \cup Keys(want.model)]
Moves(db) == moved' = (env.ids # None /\ (moved \/ db # env.db))

WriteEnv ==
  /\ inst.pc \in {"write", "rewrite"}
  /\ env' = Updated(inst.want) /\ Moves(inst.want.db)
  /\ To(IF inst.pc = "write" THEN "prepare" ELSE "deps")
  /\ UNCHANGED <<host, target, data, service, report, runs>>

\* _prepare_dependency_services: what does not listen at a loopback address is
\* replaced by the bundled service.
Loopback(db) == db = "bundled" \/ local
Listens(db) == IF Loopback(db) THEN \E d \in up : Loopback(d) ELSE db \in up

Prepare ==
  /\ inst.pc = "prepare"
  /\ IF ~Loopback(inst.want.db) \/ Listens(inst.want.db)
     THEN To("rewrite") /\ UNCHANGED up
     ELSE /\ up' = up \cup {"bundled"}
          /\ inst' = [inst EXCEPT !.pc = "rewrite", !.want.db = "bundled"]
  /\ UNCHANGED <<local, repo, target, env, data, service, report, moved, runs>>

(***************************************************************************)
(* bootstrap-app.sh                                                        *)
(***************************************************************************)
Deps ==
  /\ inst.pc = "deps"
  /\ target' = [target EXCEPT !.deps = target.code]
  /\ To("preflight")
  /\ UNCHANGED <<host, env, data, service, report, moved, runs>>

\* bootstrap_preflight: a database that listens and does not let us in is
\* taken for the bundled one.
Preflight ==
  /\ inst.pc = "preflight"
  /\ \/ env.db \in up /\ UNCHANGED <<env, moved>>
     \/ /\ env.db \notin up /\ Loopback(env.db) /\ "bundled" \in up
        /\ env' = [env EXCEPT !.db = "bundled"] /\ Moves("bundled")
  /\ To("migrate")
  /\ UNCHANGED <<host, target, data, service, report, runs>>

Migrate ==
  /\ inst.pc = "migrate" /\ env.db \in up
  /\ data' = [data EXCEPT ![env.db].schema = target.code]
  /\ To(IF env.ids = None THEN "seed" ELSE "check")
  /\ UNCHANGED <<host, target, env, service, report, moved, runs>>

SeedCollected ==   \* mutant: the seed goes to the database the operator named
  /\ inst.pc = "seed" /\ env.db \in up
  /\ data' = [data EXCEPT ![env.db].rows = TRUE]
  /\ env' = [env EXCEPT !.ids = inst.want.db]
  /\ To("check")
  /\ UNCHANGED <<host, target, service, report, moved, runs>>

\* seed_dev.py finds its rows or makes them; their ids are written after it.
Seed ==
  /\ inst.pc = "seed" /\ env.db \in up
  /\ data' = [data EXCEPT ![env.db].rows = TRUE]
  /\ To("ids")
  /\ UNCHANGED <<host, target, env, service, report, moved, runs>>

SaveIds ==
  /\ inst.pc = "ids"
  /\ env' = [env EXCEPT !.ids = env.db]
  /\ moved' = FALSE
  /\ To("check")
  /\ UNCHANGED <<host, target, data, service, report, runs>>

\* _check_llm_config
Credentials(e) ==
  /\ e.keys # {}
  /\ e.spec \/ e.model = "openrouter" => e.keys \cap {"openrouter", "litellm"} # {}
  /\ e.model = "openai" => e.keys \cap {"openai", "litellm"} # {}

\* The ids are to be set, but any rows will do.
ValuesFit == env.good /\ env.db # None /\ env.ids # None /\ Credentials(env)
DatabaseFits ==
  /\ env.db \in up
  /\ data[env.db].schema = target.code /\ data[env.db].rows

\* What run_doctor wants.
Healthy == ValuesFit /\ DatabaseFits
Running == service # None

Check ==
  /\ inst.pc = "check" /\ Healthy
  /\ To("restart")
  /\ UNCHANGED <<host, target, env, data, service, report, moved, runs>>

(***************************************************************************)
(* The last steps.                                                         *)
(***************************************************************************)
Fresh == [code |-> target.code, deps |-> target.deps, env |-> env]

RestartIdle ==   \* mutant: systemctl start, which leaves alone what runs
  /\ inst.pc = "restart"
  /\ service' = IF inst.start /\ service = None THEN Fresh ELSE service
  /\ To("doctor")
  /\ UNCHANGED <<host, target, env, data, report, moved, runs>>

Restart ==
  /\ inst.pc = "restart"
  /\ service' = IF inst.start THEN Fresh ELSE service
  /\ To("doctor")
  /\ UNCHANGED <<host, target, env, data, report, moved, runs>>

\* The doctor wants running services even of a run that starts none.
Doctor ==
  /\ inst.pc = "doctor" /\ Healthy /\ Running
  /\ report' = IF inst.start THEN "started" ELSE "installed"
  /\ inst' = Idle
  /\ UNCHANGED <<host, target, env, data, service, moved, runs>>

\* Any step may fail or be cut off; so ends a run whose step cannot be taken.
Fail ==
  /\ inst.pc # "idle"
  /\ report' = "failed" /\ inst' = Idle
  /\ \/ UNCHANGED <<target, env, moved>>
     \/ /\ inst.pc = "sync"
        /\ target' = [target EXCEPT !.code = 0]
        /\ UNCHANGED <<env, moved>>
     \/ /\ inst.pc = "deps"
        /\ target' = [target EXCEPT !.deps = 0]
        /\ UNCHANGED <<env, moved>>
     \/ /\ inst.pc \in {"ensure", "write", "rewrite", "preflight", "ids"}
        /\ env' = Example /\ moved' = FALSE   \* write_text empties the file
        /\ UNCHANGED target
  /\ UNCHANGED <<host, data, service, runs>>

-----------------------------------------------------------------------------
(***************************************************************************)
(* The host.                                                               *)
(***************************************************************************)
Release ==
  /\ repo < MaxVersion
  /\ repo' = repo + 1
  /\ UNCHANGED <<local, up, target, env, data, service, inst, report, moved, runs>>

\* Two databases cannot listen at one address.
Serve ==
  /\ \/ \E d \in up : up' = up \ {d}
     \/ /\ "own" \notin up /\ (local => "bundled" \notin up)
        /\ up' = up \cup {"own"}
  /\ UNCHANGED <<local, repo, target, env, data, service, inst, report, moved, runs>>

\* Restart=on-failure: the services come back with what they find.
Revive ==
  /\ service # None
  /\ service' = Fresh
  /\ UNCHANGED <<host, target, env, data, inst, report, moved, runs>>

\* The operator takes the ids out of the file.
ClearIds ==
  /\ inst.pc = "idle" /\ env # None /\ env.ids # None
  /\ env' = [env EXCEPT !.ids = None]
  /\ report' = "none" /\ moved' = FALSE
  /\ UNCHANGED <<host, target, data, service, inst, runs>>

Next ==
  \/ Begin \/ Sync \/ Collect \/ EnsureEnv \/ WriteEnv \/ Prepare \/ Deps
  \/ Preflight \/ Migrate \/ Seed \/ SaveIds \/ Check \/ Restart \/ Doctor
  \/ Fail \/ Release \/ Serve \/ Revive \/ ClearIds

Spec == Init /\ [][Next]_vars

(***************************************************************************)
(* Properties.                                                             *)
(***************************************************************************)
\* When the installer says it has started the services, they run the code that
\* was synced, with its dependencies and the values of .env, which make sense,
\* on a database of that code's schema; whatever failed, crashed, was revived
\* or released before, or since.
StartedIsCurrent ==
  report = "started" =>
    /\ service = Fresh
    /\ target.code # 0 /\ target.deps = target.code
    /\ env.good /\ env.db # None
    /\ data[env.db].schema = target.code

\* After a run that succeeded the ids name rows of the database that is used,
\* unless a run changed the database under ids that were set.
IdsAreRows ==
  report \in {"started", "installed"} /\ ~moved =>
    /\ env.ids = env.db
    /\ data[env.db].rows

\* Whatever models were chosen in however many runs, a file the installer has
\* filled holds the keys the doctor wants for them: the key of OpenRouter is
\* asked for before the specialists' models are, yet it is never missing.
ModelsHaveKeys == env # None /\ env.db # None => Credentials(env)
=============================================================================
