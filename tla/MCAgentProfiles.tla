--------------------------- MODULE MCAgentProfiles ---------------------------
(***************************************************************************)
(* Two processes; three agents of the program; a sub-agent of its own      *)
(* slug with dangerous tools and a prompt of its own; and another one that *)
(* takes the slug of an agent of the program, or else does not validate.   *)
(* The tasks reach every way of choosing.                                  *)
(***************************************************************************)
EXTENDS AgentProfiles, TLC

MCSlug == {"coding_agent", "router_agent", "server_ops_agent",
           "crm_agent", "ops_two"}
Symmetry == Permutations(Process)

MCRank == ("coding_agent" :> 2) @@ ("crm_agent" :> 3)
          @@ ("ops_two" :> 4) @@ ("router_agent" :> 5)
          @@ ("server_ops_agent" :> 6)

Profile(file, slug, types, risk, dangerous, prompt, valid) ==
  [file |-> file, slug |-> slug, types |-> types, risk |-> risk,
   dangerous |-> dangerous, prompt |-> prompt, valid |-> valid, known |-> TRUE]

MCBase ==
  [s \in {"coding_agent", "router_agent", "server_ops_agent"} |->
     Profile(None, s, IF s = "coding_agent" THEN {"code"} ELSE {},
             IF s = "server_ops_agent" THEN "high" ELSE "medium",
             s = "server_ops_agent", None, TRUE)]

MCDraft ==
  {Profile("crm_agent", "crm_agent", {"sales"}, "medium", TRUE, "crm_agent", TRUE),
   Profile("ops_two", "server_ops_agent", {"nginx"}, "low", FALSE, None, TRUE),
   Profile("ops_two", "ops_two", {}, "low", FALSE, None, FALSE)}

MCKeywords ==
  [s \in MCSlug |-> CASE s = "coding_agent" -> {"code", "bugfix"}
                      [] s = "server_ops_agent" -> {"nginx", "folder"}
                      [] OTHER -> {}]

MCServerWords == {"nginx", "folder", "ls"}

MCTask ==
  {[words |-> {"sales", "code"}, requested |-> "router_agent", critical |-> FALSE],
   [words |-> {"ls"}, requested |-> "crm_agent", critical |-> TRUE]}
=============================================================================
