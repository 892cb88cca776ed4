--------------------------- MODULE PermissionRules ---------------------------
(***************************************************************************)
(* What a list of permission strings gives access to: match_permission and *)
(* has_broad_permission (adapters.py) and the endpoints that filter by     *)
(* them.  A permission string action:resource:target is the sequence of    *)
(* its segments; splitting at most twice leaves at most three of them.     *)
(*                                                                         *)
(* A definition named Mut... is a variant of the one it precedes, with a   *)
(* plausible bug; no specification uses it.                                *)
(***************************************************************************)
EXTENDS Naturals, Sequences

CONSTANTS Tools,         \* the tools of the management provider
          Agents,        \* its agents
          Scenes,        \* its scenarios
          SceneAgents,   \* the agent names of a scenario, deleted agents too
          SceneTools,    \* the tool names a scenario gives to an agent name
          NoScene        \* a session outside any scenario

ASSUME NoSceneIsNoScene == NoScene \notin Scenes
ASSUME SceneAgentsAssumption == DOMAIN SceneAgents = Scenes
ASSUME SceneToolsAssumption ==
  \A s \in Scenes : s \in DOMAIN SceneTools /\ SceneAgents[s] \subseteq DOMAIN SceneTools[s]

UseTool(t) == <<"use", "tool", t>>
UseAgent(a) == <<"use", "agent", a>>
UseScene(s) == <<"use", "scene", s>>

\* A permission of three segments grants a target it equals segment by
\* segment, or of which it leaves a segment open.
match_permission(perms, target) ==
  \E p \in perms : Len(p) = 3 /\ \A i \in 1..3 : p[i] \in {target[i], "*"}

\* The strings that grant everything to has_broad_permission.
Everything == {<<"*">>, <<"*", "*">>, <<"*", "*", "*">>}

\* The docstring names *:tool:* and use:*:* too: neither is accepted.
MutHasBroadPermission(perms, prefix) ==
  \E p \in perms : p \in Everything \/ (Len(p) = 3 /\ p[1] = prefix[1] /\ p[3] = "*")
has_broad_permission(perms, prefix) ==
  \E p \in perms : p \in Everything \/ p = Append(prefix, "*")

-----------------------------------------------------------------------------
(* The endpoints *)

ToolsMatched(perms, names) == {t \in names : match_permission(perms, UseTool(t))}
AgentsMatched(perms, names) == {a \in names : match_permission(perms, UseAgent(a))}

\* GET /tools, and GET /agents without a scenario.
list_tools(perms) ==
  IF has_broad_permission(perms, <<"use", "tool">>) THEN Tools ELSE ToolsMatched(perms, Tools)

list_agents(perms) ==
  IF has_broad_permission(perms, <<"use", "agent">>) THEN Agents ELSE AgentsMatched(perms, Agents)

\* GET /scenarios: the scenarios listed, and the agents shown with each.
VisibleAgents(perms, s) ==
  IF has_broad_permission(perms, <<"use", "agent">>) THEN SceneAgents[s]
  ELSE AgentsMatched(perms, SceneAgents[s])

list_scenarios(perms) ==
  {s \in Scenes : /\ \/ has_broad_permission(perms, <<"use", "scene">>)
                     \/ match_permission(perms, UseScene(s))
                  /\ VisibleAgents(perms, s) # {}}

\* GET /scenarios/{id}: who gets an answer, and what is in it.
DetailAllowed(perms, s) == match_permission(perms, UseScene(s))
EnrichedAgents(perms, s) == AgentsMatched(perms, SceneAgents[s] \cap Agents)
EnrichedTools(perms, s, a) == ToolsMatched(perms, SceneTools[s][a])

-----------------------------------------------------------------------------
(* The runtime of a chat or a handoff *)

\* The agents create_runtime registers: those of the scenario, or all, that
\* the user may use.
RuntimeAgents(perms, s) ==
  IF s = NoScene THEN AgentsMatched(perms, Agents)
  ELSE Agents \cap AgentsMatched(perms, SceneAgents[s])

\* The tools it registers for agent a.  No permission filters them: the list
\* chat() filtered is joined with all the scenario gives to the agent.
RuntimeTools(s, a) ==
  Tools \cap UNION {SceneTools[x][a] : x \in {x \in Scenes : (s = NoScene \/ x = s) /\ a \in SceneAgents[x]}}

\* discover_agents over HTTP, called by agent c in scenario s.
MutDiscoverAgents(perms, s, c) == (IF s = NoScene THEN AgentsMatched(perms, Agents) ELSE Agents \cap SceneAgents[s]) \ {c}
discover_agents(perms, s, c) ==
  {a \in Agents \ {c} : IF s = NoScene THEN match_permission(perms, UseAgent(a))
                        ELSE a \in AgentsMatched(perms, SceneAgents[s])}
=============================================================================
