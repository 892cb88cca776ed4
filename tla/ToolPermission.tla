--------------------------- MODULE ToolPermission ----------------------------
(***************************************************************************)
(* The permission checks around one agent turn, while an administrator     *)
(* grants and revokes: create_runtime fetches the user's permissions once  *)
(* and registers the agents they allow; PermissionMiddleware fetches them  *)
(* again at the first tool call, keeps them for the turn, and asks the     *)
(* permission service only about a tool they do not cover.                 *)
(*                                                                         *)
(* The permission service is external.  A question to it is answered at    *)
(* one moment and the answer is used at a later one.                       *)
(*                                                                         *)
(* A definition named Mut... is a variant of the one it precedes, with a   *)
(* plausible bug; no specification uses it.                                *)
(***************************************************************************)
EXTENDS PermissionRules, FiniteSets

CONSTANTS Grantable,    \* the permission strings an administrator hands out
          NotLoaded,    \* _user_perms before the first tool call
          NoAgent,
          MaxHeld,      \* bound on the permissions held at once
          MaxChanges    \* bound on the grants and revocations

ASSUME BoundsAssumption == MaxHeld \in Nat /\ MaxChanges \in Nat

VARIABLES
  held,      \* what the permission service knows of the user
  changes,   \* grants and revocations so far
  scene,     \* the scenario of the session
  agent,     \* the agent that runs
  agents,    \* agent_registry of the runtime
  cache,     \* PermissionMiddleware._user_perms
  call,      \* where the call of each tool is
  reply,     \* what the service answered to get_permissions in a call
  granted,   \* what the service answered to check in a call
  permitted, \* history: tools permitted at some time since the first call
  lacking    \* history: tools not permitted at some time of their call

historyVars == <<permitted, lacking>>
callVars == <<cache, call, reply, granted, historyVars>>
vars == <<held, changes, scene, agent, agents, callVars>>

CallPhases == {"none", "fetching", "fetched", "checking", "checked", "allowed", "denied"}

Holdings == {P \in SUBSET Grantable : Cardinality(P) <= MaxHeld}

Init ==
  /\ held \in Holdings
  /\ changes = 0
  /\ scene = NoScene
  /\ agent = NoAgent
  /\ agents = {}
  /\ cache = NotLoaded
  /\ call = [t \in Tools |-> "none"]
  /\ reply = [t \in Tools |-> {}]
  /\ granted = [t \in Tools |-> FALSE]
  /\ permitted = {} /\ lacking = {}

UnderWay(t) == call[t] \in {"fetching", "fetched", "checking", "checked"}

-----------------------------------------------------------------------------
(* The permission service *)

\* An administrator grants or revokes one permission.
Change ==
  /\ changes < MaxChanges
  /\ changes' = changes + 1
  /\ \E p \in Grantable :
       held' = IF p \in held THEN held \ {p} ELSE held \union {p}
  /\ held' \in Holdings
  /\ permitted' = IF cache = NotLoaded /\ \A t \in Tools : call[t] = "none" THEN permitted
                  ELSE permitted \union ToolsMatched(held', Tools)
  /\ lacking' = lacking \union {t \in Tools \ ToolsMatched(held', Tools) : UnderWay(t)}
  /\ UNCHANGED <<scene, agent, agents, cache, call, reply, granted>>

-----------------------------------------------------------------------------
(* The turn *)

\* create_runtime with one fetch of the permissions; a session whose agent
\* is not registered runs nothing.
CreateRuntime(s, a) ==
  /\ agent = NoAgent
  /\ a \in RuntimeAgents(held, s)
  /\ scene' = s
  /\ agent' = a
  /\ agents' = RuntimeAgents(held, s)
  /\ UNCHANGED <<held, changes, callVars>>

SetCall(t, p) == call' = [call EXCEPT ![t] = p]

\* A tool the list of permissions covers may run; else the service is asked.
MutDecide(perms, t) ==
  SetCall(t, IF match_permission(perms, UseTool(t)) THEN "allowed" ELSE "denied")
Decide(perms, t) ==
  SetCall(t, IF match_permission(perms, UseTool(t)) THEN "allowed" ELSE "checking")

\* should_allow_tool, up to its first await.  The turn may have several calls
\* under way, each of a registered tool.
CallTool(t) ==
  /\ t \in RuntimeTools(scene, agent)
  /\ call[t] = "none"
  /\ IF cache = NotLoaded THEN SetCall(t, "fetching") ELSE Decide(cache, t)
  /\ permitted' = permitted \union ToolsMatched(held, Tools)
  /\ lacking' = IF t \in ToolsMatched(held, Tools) THEN lacking \ {t} ELSE lacking \union {t}
  /\ UNCHANGED <<held, changes, scene, agent, agents, cache, reply, granted>>

AnswerPermissions(t) ==
  /\ call[t] = "fetching"
  /\ reply' = [reply EXCEPT ![t] = held]
  /\ SetCall(t, "fetched")
  /\ UNCHANGED <<held, changes, scene, agent, agents, cache, granted, historyVars>>

LoadPermissions(t) ==
  /\ call[t] = "fetched"
  /\ cache' = reply[t]
  /\ reply' = [reply EXCEPT ![t] = {}]
  /\ Decide(reply[t], t)
  /\ UNCHANGED <<held, changes, scene, agent, agents, granted, historyVars>>

\* permission_checker.check: the service knows the permissions of now.
AnswerCheck(t) ==
  /\ call[t] = "checking"
  /\ granted' = [granted EXCEPT ![t] = match_permission(held, UseTool(t))]
  /\ SetCall(t, "checked")
  /\ UNCHANGED <<held, changes, scene, agent, agents, cache, reply, historyVars>>

UseCheck(t) ==
  /\ call[t] = "checked"
  /\ SetCall(t, IF granted[t] THEN "allowed" ELSE "denied")
  /\ granted' = [granted EXCEPT ![t] = FALSE]
  /\ UNCHANGED <<held, changes, scene, agent, agents, cache, reply, historyVars>>

\* The tool has run, or the agent was told that it may not.
CallOver(t) ==
  /\ call[t] \in {"allowed", "denied"}
  /\ SetCall(t, "none")
  /\ UNCHANGED <<held, changes, scene, agent, agents, cache, reply, granted, historyVars>>

\* The turn ends.  The next one has a runtime and a middleware of its own.
MutTurnOver ==
  /\ agent # NoAgent
  /\ \A t \in Tools : call[t] = "none"
  /\ agent' = NoAgent /\ scene' = NoScene /\ agents' = {}
  /\ permitted' = {} /\ lacking' = {}
  /\ UNCHANGED <<held, changes, cache, call, reply, granted>>
TurnOver ==
  /\ agent # NoAgent
  /\ \A t \in Tools : call[t] = "none"
  /\ agent' = NoAgent /\ scene' = NoScene /\ agents' = {}
  /\ cache' = NotLoaded
  /\ permitted' = {} /\ lacking' = {}
  /\ UNCHANGED <<held, changes, call, reply, granted>>

-----------------------------------------------------------------------------
ToolStep(t) ==
  \/ CallTool(t) \/ AnswerPermissions(t) \/ LoadPermissions(t)
  \/ AnswerCheck(t) \/ UseCheck(t) \/ CallOver(t)

\* A user without permissions can do nothing but wait for some.
Idle == agent = NoAgent /\ UNCHANGED vars

Next ==
  \/ Change
  \/ \E s \in Scenes \union {NoScene}, a \in Agents : CreateRuntime(s, a)
  \/ \E t \in Tools : ToolStep(t)
  \/ TurnOver
  \/ Idle

Spec == Init /\ [][Next]_vars
-----------------------------------------------------------------------------
(* Properties *)

\* Type invariant of the turn.
TypeOK ==
  /\ held \in Holdings
  /\ changes \in 0..MaxChanges
  /\ scene \in Scenes \union {NoScene}
  /\ agent \in agents \union {NoAgent}
  /\ agents \subseteq Agents
  /\ cache \in Holdings \union {NotLoaded}
  /\ call \in [Tools -> CallPhases]
  /\ reply \in [Tools -> Holdings]
  /\ granted \in [Tools -> BOOLEAN]
  /\ permitted \subseteq Tools /\ lacking \subseteq Tools

\* However permissions change during a turn, a tool runs only if the user had
\* permission for it at some time since the first tool call of the turn:
\* what was revoked before is never honoured, although it may have been held
\* when the request was accepted and when the runtime was created.
RunningToolsWerePermitted ==
  \A t \in Tools : call[t] = "allowed" => t \in permitted

\* A tool is denied only if the permission for it was missing at some time of
\* this very call: what is granted during a turn counts at once, the cached
\* list notwithstanding.
DenialsAreJustified ==
  \A t \in Tools : call[t] = "denied" => t \in lacking

\* The list endpoints take a shortcut that the checks behind them do not know.
\* They agree as long as nobody holds "*" or "*:*": what is listed can be
\* opened and used, and nothing usable is left out.
ListingsAgreeWithChecks ==
  held \cap {<<"*">>, <<"*", "*">>} = {} =>
    /\ list_tools(held) = ToolsMatched(held, Tools)
    /\ list_agents(held) = RuntimeAgents(held, NoScene)
    /\ \A s \in list_scenarios(held) :
         /\ DetailAllowed(held, s)
         /\ EnrichedAgents(held, s) = VisibleAgents(held, s) \cap Agents
         /\ EnrichedAgents(held, s) \subseteq RuntimeAgents(held, s)
         /\ \A a \in EnrichedAgents(held, s) :
              EnrichedTools(held, s, a) \cap Tools \subseteq RuntimeTools(s, a)

\* The agents an agent discovers are those the runtime of a handoff made with
\* the same permissions registers: none it cannot hand off to, none hidden.
DiscoveredAgentsCanBeHandedOffTo ==
  \A s \in Scenes \union {NoScene}, c \in Agents :
    discover_agents(held, s, c) = RuntimeAgents(held, s) \ {c}
=============================================================================
