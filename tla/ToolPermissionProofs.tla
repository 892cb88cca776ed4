------------------------- MODULE ToolPermissionProofs -------------------------
(***************************************************************************)
(* The checks around an agent turn, for any tools, agents, scenarios and   *)
(* permissions, and however they change.                                   *)
(*                                                                         *)
(* What a call knows is older than what it decides: the invariant follows  *)
(* a permission from the answer of the service over the cache or the reply *)
(* of a check to the decision, and says at each of these places whether it *)
(* was seen since the first tool call, or missing in this call.  What the  *)
(* endpoints promise each other holds for every list of permissions.       *)
(***************************************************************************)
EXTENDS ToolPermission, FiniteSetTheorems, TLAPS

USE NoSceneIsNoScene, BoundsAssumption

-----------------------------------------------------------------------------
(* Type correctness *)

LEMMA NothingIsAHolding == {} \in Holdings
BY FS_EmptySet DEF Holdings

LEMMA InitType == Init => TypeOK
<1> SUFFICES ASSUME Init PROVE TypeOK
  OBVIOUS
<1>1. /\ held \in Holdings /\ changes \in 0..MaxChanges
      /\ scene \in Scenes \union {NoScene} /\ agent \in agents \union {NoAgent}
      /\ agents \subseteq Agents /\ cache \in Holdings \union {NotLoaded}
  BY DEF Init
<1>2. /\ call \in [Tools -> CallPhases] /\ reply \in [Tools -> Holdings]
      /\ granted \in [Tools -> BOOLEAN]
  BY NothingIsAHolding DEF Init, CallPhases
<1>3. permitted \subseteq Tools /\ lacking \subseteq Tools
  BY DEF Init
<1> QED
  BY <1>1, <1>2, <1>3 DEF TypeOK

LEMMA StepType == TypeOK /\ [Next]_vars => TypeOK'
<1> SUFFICES ASSUME TypeOK, [Next]_vars PROVE TypeOK'
  OBVIOUS
<1> USE DEF TypeOK, callVars, historyVars, SetCall
<1>1. CASE Change
  BY <1>1 DEF Change, ToolsMatched
<1>2. CASE \E s \in Scenes \union {NoScene}, a \in Agents : CreateRuntime(s, a)
  BY <1>2 DEF CreateRuntime, RuntimeAgents, AgentsMatched
<1>3. ASSUME NEW t \in Tools, ToolStep(t) PROVE TypeOK'
  <2> USE DEF CallPhases
  <2>1. CASE CallTool(t)
    <3>1. call' \in [Tools -> CallPhases]
      BY <2>1 DEF CallTool, Decide
    <3>2. permitted' \subseteq Tools /\ lacking' \subseteq Tools
      BY <2>1 DEF CallTool, ToolsMatched
    <3> QED
      BY <2>1, <3>1, <3>2 DEF CallTool
  <2>2. CASE AnswerPermissions(t)
    BY <2>2 DEF AnswerPermissions
  <2>3. CASE LoadPermissions(t)
    <3>1. call' \in [Tools -> CallPhases]
      BY <2>3 DEF LoadPermissions, Decide
    <3>2. reply' \in [Tools -> Holdings] /\ cache' \in Holdings
      BY <2>3, NothingIsAHolding DEF LoadPermissions
    <3> QED
      BY <2>3, <3>1, <3>2 DEF LoadPermissions
  <2>4. CASE AnswerCheck(t)
    <3>1. match_permission(held, UseTool(t)) \in BOOLEAN
      BY DEF match_permission
    <3> QED
      BY <2>4, <3>1 DEF AnswerCheck
  <2>5. CASE UseCheck(t) \/ CallOver(t)
    BY <2>5 DEF UseCheck, CallOver
  <2> QED
    BY <1>3, <2>1, <2>2, <2>3, <2>4, <2>5 DEF ToolStep
<1>4. CASE TurnOver
  BY <1>4 DEF TurnOver
<1>5. CASE Idle \/ UNCHANGED vars
  BY <1>5 DEF Idle, vars
<1> QED
  BY <1>1, <1>2, <1>3, <1>4, <1>5 DEF Next

\* Type correctness of the turn.
THEOREM TypeCorrect == Spec => []TypeOK
  BY InitType, StepType, PTL DEF Spec

-----------------------------------------------------------------------------
(* What a call is decided by *)

\* The turn has had its first tool call.
CallsBegan == cache # NotLoaded \/ \E t \in Tools : call[t] # "none"

\* The permissions a call may be allowed by were seen since the first call.
AllowedBySeen ==
  /\ CallsBegan => ToolsMatched(held, Tools) \subseteq permitted
  /\ cache # NotLoaded => ToolsMatched(cache, Tools) \subseteq permitted
  /\ \A t \in Tools :
       /\ call[t] = "fetched" => ToolsMatched(reply[t], Tools) \subseteq permitted
       /\ call[t] = "checked" /\ granted[t] => t \in permitted
       /\ call[t] = "allowed" => t \in permitted

\* The permission a call is denied for was missing during this call.
DeniedByMissing ==
  \A t \in Tools :
    /\ UnderWay(t) /\ t \notin ToolsMatched(held, Tools) => t \in lacking
    /\ call[t] = "checked" /\ ~granted[t] => t \in lacking
    /\ call[t] = "denied" => t \in lacking

DecisionInv == TypeOK /\ AllowedBySeen /\ DeniedByMissing

LEMMA InitDecision == Init => DecisionInv
<1> SUFFICES ASSUME Init PROVE DecisionInv
  OBVIOUS
<1>1. cache = NotLoaded /\ \A t \in Tools : call[t] = "none"
  BY DEF Init
<1> QED
  BY <1>1, InitType DEF DecisionInv, AllowedBySeen, DeniedByMissing, CallsBegan, UnderWay

LEMMA ChangeDecision ==
  ASSUME DecisionInv, TypeOK', Change
  PROVE  DecisionInv'
<1>1. UNCHANGED <<cache, call, reply, granted>> /\ permitted \subseteq permitted' /\ lacking \subseteq lacking'
  BY DEF Change
<1>2. CallsBegan' => ToolsMatched(held', Tools) \subseteq permitted'
  BY DEF Change, CallsBegan
<1>3. AllowedBySeen'
  BY <1>1, <1>2 DEF DecisionInv, AllowedBySeen, ToolsMatched
<1>4. \A t \in Tools : UnderWay(t) /\ t \notin ToolsMatched(held', Tools) => t \in lacking'
  BY DEF Change
<1>5. DeniedByMissing'
  BY <1>1, <1>4 DEF DecisionInv, DeniedByMissing, UnderWay
<1> QED
  BY <1>3, <1>5 DEF DecisionInv

LEMMA CallDecision ==
  ASSUME DecisionInv, TypeOK', NEW t \in Tools, ToolStep(t)
  PROVE  DecisionInv'
<1> USE DEF callVars, historyVars, SetCall
<1>0. /\ call \in [Tools -> CallPhases] /\ reply \in [Tools -> Holdings]
      /\ granted \in [Tools -> BOOLEAN]
  BY DEF DecisionInv, TypeOK
<1>1. CASE CallTool(t)
  <2>1. /\ UNCHANGED <<held, cache, reply, granted>> /\ call[t] = "none"
        /\ permitted' = permitted \union ToolsMatched(held, Tools)
        /\ \A u \in Tools : u # t => call'[u] = call[u] /\ (u \in lacking' <=> u \in lacking)
        /\ t \notin ToolsMatched(held, Tools) => t \in lacking'
    BY <1>0, <1>1 DEF CallTool, Decide
  <2>2. /\ call'[t] \in {"fetching", "allowed", "checking"}
        /\ call'[t] = "allowed" => cache # NotLoaded /\ t \in ToolsMatched(cache, Tools)
    BY <1>0, <1>1 DEF CallTool, Decide, ToolsMatched
  <2>3. AllowedBySeen'
    BY <2>1, <2>2 DEF DecisionInv, AllowedBySeen, CallsBegan, ToolsMatched
  <2>4. DeniedByMissing'
    BY <2>1, <2>2 DEF DecisionInv, DeniedByMissing, UnderWay, ToolsMatched
  <2> QED
    BY <2>3, <2>4 DEF DecisionInv
<1>2. CASE AnswerPermissions(t)
  <2>1. /\ UNCHANGED <<held, cache, granted, permitted, lacking>> /\ call[t] = "fetching"
        /\ \A u \in Tools : u # t => call'[u] = call[u] /\ reply'[u] = reply[u]
        /\ call'[t] = "fetched" /\ reply'[t] = held
    BY <1>0, <1>2 DEF AnswerPermissions
  <2>2. ToolsMatched(held, Tools) \subseteq permitted
    BY <2>1 DEF DecisionInv, AllowedBySeen, CallsBegan
  <2>3. AllowedBySeen'
    BY <2>1, <2>2 DEF DecisionInv, AllowedBySeen, CallsBegan, ToolsMatched
  <2>4. DeniedByMissing'
    BY <2>1 DEF DecisionInv, DeniedByMissing, UnderWay, ToolsMatched
  <2> QED
    BY <2>3, <2>4 DEF DecisionInv
<1>3. CASE LoadPermissions(t)
  <2>1. /\ UNCHANGED <<held, granted, permitted, lacking>> /\ call[t] = "fetched"
        /\ \A u \in Tools : u # t => call'[u] = call[u] /\ reply'[u] = reply[u]
        /\ cache' = reply[t]
        /\ call'[t] \in {"allowed", "checking"}
        /\ call'[t] = "allowed" => t \in ToolsMatched(reply[t], Tools)
    BY <1>0, <1>3 DEF LoadPermissions, Decide, ToolsMatched
  <2>2. /\ ToolsMatched(held, Tools) \subseteq permitted
        /\ ToolsMatched(reply[t], Tools) \subseteq permitted
    BY <2>1 DEF DecisionInv, AllowedBySeen, CallsBegan
  <2>3. AllowedBySeen'
    BY <2>1, <2>2 DEF DecisionInv, AllowedBySeen, ToolsMatched
  <2>4. DeniedByMissing'
    BY <2>1 DEF DecisionInv, DeniedByMissing, UnderWay, ToolsMatched
  <2> QED
    BY <2>3, <2>4 DEF DecisionInv
<1>4. CASE AnswerCheck(t)
  <2>1. /\ UNCHANGED <<held, cache, reply, permitted, lacking>> /\ call[t] = "checking"
        /\ \A u \in Tools : u # t => call'[u] = call[u] /\ granted'[u] = granted[u]
        /\ call'[t] = "checked" /\ (granted'[t] <=> t \in ToolsMatched(held, Tools))
    BY <1>0, <1>4 DEF AnswerCheck, ToolsMatched
  <2>2. ToolsMatched(held, Tools) \subseteq permitted
    BY <2>1 DEF DecisionInv, AllowedBySeen, CallsBegan
  <2>3. AllowedBySeen'
    BY <2>1, <2>2 DEF DecisionInv, AllowedBySeen, ToolsMatched
  <2>4. DeniedByMissing'
    BY <2>1 DEF DecisionInv, DeniedByMissing, UnderWay, ToolsMatched
  <2> QED
    BY <2>3, <2>4 DEF DecisionInv
<1>5. CASE UseCheck(t) \/ CallOver(t)
  <2>1. /\ UNCHANGED <<held, cache, reply, permitted, lacking>> /\ call[t] # "none"
        /\ \A u \in Tools : u # t => call'[u] = call[u] /\ granted'[u] = granted[u]
        /\ call'[t] \in {"allowed", "denied", "none"}
        /\ call'[t] = "allowed" => call[t] = "checked" /\ granted[t]
        /\ call'[t] = "denied" => call[t] = "checked" /\ ~granted[t]
    BY <1>0, <1>5 DEF UseCheck, CallOver
  <2>2. CallsBegan
    BY <2>1 DEF CallsBegan
  <2>3. AllowedBySeen'
    BY <2>1, <2>2 DEF DecisionInv, AllowedBySeen, ToolsMatched
  <2>4. DeniedByMissing'
    BY <2>1 DEF DecisionInv, DeniedByMissing, UnderWay, ToolsMatched
  <2> QED
    BY <2>3, <2>4 DEF DecisionInv
<1> QED
  BY <1>1, <1>2, <1>3, <1>4, <1>5 DEF ToolStep

LEMMA StepDecision == DecisionInv /\ [Next]_vars => DecisionInv'
<1> SUFFICES ASSUME DecisionInv, [Next]_vars PROVE DecisionInv'
  OBVIOUS
<1>1. TypeOK'
  BY StepType DEF DecisionInv
<1>2. CASE TurnOver
  <2>1. cache' = NotLoaded /\ \A t \in Tools : call'[t] = "none"
    BY <1>2 DEF TurnOver
  <2> QED
    BY <1>1, <2>1 DEF DecisionInv, AllowedBySeen, DeniedByMissing, CallsBegan, UnderWay
<1>3. ASSUME UNCHANGED <<held, callVars>> PROVE DecisionInv'
  <2>1. UNCHANGED <<held, cache, call, reply, granted, permitted, lacking>>
    BY <1>3 DEF callVars, historyVars
  <2> QED
    BY <1>1, <2>1 DEF DecisionInv, AllowedBySeen, DeniedByMissing, CallsBegan, UnderWay, ToolsMatched
<1>4. CASE \E s \in Scenes \union {NoScene}, a \in Agents : CreateRuntime(s, a)
  BY <1>3, <1>4 DEF CreateRuntime
<1>5. CASE Idle \/ UNCHANGED vars
  BY <1>3, <1>5 DEF Idle, vars
<1> QED
  BY <1>1, <1>2, <1>4, <1>5, ChangeDecision, CallDecision DEF Next

LEMMA DecisionsHold == Spec => []DecisionInv
  BY InitDecision, StepDecision, PTL DEF Spec

\* A tool that runs was permitted at some time since the first tool call of its
\* turn, whatever was cached, answered late or revoked.
THEOREM AllowedWasPermitted == Spec => []RunningToolsWerePermitted
<1>1. DecisionInv => RunningToolsWerePermitted
  BY DEF DecisionInv, AllowedBySeen, RunningToolsWerePermitted
<1> QED
  BY <1>1, DecisionsHold, PTL

\* A call is denied only for a permission that was missing during this call.
THEOREM DeniedWasMissing == Spec => []DenialsAreJustified
<1>1. DecisionInv => DenialsAreJustified
  BY DEF DecisionInv, DeniedByMissing, DenialsAreJustified
<1> QED
  BY <1>1, DecisionsHold, PTL

-----------------------------------------------------------------------------
(* What the endpoints promise each other *)

\* A permission that is broad for a kind of thing grants each thing of it,
\* "*" and "*:*" apart.
LEMMA BroadGrantsEach ==
  ASSUME NEW perms, perms \cap {<<"*">>, <<"*", "*">>} = {},
         NEW kind \in {"tool", "agent", "scene"}, NEW x,
         has_broad_permission(perms, <<"use", kind>>)
  PROVE  match_permission(perms, <<"use", kind, x>>)
<1>1. PICK p \in perms : p \in Everything \/ p = Append(<<"use", kind>>, "*")
  BY DEF has_broad_permission
<1>2. p = <<"*", "*", "*">> \/ p = <<"use", kind, "*">>
  BY <1>1 DEF Everything
<1>3. Len(p) = 3 /\ \A i \in 1..3 : p[i] \in {<<"use", kind, x>>[i], "*"}
  BY <1>2
<1> QED
  BY <1>3 DEF match_permission

LEMMA ListingsAgree ==
  ASSUME held \cap {<<"*">>, <<"*", "*">>} = {}
  PROVE  /\ list_tools(held) = ToolsMatched(held, Tools)
         /\ list_agents(held) = RuntimeAgents(held, NoScene)
         /\ \A s \in list_scenarios(held) :
              /\ DetailAllowed(held, s)
              /\ EnrichedAgents(held, s) = VisibleAgents(held, s) \cap Agents
              /\ EnrichedAgents(held, s) \subseteq RuntimeAgents(held, s)
              /\ \A a \in EnrichedAgents(held, s) :
                   EnrichedTools(held, s, a) \cap Tools \subseteq RuntimeTools(s, a)
<1>1. list_tools(held) = ToolsMatched(held, Tools)
  BY BroadGrantsEach DEF list_tools, ToolsMatched, UseTool
<1>2. ASSUME has_broad_permission(held, <<"use", "agent">>), NEW names
      PROVE  AgentsMatched(held, names) = names
  BY <1>2, BroadGrantsEach DEF AgentsMatched, UseAgent
<1>3. list_agents(held) = RuntimeAgents(held, NoScene)
  BY <1>2 DEF list_agents, RuntimeAgents
<1>4. ASSUME NEW s \in list_scenarios(held)
      PROVE  /\ DetailAllowed(held, s)
             /\ EnrichedAgents(held, s) = VisibleAgents(held, s) \cap Agents
             /\ EnrichedAgents(held, s) \subseteq RuntimeAgents(held, s)
             /\ \A a \in EnrichedAgents(held, s) :
                  EnrichedTools(held, s, a) \cap Tools \subseteq RuntimeTools(s, a)
  <2>1. s \in Scenes /\ s # NoScene
    BY DEF list_scenarios
  <2>2. DetailAllowed(held, s)
    BY BroadGrantsEach DEF list_scenarios, DetailAllowed, UseScene
  <2>3. EnrichedAgents(held, s) = AgentsMatched(held, SceneAgents[s]) \cap Agents
    BY DEF EnrichedAgents, AgentsMatched
  <2>4. VisibleAgents(held, s) = AgentsMatched(held, SceneAgents[s])
    BY <1>2 DEF VisibleAgents
  <2>5. RuntimeAgents(held, s) = Agents \cap AgentsMatched(held, SceneAgents[s])
    BY <2>1 DEF RuntimeAgents
  <2>6. ASSUME NEW a \in EnrichedAgents(held, s)
        PROVE  EnrichedTools(held, s, a) \cap Tools \subseteq RuntimeTools(s, a)
    BY <2>1 DEF EnrichedAgents, AgentsMatched, EnrichedTools, ToolsMatched, RuntimeTools
  <2> QED
    BY <2>2, <2>3, <2>4, <2>5, <2>6
<1> QED
  BY <1>1, <1>3, <1>4

\* What the list endpoints show can be opened and used, and nothing usable is
\* left out, for every list of permissions without "*" and "*:*".
THEOREM ListingsAgreeAlways == Spec => []ListingsAgreeWithChecks
<1>1. ListingsAgreeWithChecks
  BY ListingsAgree DEF ListingsAgreeWithChecks
<1> QED
  BY <1>1, PTL

\* discover_agents offers the agents a handoff can reach, all and only those.
THEOREM DiscoveredCanBeReached == Spec => []DiscoveredAgentsCanBeHandedOffTo
<1>1. DiscoveredAgentsCanBeHandedOffTo
  BY DEF DiscoveredAgentsCanBeHandedOffTo, discover_agents, RuntimeAgents, AgentsMatched
<1> QED
  BY <1>1, PTL
=============================================================================
