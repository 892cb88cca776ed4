SPECIFICATION Spec
CONSTANTS
  Tools = {"search", "calc"}
  Agents = {"reviewer", "writer"}
  Scenes = {"review", "write"}
  SceneAgents <- MCSceneAgents
  SceneTools <- MCSceneTools
  NoScene = NoScene
  NoAgent = NoAgent
  NotLoaded = NotLoaded
  Grantable <- MCGrantable
  MaxHeld = 2
  MaxChanges = 2
INVARIANTS
  RunningToolsWerePermitted
  DenialsAreJustified
  ListingsAgreeWithChecks
  DiscoveredAgentsCanBeHandedOffTo
