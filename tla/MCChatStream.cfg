SPECIFICATION FairSpec
CONSTANTS
  r1 = r1
  r2 = r2
  Requests = {r1, r2}
  MemoryId = MemoryId
  None = None
  MaxUnread = 2
INVARIANTS
  SerialUntilHandover
  StoredTurnsAreOver
  NoAgentBehindReleasedLock
PROPERTIES
  ConnectedClientIsTold
  DisconnectIsCleanedUp
  FollowsSessionLock
