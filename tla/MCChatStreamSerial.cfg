SPECIFICATION Spec
CONSTANTS
  r1 = r1
  r2 = r2
  Requests = {r1, r2}
  MemoryId = MemoryId
  None = None
  MaxUnread = 1
SYMMETRY Symmetry
INVARIANT TurnsAreSerial
