SPECIFICATION FairSpec
CONSTANTS
  r1 = r1
  r2 = r2
  r3 = r3
  r4 = r4
  s1 = s1
  s2 = s2
  Requests = {r1, r2, r3, r4}
  Sessions = {s1, s2}
  None = None
INVARIANTS
  ExclusiveUntilHandover
  LockInv
PROPERTIES
  LocksAreFifoMutexes
  WaiterEventuallyServed
