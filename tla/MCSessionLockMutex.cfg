SPECIFICATION Spec
CONSTANTS
  r1 = r1
  r2 = r2
  r3 = r3
  s1 = s1
  Requests = {r1, r2, r3}
  Sessions = {s1}
  None = None
SYMMETRY Symmetry
INVARIANT MutualExclusion
