SPECIFICATION Spec
CONSTANTS
  s1 = s1
  s2 = s2
  r1 = r1
  r2 = r2
  None = None
  Sessions = {s1, s2}
  Requests = {r1, r2}
  MaxPosts = 1
INVARIANTS
  StartWaitsForCleanup
CHECK_DEADLOCK FALSE
