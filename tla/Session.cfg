SPECIFICATION FairSpec
CONSTANTS
  s1 = s1
  s2 = s2
  None = None
  Sessions = {s1, s2}
  MaxEvents = 2
CONSTRAINT
  Apart
INVARIANTS
  Consistent
  CleanupOnce
  CallbacksSeeTheirSession
  
PROPERTIES
  KeepsContract
  SessionsEnd
  ExitRequestKept
