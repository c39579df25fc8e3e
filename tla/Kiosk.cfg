SPECIFICATION FairSpec
CONSTANTS
  s1 = s1
  s2 = s2
  r1 = r1
  None = None
  Sessions = {s1, s2}
  Requests = {r1}
  MaxPosts = 1
INVARIANTS
  Consistent
  StartWaitsForCleanup
PROPERTIES
  LastWordKept
  StartingEnds
  CatalogComes
  AgentRelearns
\* An empty answer to a start stops the kiosk for good.
CHECK_DEADLOCK FALSE
