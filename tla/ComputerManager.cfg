SPECIFICATION FairSpec
CONSTANTS
  c1 = c1
  c2 = c2
  t1 = t1
  t2 = t2
  None = None
  Computers = {c1, c2}
  Threads = {t1, t2}
INVARIANTS
  Consistent
  PollingFits
PROPERTY PollingEnds
