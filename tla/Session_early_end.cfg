SPECIFICATION FairSpec
CONSTANTS
  s1 = s1
  s2 = s2
  None = None
  Sessions = {s1}
  MaxEvents = 2
CONSTRAINT
  Apart
PROPERTIES
  EarlyEndIsFinal
