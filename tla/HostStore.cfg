SPECIFICATION FairSpec
CONSTANTS
  Host = {a, b}
  MaxValue = 2
  MaxEdits = 3
INVARIANTS
  NoChangeLost
PROPERTIES
  HostsSurvive
  DeletedStaysDeleted
  ChangesReachDisk
