SPECIFICATION FairSpec
CONSTANTS
  MAX_QUEUED_FRAMES = 3
  MaxFrames = 5
  PacingWindow = 1
  RenderWindow = 1
INVARIANTS
  Consistent
  FramesKept
  TeardownIsQuiet
PROPERTIES
  KeepsPromise
  MovesOn
\* After ~Pacer() nothing runs; the lost wakeup of StopEnds also stops here.
CHECK_DEADLOCK FALSE
