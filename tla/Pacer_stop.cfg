SPECIFICATION FairSpec
CONSTANTS
  MAX_QUEUED_FRAMES = 3
  MaxFrames = 1
  PacingWindow = 1
  RenderWindow = 1
PROPERTY StopEnds
CHECK_DEADLOCK FALSE
