SPECIFICATION FairSpec
CONSTANTS
  Address = {1, 2}
  MaxFrames = 3
  MaxDecoders = 2
INVARIANTS
  Consistent
  GpuFramesKept
PROPERTIES
  ImportsUseReadyBackend
  FramesAreTaken
  KeepsPromise
\* The stream ends and its page is gone.
CHECK_DEADLOCK FALSE
