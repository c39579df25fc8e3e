SPECIFICATION FairSpec
CONSTANTS
  FAILED_DECODES_RESET_THRESHOLD = 2
  MaxUnits = 4
  MaxCodec = 2
  MaxChanges = 1
  MaxDecoders = 2
INVARIANTS
  FrameInfosMatch
  OneRequest
  NoUseAfterDelete
PROPERTY NobodyIsStuck
\* The stream ends.
CHECK_DEADLOCK FALSE
