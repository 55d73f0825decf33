CONSTANTS
  MAX_CPU_FRAME_AHEAD = 1
  CommandBuffers = {c1, c2}
  Buffers = {b1}
  MaxFrame = 4
  MaxMessages = 4
  MaxCommands = 2
SPECIFICATION FairSpec
INVARIANTS
  FramesAhead
  StagingIntact
  RecordedStagingIntact
  PresentedComplete
PROPERTIES
  PresentReturns
CHECK_DEADLOCK FALSE
