SPECIFICATION Spec
CONSTANTS
  QueueCapacity = 2
  MaxScheduledEvents = 2
  MaxFramesPerBlock = 2
  FrameModulus = 16
  SyncStop = FALSE
  BlockSizes <- SplitBlocks
  Targets <- ReachableAndNever
  MaxCommands = 3
  MaxFrame = 4
  MaxEpoch = 2
  MaxFailures = 1
INVARIANTS
  NoStaleExecution
  PunctualWithLead
PROPERTY
  DiscardsAreStale
