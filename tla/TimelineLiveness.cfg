SPECIFICATION FairSpec
CONSTANTS
  QueueCapacity = 1
  MaxScheduledEvents = 2
  MaxFramesPerBlock = 2
  FrameModulus = 16
  SyncStop = TRUE
  BlockSizes <- OversizedToo
  Targets <- ReachableAndNever
  MaxCommands = 2
  MaxFrame = 4
  MaxEpoch = 1
  MaxFailures = 1
PROPERTIES
  EventsSettle
  EverythingReturns
