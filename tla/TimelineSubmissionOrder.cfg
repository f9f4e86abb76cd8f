SPECIFICATION Spec
CONSTANTS
  QueueCapacity = 2
  MaxScheduledEvents = 2
  MaxFramesPerBlock = 2
  FrameModulus = 16
  SyncStop = TRUE
  BlockSizes <- EmptyOrFull
  Targets <- NearTargets
  MaxCommands = 2
  MaxFrame = 2
  MaxEpoch = 0
  MaxFailures = 1
PROPERTY
  SubmissionOrderKept
