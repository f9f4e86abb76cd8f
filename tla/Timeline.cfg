SPECIFICATION Spec
CONSTANTS
  QueueCapacity = 2
  MaxScheduledEvents = 2
  MaxFramesPerBlock = 2
  FrameModulus = 16
  SyncStop = TRUE
  BlockSizes <- OversizedToo
  Targets <- MixedTargets
  MaxCommands = 3
  MaxFrame = 4
  MaxEpoch = 1
  MaxFailures = 1
INVARIANTS
  ReservationConservation
  NeverDropped
  QuiescentAccounting
  SubmissionGuarantee
  ScheduledOrder
  NothingPassedOver
PROPERTY
  ImplementsTimeline
