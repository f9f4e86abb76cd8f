SPECIFICATION FairSpec
CONSTANTS
  MaxGraphPlans = 2
  QueueCapacity = 1
  MaxStagings = 2
  MaxSubmissions = 3
INVARIANTS
  RenderedPlanIntact
  NoSlotLost
PROPERTIES
  ImplementsLifecycle
  ActivationTakesEffect
