SPECIFICATION AllSpec
CONSTANTS
  MaxGraphPlans = 2
  QueueCapacity = 1
  MaxStagings = 2
  MaxSubmissions = 2
  MaxAssets = 1
  MaxTotalBytes = 1
  Keys = {k1}
  BytesOf <- UnitSize
  MaxLoads = 2
  SourceNodeCount = 2
INVARIANTS
  PlansHoldAssets
  FreesWhatIsUnused
CHECK_DEADLOCK FALSE
