SPECIFICATION Spec
CONSTANTS
  kMaxFrame = 7
  Unit = 4
  MaxFramesPerBlock = 3
  AssetFrames = 3
  MaxDelayFrames = 2
  SmoothingFrames = 2
  Gains = {0, 4}
  Pans = {2, 4}
  Durations = {0, 3}
  Places <- ThreePlaces
  MaxFrame = 6
  MaxCommands = 4
INVARIANTS
  SplitIndependent
  FramesInOrder
PROPERTY
  Seamless
CHECK_DEADLOCK FALSE
