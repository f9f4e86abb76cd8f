SPECIFICATION Spec
CONSTANTS
  small = small
  large = large
  Keys <- TwoFiles
  BytesOf <- TwoSizes
  MaxAssets = 2
  MaxTotalBytes = 2
  MaxLoads = 2
  MaxVoices = 2
  QueueCapacity = 2
  MaxCreates = 3
  MaxCommands = 4
INVARIANTS
  StoreConsistent
  VoiceHoldsAsset
  PinsBalance
  SlotsAgree
PROPERTY
  OwnCommandsOnly
