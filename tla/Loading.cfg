SPECIFICATION Spec
CONSTANTS
  DeviceRates = {1, 2, 3}
  kMaxAssetSampleRateHz = 3
  Formats <- SomeFormats
  Files <- SomeFiles
  MaxFrames = 3
  MaxFileBytes = 70
  MaxFramesPerAsset = 4
INVARIANTS
  ReadsInside
  DecodesWhatWasWritten
  PreparedForDevice
  DeviceIntact
