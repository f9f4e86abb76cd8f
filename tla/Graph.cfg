SPECIFICATION GraphSpec
CONSTANTS
  MaxNodes = 4
  MaxConnections = 4
  NodeTypes <- Types
  ExpectedInputs <- InputsOf
  InputChannels <- ChannelsIn
  OutputChannels <- ChannelsOut
  MostOfType <- OneOfEach
  MaxAdditions = 4
INVARIANTS
  CompilesExactlySound
  RendersMeaning
  BuffersReused
