SPECIFICATION Spec
CONSTANTS
  MaxUserBuses = 2
  QueueCapacity = 2
  VoiceCount = 2
  MaxCreates = 3
  MaxCommands = 6
INVARIANTS
  BusSlotsAgree
  OwnGain
  HeardOnce
