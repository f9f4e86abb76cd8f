SPECIFICATION FairSpec
CONSTANTS
  c1 = c1
  c2 = c2
  c3 = c3
  Commands = {c1, c2, c3}
  Garbage = Garbage
  RequestedCapacity = 3
  MaxPushes = 7
INVARIANTS
  SlotsNotShared
  OldestCopied
PROPERTIES
  ImplementsFifo
  Delivered
