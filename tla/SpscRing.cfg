SPECIFICATION FairSpec
CONSTANTS
  Cap = 2
  Laps = 2
  Values = {1, 2, 5}
  ByteMod = 4
  MaxPushes = 6
INVARIANTS IInv
PROPERTIES ImplementsFifo Delivered
