SPECIFICATION Safety
CONSTANTS
  NWorkers = 1
  NSlot = 2
  Capacity = 5
  CopyThreshold = 2
  Word = 32
  MaxHits = 3
CHECK_DEADLOCK FALSE
INVARIANTS
  SwapsWaitForTheQueue
