SPECIFICATION MCSpec
CONSTANTS
  NWorkers = 2
  NSlot = 1
  Capacity = 5
  CopyThreshold = 2
  Word = 32
  MaxHits = 4
CHECK_DEADLOCK FALSE
INVARIANTS
  BufferTypeOK
  SegmentsAreDisjoint
  ReservedIsFree
  SegmentsBeginAtWritePtr
  SwapNeverThrows
  SegmentsAreQueued
PROPERTIES
  UsesBufferCorrectly
  HitsAreDelivered
  SwappedHitsArrive
