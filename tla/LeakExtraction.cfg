SPECIFICATION Spec
CONSTANTS
  Workers <- MCWorkers
  Tracks <- MCTracks
  LeakCapacity = 1
  NumFromDevice = 1
CHECK_DEADLOCK FALSE
INVARIANTS
  FlushedEventsHaveTheirTracks
PROPERTIES
  EveryFlushIsExtracted
