SPECIFICATION Safety
CONSTANTS
  w1 = w1
  w2 = w2
  Workers = {w1}
  MaxEvents = 2
  MaxTracks = 1
  BufferSize = 1
  MaxSteps = 2
  LeakThreshold = 0
  HitThreshold = 0
  SpuriousWakeUps = FALSE
CHECK_DEADLOCK FALSE
INVARIANTS
  HitsAreOfThisEvent
