SPECIFICATION Safety
CONSTANTS
  w1 = w1
  w2 = w2
  Workers = {w1}
  MaxEvents = 2
  MaxTracks = 2
  BufferSize = 1
  MaxSteps = 1
  LeakThreshold = 1
  HitThreshold = 1
  SpuriousWakeUps = FALSE
CHECK_DEADLOCK FALSE
INVARIANTS
  ReturnedTracksAreOfThisEvent
