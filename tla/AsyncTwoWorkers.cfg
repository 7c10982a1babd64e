SPECIFICATION Safety
CONSTANTS
  w1 = w1
  w2 = w2
  Workers = {w1, w2}
  MaxEvents = 1
  MaxTracks = 1
  BufferSize = 1
  MaxSteps = 1
  LeakThreshold = 1
  HitThreshold = 1
  SpuriousWakeUps = FALSE
INVARIANTS
  HitsAreQueued
SYMMETRY Symmetry
