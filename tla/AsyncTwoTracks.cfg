SPECIFICATION Spec
CONSTANTS
  w1 = w1
  w2 = w2
  Workers = {w1}
  MaxEvents = 1
  MaxTracks = 2
  BufferSize = 1
  MaxSteps = 2
  LeakThreshold = 0
  HitThreshold = 0
  SpuriousWakeUps = TRUE
INVARIANTS
  TypeOK
  TransportIsOver
  LeaksAreOnHost
PROPERTIES
  EveryFlushIsServed
  NothingIsDropped
  HitsAreNotLost
  ImplementsFlushService
