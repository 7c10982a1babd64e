SPECIFICATION MCSpec
CONSTANTS
  StepEffects <- MCStepEffects
  Regions = {"detector", "world"}
  Macros <- MCMacros
  fCapacity = 3
  CompactTenths = 9
  fBufferCapacity = 2
  FlushTenths = 4
  fBufferThreshold = 2
  LoopLimit = 1
  Garbage <- MCGarbage
  MaxTracks = 3
  MaxHits = 2
  MaxEvents = 2
  MaxPrimaries = 2
  MaxAdds = 2
INVARIANTS
  EveryTrackIsInOnePlace
  EventsEndClean
  HitsAreProcessed
  SeedsAreDistinct
  AddedTracksAreInGPURegions
PROPERTIES
  EveryShowerIsAnswered
