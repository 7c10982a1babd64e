SPECIFICATION MCSpec
CONSTANTS
  Materials <- MCMaterials
  restMass = 1
  fElectronTrackingCut = 1
  LowEnergyThreshold = 1
  theLowEnergyThreshold = 0
  maxSteps = 3
  maxLoops = 1
  tinyStepPenalty = 1
  returnAllSteps = FALSE
  NSlots = 6
  Primaries <- MCPrimaries
  Word = 4
  returnLast = TRUE
  lastNParticlesOnCPU = 2
INVARIANTS
  OneDestination
  EnergyIsAccountedFor
  DepositsAreScored
  OtherBuildsScoreDeposits
  SplitLosses
PROPERTIES
  EveryShowerEnds
