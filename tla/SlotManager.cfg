SPECIFICATION Spec
CONSTANTS
  fSlotListSize = 3
  fFreeListSize = 3
  Threads = {d1, d2}
SYMMETRY ThreadSymmetry
INVARIANTS
  TypeOK
  NoSlotOwnedTwice
  FreeingNeverOverdraws
  SlotsAreConserved
CHECK_DEADLOCK FALSE
