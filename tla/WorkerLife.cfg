SPECIFICATION ObjectSpec
CONSTANTS
  Workers = {w1, w2, w3}
  HitWorkers = {w1}
  Volumes <- MCVolumes
  Hits <- MCHits
CHECK_DEADLOCK FALSE
INVARIANTS
  DataOutlivesItsUsers
  CleanUpFreesOnce
  TouchablesAreOfTheStep
PROPERTIES
  EveryWorkerStarts
