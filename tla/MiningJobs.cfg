\* Two overlapping jobs, one input of any content, three faults.
SPECIFICATION FairSpec
CONSTANTS
  Jobs = {j1, j2}
  Inputs = {i1}
  CleanupInvalid = TRUE
  MaxFaults = 3
CHECK_DEADLOCK FALSE
INVARIANTS
  DoneIsDone OneDraftPerLease OneWorker NeverBothRoutes
PROPERTIES
  EveryInputServed
