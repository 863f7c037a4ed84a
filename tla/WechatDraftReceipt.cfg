SPECIFICATION DraftSpec
CONSTANTS
  MaxFaults = 1
  MaxHolds = 3
  Places <- OnlyCoordinator
INVARIANTS HeldOncePerLoss
CHECK_DEADLOCK FALSE
