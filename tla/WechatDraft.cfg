SPECIFICATION FairSpec
CONSTANTS
  MaxFaults = 2
  MaxHolds = 4
  Places <- AllPlaces
INVARIANTS DraftWritesSafe ReadyIsProven LedgersInStep
PROPERTIES EventuallySettled
CHECK_DEADLOCK FALSE
