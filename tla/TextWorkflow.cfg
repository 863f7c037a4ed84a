SPECIFICATION FairSpec
CONSTANTS
  MaxFaults = 3
  Places <- AllPlaces
INVARIANTS LedgersBacked AskedOnce StrandedForCause
PROPERTIES RetryIsTakenUp
CHECK_DEADLOCK FALSE
