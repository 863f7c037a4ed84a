\* One recording, two accounts; one later login, expiry, revocation, lost answer,
\* failure or death.
SPECIFICATION FairSpec
CONSTANTS
  Users = {u1, u2}
  MaxLogins = 2
  MaxFaults = 1
INVARIANTS RetryKeepsAccount ShownIsStored
PROPERTIES DeletedStays ClearedForCause EventuallyShown
CHECK_DEADLOCK FALSE
