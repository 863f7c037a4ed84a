SPECIFICATION FairSpec
CONSTANTS
  Workers = {w1, w2}
  Slots = 2
  StepTries = 3
  Faults = {"answer", "reply"}
  CrashPoints = {"begin", "call", "project", "write", "record", "mark", "requeue", "return", "repair"}
  MaxFaults = 2
  UserActions = {"retry", "cancel"}
\* A run ends ready, failed, cancelled, or in a hold without evidence.
CHECK_DEADLOCK FALSE
INVARIANTS
  SettlesForCause LedgersInStep NoBlindResume
PROPERTIES
  DoneStaysDone HoldEnds
