\* Two overlapping handoff requests, two possible transcripts, two faults.
SPECIFICATION FairSpec
CONSTANTS
  Requests = {r1, r2}
  Texts = {t1, t2}
  MaxFaults = 2
CHECK_DEADLOCK FALSE
INVARIANTS
  OneTranscript StartIsProven
PROPERTIES
  HoldsForDoubtOnly EventuallyStarted
