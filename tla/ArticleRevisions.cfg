\* Two revision requests, two producers' calls and one choice compete for a
\* line of versions, with one fault.
SPECIFICATION FairSpec
CONSTANTS
  Producers = {p1, p2}
  Keys = {k1}
  Requests = {q1, q2}
  Events = {e1, e2}
  Choices = {adopted}
  Handlers = {h1}
  Texts = {t1, t2}
  MaxCalls = 2
  MaxFaults = 1
CONSTANT Sources <- Both
INVARIANTS
  VersionsSound
PROPERTIES PublishedIsStored ChoicesAreSound EventuallyPublished
CHECK_DEADLOCK FALSE
