SPECIFICATION OperationSpec
CONSTANTS
  Requests = {r1, r2}
  Reads = {get_draft}
  Writes = {write_draft}
  MaxFaults = 2
SYMMETRY RequestSymmetry
INVARIANTS TokensSound ResultsSound
CHECK_DEADLOCK FALSE
