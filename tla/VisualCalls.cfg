SPECIFICATION Spec
CONSTANTS
  Workers = {w1, w2}
  Visits = {v1, v2}
  MaxAttempts = 3
SYMMETRY Symmetry
INVARIANTS
  AtMostOneImage 
PROPERTIES
  ImplementsSideEffect
