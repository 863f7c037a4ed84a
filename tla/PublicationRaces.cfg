\* Two App requests race two step executions around a failure and a hold.
SPECIFICATION Spec
CONSTANTS
  Requests = {r1, r2}
  Workers = {w1, w2}
  ActionKeys = {"k1"}
  Steps <- AllSteps
  MaxRevision = 5
  MaxStaleness = 1
SYMMETRY Both
INVARIANTS TablesAgree RulesAgree
PROPERTIES HoldOnlyReconciled ImplementsLedger
CHECK_DEADLOCK FALSE
