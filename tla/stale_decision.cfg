CONSTANTS
  approve = approve
  reject = reject
  Values <- MCValues
  MaxCalls = 2
SPECIFICATION Spec
INVARIANTS
  DecisionIsForItsRequest
SYMMETRY MCSymmetry
CHECK_DEADLOCK FALSE
