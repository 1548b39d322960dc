CONSTANTS
  approve = approve
  reject = reject
  review = review
  plain = plain
  unknown = unknown
  Values <- MCValues
  MaxCalls = 3
  Tools <- MCTools
  UnknownTool = unknown
  Pausing <- MCPausing
  Interrupts <- MCPausing
  Uninjectable <- MCNone
  EmptyTools <- MCPlain
  MayOmitId = FALSE
  MAX_TOOL_CALLS = 2
  MAX_TOOL_RETRIES = 2
  max_tool_retries = 2
  MaxBatch = 2
  MaxTurns = 2
  MaxFailures = 1
SPECIFICATION ReviewedSpec
INVARIANTS
  TypeOK
  OnlyDisplayedIds
  OnlyOfferedValues
  OneDecisionPerCall
  CardsFitBudget
SYMMETRY MCSymmetry
CHECK_DEADLOCK FALSE
