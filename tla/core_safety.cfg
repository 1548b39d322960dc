CONSTANTS
  plain = plain
  injected = injected
  review = review
  unknown = unknown
  Tools <- MCTools
  UnknownTool = unknown
  Pausing <- MCPausing
  Interrupts <- MCPausing
  Uninjectable <- MCUninjectable
  EmptyTools <- MCEmptyTools
  MayOmitId = TRUE
  MAX_TOOL_CALLS = 3
  MAX_TOOL_RETRIES = 2
  max_tool_retries = 3
  MaxBatch = 2
  MaxTurns = 2
  MaxFailures = 1
SPECIFICATION Spec
INVARIANTS
  TypeOK
  BudgetHeld
  AtMostOncePerAttempt
  FeedbackOfThisTurn
PROPERTIES
  RoundMakesProgress
  FreshTurnNotWedged
CHECK_DEADLOCK FALSE
