CONSTANTS
  plain = plain
  injected = injected
  review = review
  unknown = unknown
  Tools <- MCTools
  UnknownTool = unknown
  Pausing <- MCPausing
  Interrupts <- MCPausing
  Uninjectable <- MCUninjectable
  EmptyTools <- MCNone
  MayOmitId = FALSE
  MAX_TOOL_CALLS = 2
  MAX_TOOL_RETRIES = 2
  max_tool_retries = 2
  MaxBatch = 2
  MaxTurns = 1
  MaxFailures = 0
SPECIFICATION Spec
PROPERTIES
  NonRetryableExhausts
CHECK_DEADLOCK FALSE
