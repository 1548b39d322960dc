CONSTANTS
  plain = plain
  injected = injected
  review = review
  unknown = unknown
  Tools <- MCTools
  UnknownTool = unknown
  Pausing <- MCPausing
  Interrupts <- MCPausing
  Uninjectable <- MCUninjectable
  EmptyTools <- MCNone
  MayOmitId = TRUE
  MAX_TOOL_CALLS = 2
  MAX_TOOL_RETRIES = 1
  max_tool_retries = 1
  MaxBatch = 1
  MaxTurns = 1
  MaxFailures = 0
SPECIFICATION FairSpec
PROPERTIES
  TurnEnds
CHECK_DEADLOCK FALSE
