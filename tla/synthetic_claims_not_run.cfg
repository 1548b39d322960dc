CONSTANTS
  plain = plain
  injected = injected
  review = review
  unknown = unknown
  Tools <- MCTools
  UnknownTool = unknown
  Pausing <- MCPausing
  Interrupts <- MCPausing
  Uninjectable <- MCInjected
  EmptyTools = {}
  MayOmitId = FALSE
  MAX_TOOL_CALLS = 2
  MAX_TOOL_RETRIES = 2
  max_tool_retries = 2
  MaxBatch = 2
  MaxTurns = 2
  MaxFailures = 1
  MaxMessages = 5
SPECIFICATION ThreadSpec
INVARIANTS
  OrphansNeverRan
CHECK_DEADLOCK FALSE
