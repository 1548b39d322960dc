CONSTANTS
  plain = plain
  injected = injected
  review = review
  unknown = unknown
  Tools <- MCTools
  UnknownTool = unknown
  Pausing <- MCPausing
  Interrupts <- MCPausing
  Uninjectable <- MCInjected
  EmptyTools <- MCPlain
  MayOmitId = TRUE
  MAX_TOOL_CALLS = 2
  MAX_TOOL_RETRIES = 2
  max_tool_retries = 2
  MaxBatch = 2
  MaxTurns = 2
  MaxFailures = 1
  MaxMessages = 5
SPECIFICATION ThreadSpec
INVARIANTS
  LastIsLast
  RequestsAreWellFormed
  OnlyFailuresHideWork
PROPERTIES
  RoundAnswersEveryCall
CHECK_DEADLOCK FALSE
