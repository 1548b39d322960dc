CONSTANTS
  plain = plain
  injected = injected
  review = review
  unknown = unknown
  rateLimit = rateLimit
  badRequest = badRequest
  ownError = ownError
  group = group
  Tools <- MCTools
  UnknownTool = unknown
  Pausing <- MCPausing
  Interrupts <- MCPausing
  Uninjectable <- MCUninjectable
  EmptyTools <- MCPlain
  MayOmitId = FALSE
  MAX_TOOL_CALLS = 3
  MAX_TOOL_RETRIES = 2
  max_tool_retries = 2
  MaxBatch = 2
  MaxTurns = 1
  MaxFailures = 0
  TRANSIENT_LLM_ERRORS <- MCTransient
  PERMANENT_LLM_ERRORS <- MCPermanent
  ExceptionGroup = group
  Exceptions <- MCExceptions
  RawResults <- MCOutcomeless
  llm_retry_max_attempts = 3
  max_invoke_retries = 2
SPECIFICATION RetrySpec
PROPERTIES
  ChargedByRealWork
CHECK_DEADLOCK FALSE
