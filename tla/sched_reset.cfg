\* A forced reset with a speculative step in flight.
SPECIFICATION FairSpec
CONSTANTS
  r1 = r1  r2 = r2
  NoFrame = NoFrame
  Req <- Two
  Rank <- Ranks
  PromptLen <- Prompts
  MaxTokens <- Limits
  PriorityPolicy = FALSE
  MaxModelLen = 6
  MaxNumScheduledTokens = 4
  MaxNumRunningReqs = 2
  LongPrefillThreshold = 2
  ChunkedPrefill = TRUE
  ReserveFullIsl = TRUE
  NumSpec = 1
  BlockSize = 2
  NumBlocks = 4
  MaxPrefixHit = 2
  MaxResets = 1
  ResetInFlight = TRUE
  ReuseIds = FALSE
  AllowPause = FALSE
  AllowAbort = FALSE
PROPERTIES
  StaleFramesDiscarded
CHECK_DEADLOCK FALSE
