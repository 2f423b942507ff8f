\* PRIORITY policy, two drafts per step, a pool that holds less than two full
\* requests, drained resets, aborts.
SPECIFICATION Spec
CONSTANTS
  r1 = r1  r2 = r2
  NoFrame = NoFrame
  Req <- Two
  Rank <- Ranks
  PromptLen <- Prompts
  MaxTokens <- Limits
  PriorityPolicy = TRUE
  MaxModelLen = 6
  MaxNumScheduledTokens = 4
  MaxNumRunningReqs = 2
  LongPrefillThreshold = 2
  ChunkedPrefill = TRUE
  ReserveFullIsl = TRUE
  NumSpec = 2
  BlockSize = 2
  NumBlocks = 4
  MaxPrefixHit = 2
  MaxResets = 1
  ResetInFlight = FALSE
  ReuseIds = FALSE
  AllowPause = TRUE
  AllowAbort = TRUE
INVARIANTS
  TypeOK
  PlaceholdersMatchInFlight
  ComputedMatchesTokens
  WorkerRowFits
  QueuesMatchStatus
  BlocksConserved
  ResumesFromKnownTokens
PROPERTIES
  StreamsSpec
CHECK_DEADLOCK FALSE
