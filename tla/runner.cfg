\* Two requests, up to two drafts each, a preemption, a drained reset, and a
\* drafter that is skipped near its length limit.
SPECIFICATION Spec
CONSTANTS
  r1 = r1  r2 = r2
  NoReq = NoReq
  Req <- Two
  PromptLen <- Prompts
  MaxTokens <- Limits
  NumSpec = 2
  MaxModelLen = 6
  DrafterLen = 6
  MaxPrefixHit = 1
  MaxPreemptions = 1
  MaxResets = 1
  RemoveForgets = TRUE
  WantsLogprobs = {r2}
INVARIANTS
  FeedsRightTokens
  StartsWhereKvEnds
  DiscardsAgree
  PromptLogprobsWhole
  CorrectionMeetsGpu
CHECK_DEADLOCK FALSE
