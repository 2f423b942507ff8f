\* A session that stops inside accepted drafts.
SPECIFICATION Spec
CONSTANTS
  session = session  plain1 = plain1  plain2 = plain2  h1 = h1  h2 = h2  h3 = h3
  NoHash = NoHash
  Req = {session}
  Sessions = {session}
  Chunks <- OneSession
  Hash = {h1, h2, h3}
  Embeds <- Embeddings
  MaxTokens <- MaxOutputs
  NumDrafts = 2
  Shift = 1
  DisableChunkedMM = FALSE
  TokenBudget = 4
  EncoderBudget = 3
  CacheSize = 3
  KvSlots = 12
  MaxNumRunningReqs = 2
INVARIANTS
  KvMatchesTokens
CHECK_DEADLOCK FALSE
