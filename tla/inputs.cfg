\* A session of three chunks and two plain requests share a small pool and encoder cache.
SPECIFICATION FairSpec
CONSTANTS
  session = session  plain1 = plain1  plain2 = plain2  h1 = h1  h2 = h2  h3 = h3
  NoHash = NoHash
  Req = {session, plain1, plain2}
  Sessions = {session}
  Chunks <- Three
  Hash = {h1, h2, h3}
  Embeds <- Embeddings
  MaxTokens <- MaxOutputs
  NumDrafts = 0
  Shift = 0
  DisableChunkedMM = FALSE
  TokenBudget = 4
  EncoderBudget = 3
  CacheSize = 3
  KvSlots = 12
  MaxNumRunningReqs = 2
INVARIANTS
  EmbeddingsThere
  KvMatchesTokens
PROPERTIES
  EverySessionEnds
CHECK_DEADLOCK FALSE
