\* Loads in the background and within the step, both failure policies, aborts.
SPECIFICATION FairSpec
CONSTANTS
  r1 = r1  r2 = r2  p = p
  NoLoad = NoLoad
  Req <- Two
  Prompt <- SamePrompt
  Length <- Lengths
  BlockSize = 2
  Blocks <- Three
  MaxNumRunningReqs = 2
  TokenBudget = 3
  ReserveFullIsl = FALSE
  LoadModes = {"async", "sync"}
  Policies = {"recompute", "fail"}
INVARIANTS
  TransferTargetsHeld
  CacheTellsTruth
  TokensFromValidKv
PROPERTIES
  HeldBlocksComeBack
CHECK_DEADLOCK FALSE
