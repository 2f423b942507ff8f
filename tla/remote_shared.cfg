\* Loads within the step that fail, and are recomputed.
SPECIFICATION Spec
CONSTANTS
  r1 = r1  r2 = r2  p = p
  NoLoad = NoLoad
  Req <- Two
  Prompt <- SamePrompt
  Length <- Lengths
  BlockSize = 2
  Blocks <- Three
  MaxNumRunningReqs = 2
  TokenBudget = 3
  ReserveFullIsl = FALSE
  LoadModes = {"sync"}
  Policies = {"recompute"}
INVARIANTS
  SharedBlocksRecomputed
CHECK_DEADLOCK FALSE
