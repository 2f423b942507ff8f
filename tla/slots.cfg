\* The deployed mode: the rejected-context mask is on.
SPECIFICATION Spec
CONSTANTS
  r1 = r1  r2 = r2  r3 = r3
  NoSlot = NoSlot
  Req <- Three
  PromptLen <- PromptsOfThree
  MaxBatchSize = 2
  Window = 2
  NumSpec = 1
  MaxLen <- LimitsOfThree
  MaxPrefixHit = 1
  MaxPreemptions = 1
  DrafterLen = 5
  GpuMask = TRUE
INVARIANTS
  SlotsExclusive
  NeverRaises
  ContextKept
  DraftInputsRight
SYMMETRY Symmetry
PROPERTIES
  SlotStable
CHECK_DEADLOCK FALSE
