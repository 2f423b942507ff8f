SPECIFICATION FairSpec
CONSTANTS
  r1 = r1
  NoOp = NoOp
  Req <- MCReq
  Modes <- MCModes
  MaxDrafts = 1
  MaxSteps = 3
INVARIANTS
  ForwardSeesItsStep
  OutputsOfOwnStep
  HostReadsOwnStep
PROPERTY
  EveryStepAnswered
CHECK_DEADLOCK FALSE
