\* Two requests, three drafts each, confidences 0, 1/3, 2/3 and 1.
SPECIFICATION Spec
CONSTANTS
  Rows = {1, 2}
  NumSpec = 3
  Unit = 3
  Tables <- CurvesExplored
  Thresholds <- ThresholdsExplored
  Forced = 1
INVARIANTS
  NothingPassedOver
  ExhaustiveIsOptimal
  EarlyStopIsOptimal
CHECK_DEADLOCK FALSE
