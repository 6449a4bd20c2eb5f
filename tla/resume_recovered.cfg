CONSTANTS
  N = 2
  Generations = 1
  Parents <- RowDag
  Synthesis = {}
  Configs <- Asking
  Outcomes = {"allow"}
  Answers = {"retry"}
  Clocks = FALSE
  MaxCrashes = 1
  PollBound = 1
SPECIFICATION Spec
CHECK_DEADLOCK FALSE
INVARIANT FailureStands
