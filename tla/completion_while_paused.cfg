CONSTANTS
  N = 3
  Generations = 1
  Parents <- BranchDag
  Synthesis = {}
  Configs <- Asking
  Outcomes = {"allow"}
  Answers = {"retry","cancel"}
  Clocks = FALSE
  MaxCrashes = 0
  PollBound = 1
SPECIFICATION Spec
CHECK_DEADLOCK FALSE
INVARIANT WaitsOnSomething
