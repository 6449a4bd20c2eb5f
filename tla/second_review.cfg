CONSTANTS
  N = 3
  Generations = 1
  Parents <- FallbackDag
  Synthesis = {3}
  Configs <- Asking
  Outcomes = {"allow","review"}
  Answers = {"retry","cancel"}
  Clocks = FALSE
  MaxCrashes = 0
  PollBound = 0
SPECIFICATION Spec
CHECK_DEADLOCK FALSE
INVARIANT NeverAborts
