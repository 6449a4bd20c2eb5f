CONSTANTS
  N = 3
  Generations = 1
  Parents <- FallbackDag
  Synthesis = {3}
  Configs <- Asking
  Outcomes = {"allow"}
  Answers = {"retry","reassign","cancel"}
  Clocks = FALSE
  MaxCrashes = 0
  PollBound = 1
SPECIFICATION Spec
CHECK_DEADLOCK FALSE
INVARIANT TypeOK
INVARIANT NoDeadLetterForgotten
INVARIANT FailureStands
INVARIANT NeverAborts
PROPERTY KeepsPromise
