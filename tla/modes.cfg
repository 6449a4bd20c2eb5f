CONSTANTS
  N = 4
  Generations = 0
  Parents <- WideDag
  Synthesis = {3}
  Configs <- Alone
  Outcomes = {"allow"}
  Answers = {}
  Clocks = FALSE
  MaxCrashes = 0
  PollBound = 1
SPECIFICATION FairSpec
CHECK_DEADLOCK FALSE
INVARIANT WaitsOnSomething
PROPERTY RunEnds
PROPERTY FailFastStops
PROPERTY KeepsPromise
