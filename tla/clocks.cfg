CONSTANTS
  N = 2
  Generations = 1
  Parents <- RowDag
  Synthesis = {}
  Configs <- Asking
  Outcomes = {"allow"}
  Answers = {"retry","bad"}
  Clocks = TRUE
  MaxCrashes = 0
  PollBound = 0
SPECIFICATION ClockSpec
CHECK_DEADLOCK FALSE
INVARIANT NoOrphanQuestion
PROPERTY RunEnds
