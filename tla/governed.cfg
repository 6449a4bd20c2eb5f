CONSTANTS
  N = 3
  Generations = 1
  Parents <- BranchDag
  Synthesis = {}
  Configs <- AskingAnywhere
  Outcomes = {"allow","deny","review","fault"}
  Answers = {"retry","cancel"}
  Clocks = FALSE
  MaxCrashes = 1
  PollBound = 1
SPECIFICATION Spec
CHECK_DEADLOCK FALSE
INVARIANT SuccessIsComplete
INVARIANT SkippedHasCause
 
 
INVARIANT NothingBlockedBelowFailure
INVARIANT DoneIsEarned
PROPERTY DependenciesMet
