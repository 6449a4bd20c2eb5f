CONSTANTS
  Tasks = {"a", "b", "c"}
  Cooldown = 1
  Thresholds = {1}
  FeedCap = 5
  EventCap = 3
  Backlog = 0
  MaxTime = 1
SPECIFICATION FairSpec
CHECK_DEADLOCK FALSE
INVARIANT TypeOK
 
INVARIANT ReportedOnce
INVARIANT BelowThreshold
 
PROPERTY TripHolds
 
