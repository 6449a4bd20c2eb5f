CONSTANTS
  Tasks = {"scan", "file"}
  TypeOf <- TypeByTask
  AgentTypes <- DefaultTypes
  WorkerCount = 2
  MaxTurns = 2
  MaxRetries = 1
  ClaimFaults = {}
  ReportFaults = {}
  MaxFaults = 0
  MaxForeign = 0
SPECIFICATION FairSpec
CHECK_DEADLOCK FALSE
PROPERTY EveryRowEnds
