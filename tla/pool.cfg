CONSTANTS
  Tasks = {"scan", "file"}
  TypeOf <- TypeByTask
  AgentTypes <- TwoTypes
  WorkerCount = 3
  MaxTurns = 2
  MaxRetries = 1
  ClaimFaults = {"lost"}
  ReportFaults = {"late"}
  MaxFaults = 1
  MaxForeign = 1
SPECIFICATION FairSpec
CHECK_DEADLOCK FALSE
INVARIANT TypeOK
INVARIANT HoldsItsRow
PROPERTY ImplementsStore
PROPERTY ServedRowsEnd
PROPERTY StopDrains
