CONSTANTS
  Procs = {"cli"}
  Subjects = {"alice","bob"}
  Tools = {"read","write"}
  Args = {"x"}
  Rules <- ReadsOnly
  InitialTrust = 1000
  MaxTrust = 2000
  TrustFloor = 1000
  Decays = {0,20}
  StoreFaults = {"clean","late"}
  SinkFaults = {"clean","late","torn"}
  MaxOps = 4
  MaxFaults = 1
SPECIFICATION Spec
CHECK_DEADLOCK FALSE
INVARIANT TypeOK
INVARIANT LedgerVerifies
 
INVARIANT RecordsResolve
INVARIANT ContentHasOwner
 
INVARIANT OneHandlePerSubject
INVARIANT StopHolds
PROPERTY OneWay
