CONSTANTS
  Procs = {"run","cli"}
  Subjects = {"alice","bob"}
  Tools = {"read","write"}
  Args = {"x"}
  Rules <- ReadsOnly
  InitialTrust = 1000
  MaxTrust = 2000
  TrustFloor = 0
  Decays = {0}
  StoreFaults = {}
  SinkFaults = {}
  MaxOps = 3
  MaxFaults = 0
SPECIFICATION Spec
CHECK_DEADLOCK FALSE
PROPERTY DestroyedStaysDestroyed
