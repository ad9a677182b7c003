SPECIFICATION FairSpec
CONSTANTS
  Owners = {o1, o2, o3}
  Jobs <- MCJobs2
  LeaseTtl = 2
  MaxFaults = 1
  None = None
INVARIANTS
  TypeOK
  OneFreshWorker
  OneFreshService
  NoForgottenJob
  RerunIsFlagged
PROPERTIES LedgerSpec JobsSettle
