CONSTANTS
  j1 = j1
  j2 = j2
  j3 = j3
  sA = sA
  sB = sB
  InstallDir = InstallDir
  ToolDir = ToolDir
  TmpDir = TmpDir
  None = None
  Jobs <- ThreeJobs
  Stagings <- TwoStagings
CHECK_DEADLOCK FALSE
SPECIFICATION FairSpec
INVARIANTS
  TypeOK
  LockExclusive
  TurnMeansFree
  WaiterHasChild
PROPERTIES
  ImplementsQueue
  JobsEnd
