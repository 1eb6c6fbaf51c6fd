CONSTANTS
  r1 = r1
  r2 = r2
  e1 = e1
  e2 = e2
  b1 = b1
  b2 = b2
  b3 = b3
  None = None
  Restarter = Restarter
  Requests <- TwoRequests
  Entries <- OneEntry
  Bash <- ThreeBash
  Kinds <- Lifecycle
  MaxCrashTimers = 1
  MaxCommandTimers = 2
SPECIFICATION Spec
SYMMETRY Symmetry
INVARIANTS
  TypeOK
  TerminalIsLive
  SessionIsLive
  StartingWillRun
PROPERTIES
  ImplementsLock
  CommandTimerOwnsBash
  AwaitedExitIsNoCrash
