CONSTANTS
  r1 = r1
  r2 = r2
  e1 = e1
  e2 = e2
  b1 = b1
  b2 = b2
  b3 = b3
  None = None
  Restarter = Restarter
  Requests <- OneRequest
  Entries <- OneEntry
  Bash <- TwoBash
  Kinds <- Everything
  MaxCrashTimers = 1
  MaxCommandTimers = 1
SPECIFICATION FairSpec
PROPERTIES
  RequestsEnd
  CrashRestartTried
