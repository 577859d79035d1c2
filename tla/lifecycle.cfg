CONSTANTS
  j1 = j1
  j2 = j2
  r1 = r1
  r2 = r2
  Jobs <- MCJobs
  Requests <- MCRequests
  Chunks = 1
  MaxActiveJobs = 2
SPECIFICATION FairSpec
CHECK_DEADLOCK FALSE
INVARIANTS
  TypeOK
  OutputsMatchStatus
  RetentionClockExact
  CancelHonoured
  RegistryTracksTasks
PROPERTIES
  TerminalIsFinal
  ImplementsContract
  LaunchedSettles
