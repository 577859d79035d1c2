CONSTANTS
  j1 = j1
  j2 = j2
  r1 = r1
  r2 = r2
  l1 = l1
  l2 = l2
  v1 = v1
  None = None
  Jobs <- MCJobs
  Lines <- MCLines
  Verdicts <- MCVerdicts
  Requests <- MCRequests
  TTL = 2
  MaxCompleted = 1
SPECIFICATION FairSpec
INVARIANTS
  TypeOK
  ClockIsExact
  AcknowledgedIsStored
PROPERTIES
  EvictionIsJustified
  IdleJobsLeave
