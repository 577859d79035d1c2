CONSTANTS
  j1 = j1
  j2 = j2
  r1 = r1
  r2 = r2
  Jobs <- MCJobs
  Requests <- MCOneRequest
  Chunks = 1
  MaxActiveJobs = 1
SPECIFICATION Spec
CHECK_DEADLOCK FALSE
PROPERTY CancelRequestedEndsCancelled
