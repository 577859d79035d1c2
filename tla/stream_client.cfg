CONSTANTS
  a = a
  b = b
  Jobs <- MCJobs
  Endings <- MCEndings
  MaxRetries = 1
  MaxGenerations = 3
SPECIFICATION FairSpec
CHECK_DEADLOCK FALSE
INVARIANTS
  TypeOK
  OneTransport
  ShownIsTrue
PROPERTIES
  ShownIsFinal
  EndIsShown
