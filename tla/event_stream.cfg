CONSTANTS
  s1 = s1
  s2 = s2
  s3 = s3
  Streams <- MCStreams
  QueueSize = 2
  MaxSubscribers = 2
  MaxEvents = 3
  Endings <- MCEndings
SPECIFICATION FairSpec
CHECK_DEADLOCK FALSE
INVARIANTS
  TypeOK
  TerminalIsTruthful
  ConnectedHearTheEnd
PROPERTIES
  InOrderAndTerminalLast
  StreamsEnd
