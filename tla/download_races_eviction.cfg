CONSTANTS
  p1 = p1
  p2 = p2
  p3 = p3
  Posts <- MCPosts
  MaxUploads = 2
  MaxActiveJobs = 1
  Cap = 2
  MaxBody = 4
  MaxChunk = 2
  Statuses = {400, 503}
  Names <- MCNames
  Kind <- MCKind
  Stem <- MCStem
  Sizes = {1, 2, 3}
  MaxFiles = 3
  FileCap = 2
  TotalCap = 4
  MaxMembers = 2
  Budget = 3
  f1 = f1
  f2 = f2
  trace = trace
  d1 = d1
  d2 = d2
  XmlFiles <- MCXmlFiles
  Trace = trace
  Downloads <- MCDownloads
  MaxPages = 2
  Corpus <- MCCorpus
  Label <- MCLabel
  Scanless = {"v1p3"}
  Concurrency = 2
SPECIFICATION Spec
SYMMETRY MCSymmetry
CHECK_DEADLOCK FALSE
INVARIANT ServedIsAlwaysComplete
