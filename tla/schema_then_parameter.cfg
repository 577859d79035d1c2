CONSTANTS
  openai = openai
  anthropic = anthropic
  None = None
  Providers <- MCProviders
  Pages <- MCPages
  PageBound = 2
  MaxLists = 4
  Sampling = {"temperature"}
  MaxAttempts = 2
  MaxJobs = 2
  Lifetime = 0
  MaxNow = 1
  Kinds = {"layout", "trace"}
  Attempts = 2
  Scans = {1, 2}
SPECIFICATION Spec
CHECK_DEADLOCK FALSE
INVARIANT NamedParameterIsStripped
