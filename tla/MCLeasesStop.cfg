CONSTANTS
  Sources = {a}
  NeedsKey = {}
  LoopWorkers = {loop}
  OnceWorkers = {}
  MaxJobs = 3
  LeaseSeconds = 1
  FetchLimit = 1
  PollSeconds = 1
  BackoffCap = 3
  RetryAfters = {0}
  MaxClock = 2
  MaxClaims = 2
SPECIFICATION ReliableSpec
PROPERTIES OrderlyStopReleases
