CONSTANTS
  Sources = {a}
  NeedsKey = {}
  LoopWorkers = {loop}
  OnceWorkers = {once}
  MaxJobs = 3
  LeaseSeconds = 1
  FetchLimit = 1
  PollSeconds = 1
  BackoffCap = 3
  RetryAfters = {0}
  MaxClock = 3
  MaxClaims = 2
SPECIFICATION Spec
INVARIANTS RunningIffLeased WriterIsAlone
PROPERTIES OutcomeIsFinal RefinesSingleWriter
