CONSTANTS
  Polled = {1, 2, 3, 4}
  Keyed = {4}
  Slots = 2
  Delays = {1, 2}
  MaxFaults = 2
  Urls = {"d1", "d2", "d3", "g"}
  Docs = {"d1", "d2", "d3"}
  Host <- MCHost
  Validator <- MCValidator
  Size <- MCSize
  Redirects <- MCRedirects
  MaxRequests = 2
  MaxHops = 1
  MaxEntries = 2
  MaxBytes = 3
  FeedRequests = 2
  RetryAfters = {1, 2}
  MaxChanges = 1
  Copies = {"a", "b"}
  MaxCommits = 3
SPECIFICATION Spec
INVARIANTS NotModifiedIsCurrent CacheCounted PairsDescribeOneState
PROPERTIES EverySourcePolled LimitStopsFeed
