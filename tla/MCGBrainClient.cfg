SPECIFICATION FairSpec
CONSTANTS
  Requests = {q, r, s}
  MaxRetries = 1
  AttemptTime = 1
  Backoff <- MCBackoff
  Threshold = 2
  ResetTime = 2
  MaxTime = 7
  LastStart = 2
  MaxOutcomes = 3
INVARIANTS
  TripsOnRun
  OpenSinceLastFailure
PROPERTIES
  RefusalsAreRecent
  RequestsEnd
  TriedAgain
