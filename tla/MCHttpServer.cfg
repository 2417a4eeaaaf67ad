SPECIFICATION FairSpec
CONSTANTS
  MaxRequests = 3
  Client <- MCClient
  MaxCalls = 2
  Handlers = 2
  DrainTime = 1
  PerMinute = 1
  PerHour = 2
  TenantPerMinute = 2
  TenantPerHour = 3
  Minute = 2
  Hour = 3
  MaxEntries = 1
  MaxTime = 3
  LastSignal = 1
INVARIANTS
  HandlersAfterOperations
  HandlersRunOnce
  RateBound
  WindowsBounded
  RefusalsAreEarned
PROPERTIES
  ShutdownEnds
CHECK_DEADLOCK FALSE
