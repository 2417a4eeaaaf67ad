SPECIFICATION ServeSpec
CONSTANTS
  MaxRequests = 3
  Client <- MCClient
  MaxCalls = 2
  Handlers = 2
  DrainTime = 1
  PerMinute = 1
  PerHour = 2
  TenantPerMinute = 2
  TenantPerHour = 3
  Minute = 1
  Hour = 2
  MaxEntries = 1
  MaxTime = 2
  LastSignal = 1
INVARIANT
  ExitsGracefully
CHECK_DEADLOCK FALSE
