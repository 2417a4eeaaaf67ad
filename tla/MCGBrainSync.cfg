SPECIFICATION FairSpec
CONSTANTS
  Process <- MCProcess
  Work <- MCWork
  Full <- MCFull
  StaleAfter = 1
  ChildTime = 2
  MaxTime = 3
  LastStart = 3
INVARIANTS
  OneHolderPerBreak
PROPERTIES
  ReleaseKeepsOthersLock
  RefusedByFreshLock
  FullSyncRemembered
  RunsEnd
CHECK_DEADLOCK FALSE
