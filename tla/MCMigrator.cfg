SPECIFICATION FairSpec
CONSTANTS
  Process <- MCProcess
  Target <- MCTarget
  Up <- MCUp
  Latest = 2
  HasReplica = TRUE
INVARIANTS
  LedgerTellsSchema
  NoGaps
PROPERTIES
  RunMigrates
  RunsEnd
CHECK_DEADLOCK FALSE
