\* One process, whose appends are serialized, with a mirror that may fail.
SPECIFICATION Spec
CONSTANTS
  Procs = {p}
  NoProc = NoProc
  MaxCalls = 4
  Postgres = TRUE
  Faults = {"mirror"}
CHECK_DEADLOCK FALSE
INVARIANTS
  NothingLost
  ExactlyOnce
  CallOrder
