\* Two processes that crash, run out of disk and stand still.
SPECIFICATION FairSpec
CONSTANTS
  Procs = {p, q}
  NoProc = NoProc
  MaxCalls = 2
  Postgres = FALSE
  Faults = {"crash", "disk", "stall"}
CHECK_DEADLOCK FALSE
PROPERTIES
  VanishesOnlyInRewrite
  AppendsEnd
