\* Two tasks of one client, two tiers, two attempts on each, two reservations.
SPECIFICATION LFairSpec
CONSTANTS
  Ids = {a, b}
  NoId = NoId
  AnyName = AnyName
  auth = auth
  defense = defense
  Labels <- MCLabels
  LabelOf <- MCLabelOf
  Caps <- MCCaps
  Works = {call}
  Costs = {1, 2}
  Ttls = {2}
  MaxBudget = 3
  MaxTime = 4
  MaxCharges = 2
  Tasks = {s, t}
  LastTier = 2
  MaxRetries = 1
  AttemptTime = 1
  CallTtl = 2
  Delays = {0, 1}
  LastStart = 1
INVARIANTS
  AnsweredIsCharged
  InFlightIsHeld
  NeverOverReports
PROPERTIES
  CallsEnd
  HoldsEnd
