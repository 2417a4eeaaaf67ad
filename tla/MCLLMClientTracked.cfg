SPECIFICATION UninterruptedSpec
CONSTANTS
  Ids = {a, b, c}
  NoId = NoId
  AnyName = AnyName
  auth = auth
  defense = defense
  Labels <- MCLabels
  LabelOf <- MCLabelOf
  Caps <- NoCaps
  Works = {call}
  Costs = {1, 2}
  Ttls = {2}
  MaxBudget = 3
  MaxTime = 4
  MaxCharges = 2
  Tasks = {s, t}
  LastTier = 2
  MaxRetries = 1
  AttemptTime = 1
  CallTtl = 2
  Delays = {0, 1}
  LastStart = 1
INVARIANT
  AnswersAreTracked
