SPECIFICATION Spec
CONSTANTS
  Ids = {a, b}
  NoId = NoId
  AnyName = AnyName
  auth = auth
  vuln = vuln
  defense = defense
  Labels <- MCLabels
  Caps <- MCCaps
  Works = {call}
  Costs = {1, 2}
  Ttls = {1}
  MaxBudget = 3
  MaxTime = 2
  MaxCharges = 2
SYMMETRY IdSymmetry
INVARIANT
  PersistedSpendIsLoaded
