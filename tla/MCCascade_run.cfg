SPECIFICATION Spec
CONSTANTS
  i1 = i1
  i2 = i2
  Instances <- MCInstances
  NumTiers = 2
  Limits <- MCLimits
  Parallel = 2
  Costs = {1}
  MaxFaults = 2
SYMMETRY Interchangeable
INVARIANTS
  LedgerAgrees
PROPERTIES
  CeilingShared
  NeverSkipsTier
