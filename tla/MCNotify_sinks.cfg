SPECIFICATION Spec
CONSTANTS
  Capacity = 2
  Total = 4
  Reruns = 1
  Limit = 2
  MaxCost = 1
  MaxSteps = 3
INVARIANTS
  FlushedMeansSettled
  EndCounts
  AnnouncedOnce
PROPERTIES
  DeliverySpec
