SPECIFICATION Spec
CONSTANTS
  NumSlots = 5
  Parallel = 2
  Resume = FALSE
  RetryOnResume = FALSE
  RetryOn <- MCRetryOn
  CostLimitSet = FALSE
  CostLimit = 1
  MaxCost = 2
  Cats <- MCCats
  Actionable <- MCActionable
  AgentInternal = 3
  BreakerOn = FALSE
  MinSamples = 2
  SharePct = 80
  Outcomes <- MCOutcomes
  Archived <- Nothing
  GovernorOn = TRUE
  SignalsWired = FALSE
  CancelDeadlineZero = FALSE
  MaxSignals = 0
  WritesMayFail = FALSE
INVARIANTS
  ConcurrencyRestored
