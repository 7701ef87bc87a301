SPECIFICATION FairSpec
CONSTANTS
  NumSlots = 3
  Parallel = 2
  Resume = TRUE
  RetryOnResume = TRUE
  RetryOn <- MCRetryOn
  CostLimitSet = TRUE
  CostLimit = 2
  MaxCost = 2
  Cats <- MCCats
  Actionable <- MCActionable
  AgentInternal = 3
  BreakerOn = TRUE
  MinSamples = 1
  SharePct = 50
  Outcomes <- NoPanic
  Archived <- Leftovers
  GovernorOn = FALSE
  SignalsWired = TRUE
  CancelDeadlineZero = FALSE
  MaxSignals = 1
  WritesMayFail = FALSE
INVARIANTS
  MetricsAgree
  OvershootBounded
PROPERTIES
  FinishedNeverRerun
  BreakerPrompt
  SweepEnds
