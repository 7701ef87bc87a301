SPECIFICATION CancelSpec
CONSTANTS
  NumSlots = 3
  Parallel = 2
  Resume = FALSE
  RetryOnResume = FALSE
  RetryOn <- MCRetryOn
  CostLimitSet = FALSE
  CostLimit = 1
  MaxCost = 2
  Cats <- MCCats
  Actionable <- MCActionable
  AgentInternal = 3
  BreakerOn = TRUE
  MinSamples = 2
  SharePct = 80
  Outcomes <- MCOutcomes
  Archived <- Nothing
  GovernorOn = TRUE
  SignalsWired = TRUE
  CancelDeadlineZero = FALSE
  MaxSignals = 2
  WritesMayFail = TRUE
INVARIANTS
  SlotsConserved
  InFlightAgrees
  NoStrandedWork
  FinalLedger
PROPERTIES
  NoStartAfterStop
  CancelEnds
