SPECIFICATION FairSpec
CONSTANTS
  Commands <- MCCommands
  Bash <- MCBash
  Denied <- MCDenied
  Canonical <- MCCanonical
  Scope <- MCScope
  StepLimit = 3
  Limits <- MCLimits
  Retries = 1
  Threshold = 2
  Window = 2
  Models = 2
  MaxCost = 1
  MaxCrashes = 1
INVARIANTS
  BudgetHolds
  RunsOnlyVetted
  StagnationExact
PROPERTIES
  CancelHeard
