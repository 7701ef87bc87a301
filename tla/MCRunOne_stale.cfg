SPECIFICATION Spec
CONSTANTS
  Cats <- MCCats
  RetryOn <- MCRetryOn
  MaxRetries = 1
  RetryOnResume = TRUE
  GovernorOn = TRUE
  StepLimit = 2
  EnvSetup = "bad"
  BadPatch = "bad"
  StepLimitCat = "bad"
  AgentInternal = "bad"
  Unknown = "bad"
  MaxSweeps = 3
  MaxFailures = 0
  MaxRefusals = 1
INVARIANTS
  CancelledByUser
