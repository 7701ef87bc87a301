SPECIFICATION FairSpec
CONSTANTS
  w1 = w1
  w2 = w2
  Workers = {w1, w2}
  Parallel = 4
  MaxRpm = 2
  HalfMinute = 1
  RetryAfters = {1, 2}
  MaxReports = 3
  MaxPermits = 3
  Horizon = 5
INVARIANT RateBounded
INVARIANT NoStartupBurst
PROPERTY FloorHolds
PROPERTY AimdSpec
PROPERTY HalvedOnlyByStorm
PROPERTY CancelReleases
