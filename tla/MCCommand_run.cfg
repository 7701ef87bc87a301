SPECIFICATION FairSpec
CONSTANTS
  Capacity = 2
  MaxChunks = 3
INVARIANTS
  OutputComplete
  NothingLeftBehind
  EnoughTimeSuffices
PROPERTIES
  CommandEnds
