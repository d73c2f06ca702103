\* Two threads race for a cap, after a capped warmup over the same sockets.
CONSTANTS
  Concurrency = 2
  Threads = 2
  OrderSize = 3
  Duration = TRUE
  MaxRequests = 2
  Warmup = TRUE
  WarmupRequests = 1
  Repetitions = 1
  MaxErrorSamples = 1
  WordSize = 8
  StartBound = 3
SPECIFICATION FairSpec
INVARIANTS
  ActiveMatches
  PhaseComplete
  StaleEventsSpareFresh
  AnswerMatchesRequest
  CapOvershootBounded
PROPERTIES
  RunEnds
  ImplementsClosedLoop
