\* One client and a workload of one record: the next record is the same one.
CONSTANTS
  Concurrency = 1
  Threads = 1
  OrderSize = 1
  Duration = TRUE
  MaxRequests = 0
  Warmup = FALSE
  WarmupRequests = 0
  Repetitions = 1
  MaxErrorSamples = 1
  WordSize = 8
  StartBound = 3
SPECIFICATION Spec
INVARIANT StaleEventsSpareFresh
