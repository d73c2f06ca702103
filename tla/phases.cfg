\* Three threads, a warmup and two repetitions, also against the lock-step promise.
CONSTANTS
  Threads = 3
  Warmup = TRUE
  Repetitions = 2
SPECIFICATION FairSpec
INVARIANTS
  RaceFree
  ReportIsComplete
PROPERTIES
  RunExits
  ImplementsLockStep
