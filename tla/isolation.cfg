\* Three pids, which the host may take over; forks before and during the cleanup.
CONSTANTS
  Pid = {p1, p2, p3}
  NoPid = NoPid
  Forks = 1
  HostForks = 1
  Signals = 1
SPECIFICATION FairSpec
INVARIANTS
  NobodyLeft
  RemainSurvivedKill
  HostNeverSignalled
PROPERTY
  CleanupEnds
