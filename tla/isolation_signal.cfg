\* A signal arrives between the try block and SIG_IGN.
CONSTANTS
  Pid = {p1, p2, p3}
  NoPid = NoPid
  Forks = 1
  HostForks = 0
  Signals = 1
SPECIFICATION Spec
INVARIANT EveryExitCleans
