SPECIFICATION Spec
CONSTANTS
  a = a
  b = b
  Procs = {a, b}
  Timeout = 3
  StateBudget = 1
  StatusProbe = 1
  PollProbe = 1
  PollSleep = 1
  TicksPerSecond = 2
INVARIANT
  KillIsReported
CHECK_DEADLOCK FALSE
