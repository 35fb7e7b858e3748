SPECIFICATION FairSpec
CONSTANTS
  a = a
  b = b
  Procs = {a, b}
  Timeout = 2
  StateBudget = 1
  StatusProbe = 1
  PollProbe = 1
  PollSleep = 1
  TicksPerSecond = 1
PROPERTY
  ExpiredProbeIsUnknown
CHECK_DEADLOCK FALSE
