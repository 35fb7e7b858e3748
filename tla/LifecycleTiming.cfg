SPECIFICATION FairTimedSpec
CONSTANTS
  a = a
  Procs = {a}
  Timeout = 5
  StateBudget = 3
  StatusProbe = 2
  PollProbe = 2
  PollSleep = 1
  TicksPerSecond = 2
INVARIANT
  WithinAllowance
PROPERTY
  CommandsEnd
CHECK_DEADLOCK FALSE
