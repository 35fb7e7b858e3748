SPECIFICATION Spec
CONSTANTS
  Forks = {1, 2}
  MaxHeight = 1
  ClientDeadline = 1
  Timeout = 3
INVARIANT
  TimeoutMeansDeadline
CHECK_DEADLOCK FALSE
