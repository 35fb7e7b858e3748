SPECIFICATION Spec
CONSTANTS
  Forks = {1, 2}
  MaxHeight = 1
  ClientDeadline = 1
  Timeout = 2
INVARIANT
  UnknownHeightIsNotFound
CHECK_DEADLOCK FALSE
