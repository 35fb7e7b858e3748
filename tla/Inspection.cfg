SPECIFICATION FairSpec
CONSTANTS
  Forks = {1, 2}
  MaxHeight = 1
  ClientDeadline = 1
  Timeout = 2
INVARIANTS
  TypeOK
  BlockWasActive
  OverviewIsBacked
  AuthenticationMeansRestart
  CategorySurvives
  WithinDeadline
PROPERTIES
  InspectionEnds
  KeepsContract
CHECK_DEADLOCK FALSE
