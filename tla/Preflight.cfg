SPECIFICATION Spec
CONSTANTS
  p1 = p1
  p2 = p2
  net = net
  Projects <- MCProjects
  Others <- MCOthers
  Addresses = {1, 2}
  Configured <- MCConfigured
  Checkouts <- MCCheckouts
  Timeout = 2
INVARIANTS
  TypeOK
  StandingNetworksAreClear
  CollisionIsForeign
  UpFindsBothImages
CHECK_DEADLOCK FALSE
