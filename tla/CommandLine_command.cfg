SPECIFICATION FairCommandSpec
CONSTANTS
  Forks = {}
  MaxHeight = 1
  ClientDeadline = 1
  Timeout = 2
  Depth = 3
  MaxPeers = 3
  Room = 2
  Coin = 10
  PeerLists <- MCPeerLists
  Fees <- MCFees
  Invocations <- MCAccepted
  Worlds <- MCWorlds
INVARIANTS
  CommandTypeOK
  PrecedenceHolds
  RefusedValuesFail
  ReportIsFaithful
  DoctorPassIsBacked
PROPERTY
  HandlerEnds
CHECK_DEADLOCK FALSE
