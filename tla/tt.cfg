SPECIFICATION UcFairSpec
CONSTANTS
  n1 = n1
  n2 = n2
  n3 = n3
  c1 = c1
  c2 = c2
  Node = {n1, n2, n3}
  Client <- OneClient
  Home <- AtN1
  Wifi = {FALSE}
  VN = 8
  TTL = 6
  OGM_APPEND_MAX = 0
  ROAMING_MAX_COUNT = 2
  PacketEntries = 2
  MtuEntries = 2
  SlowOgms = FALSE
  MaxInFlight = 1
  Scenarios <- Mishaps
INVARIANTS NothingForgotten NoFrameCircles
PROPERTIES Converges DeliveredByServer
CHECK_DEADLOCK FALSE
