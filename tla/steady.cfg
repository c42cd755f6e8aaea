SPECIFICATION SteadySpec
CONSTANTS
  U32 = 64
  WEIGHT_SCALE = 4
  PRIORITY_NEUTRAL = 4
  FULL_DUTY = 4
  TQ_MAX_VALUE = 8
  HALF_DUPLEX_PENALTY = 2
  LOSS_SCALE = 4
  EWMA_WEIGHT = 2
  OVERHEAD = 1
  FRAME_TIME = 4
  n1 = n1
  n2 = n2
  n3 = n3
  if1 = if1
  if2 = if2
  Node = {n1, n2, n3}
  Primary = if1
  DEFAULT = DEFAULT
  None = None
  Originators = {n1}
  SEQ_HALF = 8
  OGM_MAX_AGE = 4
  SEQNO_RANGE = 6
  OGM_MAX_ORIGDIFF = 2
  TTL = 3
  HopPenalty = 1
  FullDuplex = FALSE
  Iface = {if1}
  Links <- TriangleFromN1
  KnownAtStart <- Triangle
  FirstSeqnos = {1}
  MaxSeqno = 4
  LinkCosts <- VaryingFirstHop
  Weights <- Heavier2
  MaxTicks = 0
  Flapping <- NoAddr
  Restarts = 0
INVARIANTS SteadyInv RoutesImprove NoRoutingLoop EachOgmOnce
CHECK_DEADLOCK FALSE
