SPECIFICATION Spec
CONSTANTS
  U32 = 64
  WEIGHT_SCALE = 4
  PRIORITY_NEUTRAL = 4
  FULL_DUTY = 4
  TQ_MAX_VALUE = 8
  HALF_DUPLEX_PENALTY = 2
  LOSS_SCALE = 4
  EWMA_WEIGHT = 2
  OVERHEAD = 1
  FRAME_TIME = 4
  n1 = n1
  n2 = n2
  n3 = n3
  if1 = if1
  if2 = if2
  Node = {n1, n2, n3}
  Primary = if1
  DEFAULT = DEFAULT
  None = None
  Originators = {n1}
  SEQ_HALF = 8
  OGM_MAX_AGE = 4
  SEQNO_RANGE = 6
  OGM_MAX_ORIGDIFF = 2
  TTL = 3
  HopPenalty = 1
  FullDuplex = FALSE
  Iface = {if1}
  Links <- Detour
  KnownAtStart <- DetourKnown
  FirstSeqnos = {1}
  MaxSeqno = 2
  LinkCosts <- AllCostOne
  Weights <- NoWeights
  MaxTicks = 2
  Flapping <- If1OfN3
  Restarts = 0
INVARIANTS TypeOK ReferencesHold
CHECK_DEADLOCK FALSE
