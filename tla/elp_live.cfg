SPECIFICATION FairSpec
CONSTANTS
  U32 = 32
  WEIGHT_SCALE = 4
  PRIORITY_NEUTRAL = 4
  FULL_DUTY = 4
  TQ_MAX_VALUE = 8
  HALF_DUPLEX_PENALTY = 2
  LOSS_SCALE = 4
  EWMA_WEIGHT = 2
  OVERHEAD = 1
  FRAME_TIME = 4
  SEQ_HALF = 4
  ELP_MAX_AGE = 2
  MAX_GAP = 1
  Wifi = FALSE
  PROBES = 0
  Bitrates = {0, 1}
  FirstSeqnos = {3}
  MaxExpected = 2
  MaxInFlight = 1
  MaxLost = 1
  MaxRestarts = 1
PROPERTIES  KeepsBeingSeen
CHECK_DEADLOCK FALSE
