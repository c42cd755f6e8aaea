SPECIFICATION IvFairSpec
CONSTANTS
  NA = NA
  NB = NB
  NC = NC
  ia = ia
  ib = ib
  ib2 = ib2
  ic = ic
  DEFAULT = DEFAULT
  Iface = {ia, ib, ib2, ic}
  Owner <- MCOwner
  Primary <- MCPrimary
  TQ_MAX_VALUE = 200
  HOP_PENALTY = 20
  TQ_LOCAL_WINDOW_SIZE = 2
  TQ_GLOBAL_WINDOW_SIZE = 2
  TTL = 4
  EXPECTED_SEQNO_RANGE = 3
  MAX_AGGREGATION_PACKETS = 2
  PURGE_TIMEOUT = 2
  SeqnoMod = 6
  IvScenarios <- MCScenarios
INVARIANTS EchoesHeard TqBounded
PROPERTY IvConverges
