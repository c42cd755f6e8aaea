SPECIFICATION SeFairSpec
CONSTANTS
  wlan = wlan
  lan = lan
  NONE = NONE
  Hardif = {wlan, lan}
  Forw = {p1, p2, p3, p4, p5, p6, p7}
  NumBcasts <- MCNumBcasts
  BCAST_QUEUE_LEN = 2
  SqScenarios <- MCScenarios
  \* TVLV
  TvOrig = {"o1", "o2"}
  Processor = {1, 2}
  TvLen <- MCTvLen
  TvHandlers <- MCTvHandlers
  TvScenarios <- MCTv
  \* broadcasts
  FlOrig = {"g1", "g2"}
  FlFrame = {"f1", "f2", "f3"}
  FL_SEQS = 16
  FL_WINDOW_SIZE = 3
  FL_MAX_AGE = 3
  FL_SEQNO_RANGE = 5
  DUPLIST_SIZE = 2
  FlScenarios <- MCFl
INVARIANTS QueueAccounted NoUseAfterFree OneChain NoReferenceLeft
INVARIANTS FloodedOnce NoneMissed
PROPERTIES RemovalEnds CapabilitiesSettle
CHECK_DEADLOCK FALSE
