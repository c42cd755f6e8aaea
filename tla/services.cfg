SPECIFICATION SvFairSpec
CONSTANTS
  pa = pa
  pb = pb
  pc = pc
  pd = pd
  pe = pe
  \* throughput meter
  Session = {1, 2}
  SEQS = 256
  FIRST_SEQ = 245
  PLEN = 8
  AWND = 48
  MAX_RTO = 2
  TP_MAX_NUM = 1
  TpScenarios <- MCTp
  \* fragmentation
  FragPacket = {pa, pb, pc, pd, pe}
  Length <- MCLength
  Mtu <- MCMtu
  HDR = 1
  FRAG_MAX_FRAG_SIZE = 5
  FRAG_MAX_FRAGMENTS = 3
  FRAG_BUFFER_COUNT = 2
  FRAG_SEQS = 4
  FragScenarios <- MCFrag
  \* gateways
  Gateways = {"g1", "g2"}
  GW_OVERHEAD = 300
  GW_FRAME = 600
  GwScenarios <- MCGw
  \* distributed ARP table
  DatNodes <- MCNodes
  Host = {"i1", "i2"}
  Mac <- MCMac
  At <- MCAt
  DAT_ADDR_MAX = 7
  dat_addr <- MCAddr
  ip_key <- MCKey
  DAT_CANDIDATES_NUM = 2
  DatScenarios <- MCDat
INVARIANTS SvTypeOK TotalWasReceived
 
INVARIANTS CandidatesClosest AnsweredOnce
PROPERTIES EveryTestEnds ImplementsChannel Arrives GatewaySettles RequestAnswered
CHECK_DEADLOCK FALSE
