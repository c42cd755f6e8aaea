SPECIFICATION TpSpec
CONSTANTS
  Session = {1, 2}
  SEQS = 256
  FIRST_SEQ = 245
  PLEN = 8
  AWND = 48
  MAX_RTO = 2
  TP_MAX_NUM = 1
  TpScenarios <- MCTpEnd
CHECK_DEADLOCK FALSE
INVARIANT SendingIsBinary
