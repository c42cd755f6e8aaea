SPECIFICATION BlaFairSpec
CONSTANTS
  g1 = g1
  g2 = g2
  g3 = g3
  m1 = m1
  m2 = m2
  Gateway = {g1, g2, g3}
  Mac = {m1}
  Group <- Groups
  BLA_WAIT_PERIODS = 1
  BlaScenarios <- Troubles
  MaxFrames = 1
INVARIANTS RequestsCounted CrcMatches
PROPERTY ClaimsConverge
CHECK_DEADLOCK FALSE
