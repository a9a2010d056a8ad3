SPECIFICATION FairSpec
CONSTANTS
  c1 = c1
  c2 = c2
  a1 = a1
  p1 = p1
  p2 = p2
  Pollers = {p1}
  Cases = {c1}
  Aliases = {}
  AliasOf <- NoAlias
  AgentStatuses <- FewOutcomes
  MaxConcurrency = 1
  MaxReceive = 2
  MaxCases = 1
  StaleReads = FALSE
  MaxQueue = 1
  MaxHuman = 0
  MaxFaults = 2
  MaxLoose = 0
  MaxFlips = 1
CHECK_DEADLOCK FALSE
PROPERTIES HeadsMoveOn DetectedIsRecovered
