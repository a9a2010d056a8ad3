SPECIFICATION Spec
CONSTANTS
  c1 = c1
  c2 = c2
  a1 = a1
  p1 = p1
  p2 = p2
  Pollers = {p1}
  Cases = {c1, c2}
  Aliases = {}
  AliasOf <- NoAlias
  AgentStatuses <- TwoOutcomes
  MaxConcurrency = 1
  MaxReceive = 3
  MaxCases = 1
  StaleReads = FALSE
  MaxQueue = 1
  MaxHuman = 0
  MaxFaults = 0
  MaxLoose = 0
  MaxFlips = 1
CHECK_DEADLOCK FALSE
PROPERTY PollerObeysMode
