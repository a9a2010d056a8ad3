SPECIFICATION Spec
CONSTANTS
  c1 = c1
  c2 = c2
  a1 = a1
  p1 = p1
  p2 = p2
  Pollers = {p1}
  Cases = {c1}
  Aliases = {}
  AliasOf <- NoAlias
  AgentStatuses <- EveryOutcome
  MaxConcurrency = 1
  MaxReceive = 3
  MaxCases = 1
  StaleReads = FALSE
  MaxQueue = 2
  MaxHuman = 1
  MaxFaults = 0
  MaxLoose = 0
  MaxFlips = 0
CHECK_DEADLOCK FALSE
INVARIANT WaitIsAgedFromItsOwnInquiry
