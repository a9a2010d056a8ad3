SPECIFICATION Spec
CONSTANTS
  c1 = c1
  c2 = c2
  a1 = a1
  p1 = p1
  p2 = p2
  Pollers = {p1, p2}
  Cases = {c1}
  Aliases = {}
  AliasOf <- NoAlias
  AgentStatuses <- EveryOutcome
  MaxConcurrency = 1
  MaxReceive = 2
  MaxCases = 1
  StaleReads = TRUE
  MaxQueue = 2
  MaxHuman = 1
  MaxFaults = 1
  MaxLoose = 1
  MaxFlips = 0
CHECK_DEADLOCK FALSE
SYMMETRY PollerSymmetry
INVARIANTS ProcessingIsOwned OnePollerHandoff
PROPERTIES AcknowledgedIsSettled DeadLetterIsReviewed WaitKeepsItsStamp
