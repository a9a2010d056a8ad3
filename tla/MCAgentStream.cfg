SPECIFICATION FairSpec
CONSTANTS
  Requests <- MCRequests
  Work <- MCWork
  Injected <- MCInjected
  MaxCalls = 2
  MaxLag = 2
  TurnLimit = 2
  MaxFaults = 1
  MaxNoise = 1
INVARIANTS WireIsWellFormed VerdictsAgree LiveAgrees CitationsAreShown
CHECK_DEADLOCK FALSE
PROPERTIES StreamEnds KeepsItsPromise
