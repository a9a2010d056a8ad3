SPECIFICATION TraceSpec
CONSTANTS
  r1 = r1
  r2 = r2
  r3 = r3
  r4 = r4
  Runs = {r1, r2, r3, r4}
  Posts = {}
  MaxTraces = 2
  MaxConcurrent = 2
  MaxFaults = 0
CHECK_DEADLOCK FALSE
INVARIANT DropsAreCounted
