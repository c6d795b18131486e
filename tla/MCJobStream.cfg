\* One job, at most one kill, three lines, one failure of the network or the API.
SPECIFICATION FairStreamSpec
CONSTANTS
  j1 = j1
  k1 = k1
  Job = {j1}
  Watched = j1
  Kill = {k1}
  MaxConcurrent = 1
  MaxCrashes = 1
  MaxFaults = 0
  Bounds <- MCBounds
INVARIANTS
  LogWithoutGap
  ShownEndIsTrue
PROPERTIES
  PageSettles
CHECK_DEADLOCK FALSE
