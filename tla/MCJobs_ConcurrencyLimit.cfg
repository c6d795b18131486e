SPECIFICATION Spec
CONSTANTS
  Job = {j1, j2}
  Kill = {k1}
  MaxConcurrent = 1
  MaxCrashes = 0
  MaxFaults = 0
INVARIANT ConcurrencyLimit
CHECK_DEADLOCK FALSE
