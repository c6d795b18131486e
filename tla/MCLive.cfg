\* One job with two kill requests, one outside crash and one failing save.  Two
\* files in two directories, two calls of any kind, and files that come and go at
\* any moment.
SPECIFICATION LiveSpec
CONSTANTS
  Job = {j1}
  Kill = {k1, k2}
  MaxConcurrent = 1
  MaxCrashes = 1
  MaxFaults = 1
  f1 = f1
  f2 = f2
  left = left
  right = right
  flux = flux
  sdxl = sdxl
  File = {f1, f2}
  Dir = {left, right}
  DirOf <- MCDirOf
  Arch = {flux, sdxl}
  ArchOf <- MCArchOf
  Call = {c1, c2}
  Content = {data}
  NoFile = NoFile
PROPERTIES
  KillEnds
  CloseIsRecorded
  ScanFaithful
  CallEnds
CHECK_DEADLOCK FALSE
