\* Two downloads of any destinations, one refresh or deletion, files there before.
SPECIFICATION DownloadsSpec
CONSTANTS
  f1 = f1
  f2 = f2
  left = left
  right = right
  flux = flux
  File = {f1, f2}
  Dir = {left, right}
  DirOf <- MCDirOf
  Arch = {flux}
  ArchOf <- MCArchOf
  Call = {d1, d2, r1}
  Download = {d1, d2}
  Content = {d1, d2, old}
  Old = old
  NoFile = NoFile
  m1 = m1
  m2 = m2
  Model = {m1, m2}
  None = None
  MaxPosted = 2
  MaxChances = 1
SYMMETRY DownloadsSymm
INVARIANTS
  StatusTellsDisk
  PagesTell
PROPERTIES
  SkippedIsWhole
  FinalStatus
  ListedWhenRescanned
CHECK_DEADLOCK FALSE
