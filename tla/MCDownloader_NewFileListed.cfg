\* One download and one refresh.
SPECIFICATION Spec
CONSTANTS
  f1 = f1
  f2 = f2
  left = left
  right = right
  flux = flux
  File = {f1, f2}
  Dir = {left, right}
  DirOf <- MCDirOf
  Arch = {flux}
  ArchOf <- MCArchOf
  Call = {d1, r1}
  Download = {d1}
  Content = {d1, old}
  Old = old
  NoFile = NoFile
INVARIANT NewFileListed
CHECK_DEADLOCK FALSE
