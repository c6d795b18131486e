SPECIFICATION FairUploadSpec
CONSTANTS
  i1 = i1
  i2 = i2
  s1 = s1
  c1 = c1
  c2 = c2
  c3 = c3
  Image = {i1, i2}
  Stem = {s1}
  StemOf <- MCStemOf
  Call = {c1, c2, c3}
  Mixes <- MCMixes
  Payloads <- MCPayloads
  None = None
  Chunks = 2
INVARIANTS
  SessionGone
  RowHasDirectory
  AcknowledgedKept
PROPERTIES
  PrependIsExact
  MissingIsReal
  RequestEnds
CHECK_DEADLOCK FALSE
