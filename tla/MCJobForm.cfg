\* The form: nine files, three architectures that share some of them.  The presets
\* of any two of the nine architectures.  The table: two jobs, two requests, one
\* that fails or event that is early or late.
SPECIFICATION FormSpec
CONSTANTS
  None = None
  File <- MCFile
  Hits <- MCHits
  Longer <- MCLonger
  Arches = {"flux", "chroma", "lumina"}
  ByHand <- FormFile
  Request <- MCRequest
  UserPreset <- MCUserPreset
  t1 = t1
  t2 = t2
  Train = {t1, t2}
  MaxOrders = 2
  MaxUpsets = 1
SYMMETRY FormSymm
INVARIANTS
  AcceptedFitsArch
  ReadyCanTrain
  PresetsSuffice
  TableTells
PROPERTIES
  LossIsWarned
CHECK_DEADLOCK FALSE
