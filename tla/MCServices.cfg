\* Three overlapping requests to settings and tokens, four polls, three
\* overlapping requests to a preset, one reading of a job's outputs, two images
\* whose captions are edited, two uploads of two files or three pieces, and the
\* card of a dataset with two edits, two saves and one surprise.
SPECIFICATION ServicesSpec
CONSTANTS
  u1 = u1
  u2 = u2
  u3 = u3
  h1 = h1
  Update = {u1, u2, u3}
  paths = paths
  training = training
  Field = {paths, training}
  HintOf <- MCHintOf
  Poll = {1, 2, 3, 4}
  None = None
  Call = {c1, c2, c3}
  Key = {k1, k2}
  Label = label
  Absent = Absent
  Schedule <- MCSchedule
  Prompt = {1, 2}
  Image = {1, 2}
  Linked = 1
  Nothing = Nothing
  MaxTyped = 2
  MaxSent = 2
  MaxMounts = 1
  MaxOdd = 1
  Files = {1, 2}
  Pieces = 3
  Concurrency = 2
  Attempt = {1, 2}
  MaxTexts = 2
  MaxPuts = 2
  MaxSurprises = 1
INVARIANTS
  ConfigInStep
  KeysKept
  OutputsTrue
  EditorTells
  UploadShown
  EditsReach
PROPERTIES
  SnapshotsAdvance
  SuccessIsWhole
CHECK_DEADLOCK FALSE
