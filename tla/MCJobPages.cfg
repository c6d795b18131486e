\* Two jobs and two kill requests in any order, one outside crash, one failing save.
\* The outputs: two checkpoints of two prompts, two choices, two downloads, one
\* failure.  The files: two prompts.
SPECIFICATION JobPagesSpec
CONSTANTS
  Job = {j1, j2}
  Kill = {k1, k2}
  MaxConcurrent = 1
  MaxCrashes = 1
  MaxFaults = 1
  Parts = {"service", "lightbox", "pulls", "prompts", "dataset"}
  Number = {1, 2}
  Pair <- MCPair
  MaxChosen = 2
  MaxPulls = 2
  MaxMisses = 1
  Texts <- MCTexts
  Negatives <- MCNegatives
  Tokens <- MCTokens
  MaxPrompts = 2
SYMMETRY Symm
INVARIANTS
  SlotsBounded
  EndsAreTrue
  RunningIsHeld
  KillAnswersSettled
  FinalAgreement
  LightboxTells
  FilesSayForm
PROPERTIES
  FinalWord
  ImplementsLifecycle
CHECK_DEADLOCK FALSE
