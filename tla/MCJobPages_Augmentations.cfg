\* The files of a job, of which the user changes the options of the dataset.
SPECIFICATION JobPagesSpec
CONSTANTS
  Job = {j1, j2}
  Kill = {k1, k2}
  MaxConcurrent = 1
  MaxCrashes = 1
  MaxFaults = 1
  Parts = {"dataset"}
  Number = {1, 2}
  Pair <- MCPair
  MaxChosen = 2
  MaxPulls = 2
  MaxMisses = 1
  Texts <- MCTexts
  Negatives <- MCNegatives
  Tokens <- MCTokens
  MaxPrompts = 2
INVARIANT AugmentationsReach
CHECK_DEADLOCK FALSE
