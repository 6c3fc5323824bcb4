SPECIFICATION Spec
CONSTANTS
  Bytes <- Letters
  Batches <- AllBatches
  Globs <- AllGlobs
  Characters <- AllCharacters
  MaxNesting = 2
  Missing = Missing
  maxBraceExpansions = 4
INVARIANTS EditsExact GlobVerdictExact
CHECK_DEADLOCK FALSE
