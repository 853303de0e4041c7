SPECIFICATION Spec
CONSTANTS
  Ranges <- MCRanges
  Points <- MCPoints
  InitialErrors = {0, 1}
  RoundingError = 1
  Length = 3
  Limit = 60
INVARIANT ErrorsCoverNegation
CHECK_DEADLOCK FALSE
