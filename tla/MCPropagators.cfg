SPECIFICATION Spec
CONSTANTS
  Ranges <- MCRanges
  Points <- MCPoints
  InitialErrors = {0, 1}
  RoundingError = 1
  Length = 4
  Limit = 60
INVARIANTS
  TypeOK
  NoiseTermsSorted
  ErrorsCover
  MatchingErrorsCancel
  CommonDerivativesMaximized
CHECK_DEADLOCK FALSE
