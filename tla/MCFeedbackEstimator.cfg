SPECIFICATION Spec
CONSTANTS
  NBits <- MCNBits
  MergeDists <- MCMergeDists
  InitialBits = 32
  InitialDist = 2
  MaxErr = 1
  Errors = {1, 2}
  NaN = NaN
  Torn = Torn
  ProbeLimit = 24
  KillLimit = 2
INVARIANTS
  TypeOK
  NeverRepeats
  NearestUntried
PROPERTIES
  StopIsFinal
  SearchEnds
  Converges
