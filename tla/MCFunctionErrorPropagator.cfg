SPECIFICATION Spec
CONSTANTS
  f = f  g = g  ext = ext  fc = fc  gc = gc  extc = extc  G = G
  p = p  el = el  q = q  a = a  x = x  y = y  f1 = f1  f2 = f2  f3 = f3  f4 = f4
  g1 = g1  g2 = g2  g3 = g3  g4 = g4  lf = lf  lG = lG
  Null = Null  Absent = Absent  NoErr = NoErr  NotShown = NotShown
  Values <- MCValues
  Functions <- MCFunctions
  CopyOf <- MCCopyOf
  Globals <- MCGlobals
  Labels <- MCLabels
  Programs <- MCPrograms
  StackLimit = 6
INVARIANTS
  TypeOK
  RecCountIsDepth
  ActivationsBounded
  MemSSACurrent
  TargetsComplete
  ClonedReturnErrorCovers
  MetadataOnlyFromStartingPoints
  ArgumentsBound
PROPERTIES
  TargetsTracked
  PointerErrorKept
  PointersLearnt
  Termination
CHECK_DEADLOCK FALSE
