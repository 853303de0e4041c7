SPECIFICATION Spec
CONSTANTS
  e = e  h = h  m = m  l = l  x = x
  Blocks <- MCBlocks
  Entry = e
  NoLoop = NoLoop
  Graphs <- MCGraphs
INVARIANTS
  TypeOK
  AllBlocksScheduled
  ForwardOrder
  WhileLoopsAreWhole
CHECK_DEADLOCK FALSE
