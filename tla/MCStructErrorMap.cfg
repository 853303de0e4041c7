SPECIFICATION Spec
CONSTANTS
  main = main  f = f  g = g
  D = D  B = B  S = S  R = R  AD = AD  AB = AB  PD = PD
  s = s  s1 = s1  s1y = s1y  sm = sm  sa = sa  sai = sai  sb = sb  sbi = sbi  sbiy = sbiy
  sp = sp  ld = ld  agg = agg  ev = ev
  p = p  p1 = p1  p1y = p1y  q = q  qy = qy  G = G  Gy = Gy
  Values = {s, s1, s1y, sm, sa, sai, sb, sbi, sbiy, sp, ld, agg, ev, p, p1, p1y, q, qy, G, Gy}
  Functions = {main, f, g}
  Types = {D, B, S, R, AD, AB, PD}
  Def <- MCDef
  Position <- MCPosition
  Formals <- MCFormals
  Calls <- MCCalls
  Accessed = {s1y, sm, sai, sbiy, ld, ev, p1y, qy, Gy, s}
  Elements <- MCElements
  Kind <- MCKind
  Paths <- MCPaths
  Info <- MCInfo
  Errors = {1}
  MaxRecCount = 2
  MaxDepth = 3
  Null = Null  Unbound = Unbound  Absent = Absent  NoErr = NoErr  Nested = Nested
  Variable = Variable
INVARIANTS
  TypeOK
  BindingsPointOutwards
  WalksEnd
  ReadsLastWritten
CHECK_DEADLOCK FALSE
