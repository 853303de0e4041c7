SPECIFICATION Spec
CONSTANTS
  Narrow = 3
  Wide = 4
  NoWidth = NoWidth
  five = five  two = two
  sadd = sadd  uadd = uadd  zadd = zadd  div = div
  tagged = tagged  twice = twice  phi = phi  pre = pre  ext = ext  sel = sel
  Constants = {five, two}
  ConstantValue <- MCConstantValue
  Instructions = {sadd, uadd, zadd, div, tagged, twice, phi, pre, ext, sel}
  Inst <- MCInst
  Types <- MCTypes
  ExactConst = FALSE
  NoType = NoType  NoInfo = NoInfo  NoEntry = NoEntry  Exact = Exact
  Uninitialized = Uninitialized
INVARIANTS
  TypeOK
  MetadataWins
  AgreedConstantsReadAsResult
  RoundTrip
PROPERTY
  PhiTypesConstants
CHECK_DEADLOCK FALSE
