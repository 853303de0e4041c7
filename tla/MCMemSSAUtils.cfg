SPECIFICATION FairSpec
CONSTANTS
  arr = arr  buf = buf  slot = slot  elem = elem  cast = cast  reload = reload
  spill = spill  inside = inside  through = through  call = call
  inLoop = inLoop  viaCast = viaCast  ofField = ofField
  outer = outer  inner = inner  field = field
  Values = {arr, buf, slot, elem, cast, reload, spill, inside, through, call,
            inLoop, viaCast, ofField}
  Op <- MCOp
  Pointer <- MCPointer
  Stored <- MCStored
  PointerTyped = {reload}
  Phis = {outer, inner}
  LiveOnEntry = LiveOnEntry
  Clobbering <- MCClobbering
  Incoming <- MCIncoming
  Actuals <- MCActuals
  Cells = {field}
  FieldOf <- MCFieldOf
  Info <- MCInfo
  Rounding <- MCRounding
  FieldInfo <- MCFieldInfo
  Errors = {1, 2}
  Null = Null  Absent = Absent  NoErr = NoErr
INVARIANT
  TypeOK
PROPERTIES
  FindsReachingDefinitions
  LoadsCoverStores
  WalksEnd
