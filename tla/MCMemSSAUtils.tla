---------------------------- MODULE MCMemSSAUtils ----------------------------
\* A function with an array argument, a buffer it reuses and a pointer it spills.
\* A loop nest stores through a gep of the array (phis outer and inner), a call
\* is given the array, the buffer is a field of a struct, and one store goes
\* through the reloaded pointer.
EXTENDS MemSSAUtils, TLC

CONSTANTS arr, buf, slot, elem, cast, reload, spill, inside, through, call,
          inLoop, viaCast, ofField, outer, inner, field

MCOp ==
  (arr :> "argument") @@ (buf :> "alloca") @@ (slot :> "alloca")
  @@ (elem :> "gep") @@ (cast :> "bitcast") @@ (call :> "call")
  @@ [v \in {reload, inLoop, viaCast, ofField} |-> "load"]
  @@ [v \in {spill, inside, through} |-> "store"]

MCPointer ==
  (elem :> arr) @@ (cast :> arr) @@ (reload :> slot) @@ (spill :> slot)
  @@ (inside :> buf) @@ (through :> reload)
  @@ (inLoop :> elem) @@ (viaCast :> cast) @@ (ofField :> buf)
MCStored == (spill :> arr) @@ [s \in {inside, through} |-> Null]

MCClobbering ==
  (reload :> spill) @@ (inLoop :> outer)
  @@ (viaCast :> call) @@ (ofField :> inside)
MCIncoming == (outer :> {LiveOnEntry, inner}) @@ (inner :> {outer, inside, through, call})

MCInfo == [v \in DOMAIN MCOp |-> IF v \in {arr, inLoop, ofField} THEN NoErr
                                 ELSE IF v = viaCast THEN 1 ELSE Absent]

MCActuals == call :> {arr}
MCFieldOf == [v \in DOMAIN MCOp |-> IF v = buf THEN field ELSE Null]
MCFieldInfo == {Absent, NoErr}
MCRounding == [v \in {reload, inLoop, viaCast, ofField} |-> 1]
=============================================================================
