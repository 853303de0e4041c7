------------------------------ MODULE FixedPoint ------------------------------
(***************************************************************************)
(* FixedPointValue: an interval of fixed point values as a pair of bounds  *)
(* of a number of fractional bits.  The widths of the four concrete        *)
(* classes, 32 and 64, are the parameters Narrow and Wide; the generic one *)
(* has the width of its operands.                                          *)
(*                                                                         *)
(* A ConstantInt is its bits, read as an unsigned number, and its width.   *)
(***************************************************************************)
EXTENDS Integers, Sequences

CONSTANTS Narrow, Wide,
          NoWidth      \* no IntegerType given

ASSUME WidthAssumption ==
  Narrow \in Nat \ {0} /\ Wide \in Nat /\ Narrow < Wide /\ NoWidth \notin Nat

TwoTo[n \in Nat] == IF n = 0 THEN 1 ELSE 2 * TwoTo[n - 1]

Widths == Nat \ {0}
ConstantInts == {c \in [bits : Nat, width : Widths] : c.bits < TwoTo[c.width]}

\* The low bits of a number, read with and without sign.
Unsigned(v, w) == v % TwoTo[w]
Signed(v, w) ==
  IF v % TwoTo[w] < TwoTo[w - 1] THEN v % TwoTo[w] ELSE (v % TwoTo[w]) - TwoTo[w]

getZExtValue(c) == c.bits
getSExtValue(c) == Signed(c.bits, c.width)

\* The classes a width selects: U/SFixedPoint32, U/SFixedPoint64, generic.
Precision(width) ==
  CASE width <= Narrow -> Narrow
    [] Narrow < width /\ width <= Wide -> Wide
    [] OTHER -> width

\* createFromConstantInt: a negative SPrec stands for a signed type.  Bounds are
\* extended to 64 bits and cut to the width of the class.
createFromConstantInt(SPrec, IT, CIMin, CIMax) ==
  LET prec == Precision(IF IT = NoWidth THEN CIMin.width ELSE IT)
      signed == SPrec < 0
      bound(c) == IF signed THEN Signed(getSExtValue(c), prec) ELSE Unsigned(getZExtValue(c), prec)
  IN  [PointPos |-> IF signed THEN -SPrec ELSE SPrec, isSigned |-> signed, prec |-> prec,
       Min |-> bound(CIMin), Max |-> bound(CIMax)]

\* Mutant: fractional bits may exceed the width.
AnyPointPos(x) == x.Min <= x.Max

\* The assertions of the constructors.
Consistent(x) == x.PointPos <= x.prec /\ x.Min <= x.Max

\* getInterval: both bounds times 2^-PointPos.
getInterval(x) == [Min |-> x.Min, Max |-> x.Max, exp |-> x.PointPos]

\* Mutant: toMetadata leaves out that the value is signed.
UnsignedPointPos(x) == x.PointPos

\* getBoundMetadata and getPointPosMetadata; not for FixedPointGeneric.
getBoundMetadata(v, w) == [bits |-> Unsigned(v, w), width |-> w]
getPointPosMetadata(x) == IF x.isSigned THEN -x.PointPos ELSE x.PointPos
toMetadata(x) ==
  <<getPointPosMetadata(x), getBoundMetadata(x.Min, x.prec), getBoundMetadata(x.Max, x.prec)>>

\* createFromMDNode, of a node with its three operands; createFromMetadata gives
\* it the width of the instruction.
createFromMDNode(IT, N) == createFromConstantInt(N[1], IT, N[2], N[3])
=============================================================================
