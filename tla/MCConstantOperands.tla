--------------------------- MODULE MCConstantOperands ---------------------------
\* Two constants of three bits, and additions, divisions and phis that read them
\* with four types and with metadata; div has an initial error, ext the range of
\* div, and sel no range.
EXTENDS ConstantOperands, TLC

CONSTANTS five, two, sadd, uadd, zadd, div, tagged, twice, phi, pre, ext, sel

S1 == [isSigned |-> TRUE, PointPos |-> 1]
S0 == [isSigned |-> TRUE, PointPos |-> 0]
U1 == [isSigned |-> FALSE, PointPos |-> 1]
U2 == [isSigned |-> FALSE, PointPos |-> 2]
MCTypes == {S0, S1, U1, U2}
MCConstantValue == (five :> [bits |-> 5, width |-> 3]) @@ (two :> [bits |-> 2, width |-> 3])

I(op, T, operands, info) ==
  [op |-> op, ranged |-> T # NoType, type |-> T, initial |-> FALSE, operands |-> operands, info |-> info]
None2 == <<NoInfo, NoInfo>>
Metadata(n, T) == [Min |-> n, Max |-> n, exp |-> 1, type |-> T]

MCInst ==
  (sadd :> I("other", S1, <<five, two>>, None2))
  @@ (uadd :> I("other", U1, <<five, sadd>>, None2))
  @@ (zadd :> I("other", S0, <<five, uadd>>, None2))
  @@ (div :> [I("div", U2, <<two, sadd>>, None2) EXCEPT !.initial = TRUE])
  @@ (tagged :> I("other", U1, <<five, two>>, <<Metadata(10, U1), NoInfo>>))
  @@ (twice :> I("other", NoType, <<two, two>>, <<Metadata(4, S0), Metadata(6, U1)>>))
  @@ (phi :> I("phi", NoType, <<ext, five>>, None2))
  @@ (ext :> I("unary", NoType, <<div>>, <<NoInfo>>))
  @@ (sel :> I("select", NoType, <<five, sadd>>, None2))
  @@ (pre :> I("phi", NoType, <<two, sadd>>, None2))
=============================================================================
