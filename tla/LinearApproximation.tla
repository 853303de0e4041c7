------------------------- MODULE LinearApproximation -------------------------
(***************************************************************************)
(* LinearErrorApproximationDecr and ...Incr (AffineForms.h): the error of  *)
(* f(x) is the error of x times the derivative of f at one end of the      *)
(* range of x.  Division, through 1/x, and the special functions use them. *)
(* Numbers are hundredths; of a derivative only matters at which of two    *)
(* points its magnitude is larger.                                         *)
(***************************************************************************)
EXTENDS AffineForms, FiniteSetsExt

CONSTANT Points  \* the ends that the ranges of operands may have

ASSUME PointsAssumption == Points \subseteq Int

Rules == {"div", "sqrt", "log", "exp", "acos", "asin"}

Domain(rule) ==
  CASE rule = "sqrt" -> {x \in Points : x >= 0}
    [] rule = "log" -> {x \in Points : x > 0}
    [] rule = "div" -> Points \ {0}
    [] rule \in {"acos", "asin"} -> {x \in Points : x \in -100..100}
    [] rule = "exp" -> Points

\* A rule and the range of what it is applied to.
Operands == {o \in [rule : Rules, Min : Points, Max : Points] :
               {o.Min, o.Max} \subseteq Domain(o.rule) /\ o.Min <= o.Max}

\* propagateAcos and propagateAsin keep away from -1 and 1, where the derivative
\* is infinite; a range beyond is turned around by that.
Interval(o) ==
  IF o.rule \in {"acos", "asin"} THEN [Min |-> Max({-99, o.Min}), Max |-> Min({99, o.Max})]
  ELSE [Min |-> o.Min, Max |-> o.Max]

\* Mutant: every rule uses the variant for decreasing derivatives.
PointDecr(o) == Min({Interval(o).Min, Interval(o).Max})

\* X of the variant the rule uses.
Point(o) ==
  IF o.rule \in {"div", "sqrt", "log"} THEN Min({Interval(o).Min, Interval(o).Max})
  ELSE Max({Interval(o).Min, Interval(o).Max})

\* |dF(x)| >= |dF(y)|, where dF is -1/x^2, 0.5/sqrt(x), 1/x, exp(x), -1/sqrt(1-x^2)
\* and 1/sqrt(1-x^2).
Steeper(rule, x, y) ==
  CASE rule \in {"div", "sqrt", "log"} -> Magnitude(x) <= Magnitude(y)
    [] rule = "exp" -> x >= y
    [] rule \in {"acos", "asin"} -> Magnitude(x) >= Magnitude(y)

\* The derivative is taken where its magnitude is largest on the range that the
\* rule considers.
Maximized(o) ==
  \A x \in Interval(o).Min .. Interval(o).Max : Steeper(o.rule, Point(o), x)
=============================================================================
