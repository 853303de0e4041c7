----------------------------- MODULE AffineForms -----------------------------
(***************************************************************************)
(* AffineForm<T> of AffineForms.h: a number x0 + x1*eps1 + ... + xn*epsn,  *)
(* where every noise symbol eps stands for an unknown in [-1, 1].  A form  *)
(* is its central value x0 and the sequence xi of its noise terms; a noise *)
(* term is a symbol and a magnitude.  Numbers are integers here, so that   *)
(* arithmetic is exact; 1/x, the one operation that leaves the integers,   *)
(* is not modelled.                                                        *)
(*                                                                         *)
(* The static counter SymId, from which a new noise term takes its symbol, *)
(* is passed in where an operation may draw from it, and how many symbols  *)
(* it draws is an operator of its own.                                     *)
(***************************************************************************)
EXTENDS Integers, Sequences

Magnitude(n) == IF n < 0 THEN -n ELSE n

NoiseTerm(s, m) == [symbol |-> s, magnitude |-> m]

\* A form with a central value and one noise term.
AffineForm(x0, m, s) == [x0 |-> x0, xi |-> <<NoiseTerm(s, m)>>]

\* A form from an interval whose ends have an even sum.
FromInterval(r, s) ==
    LET x0 == (r.min + r.max) \div 2 IN AffineForm(x0, r.max - x0, s)

\* The sum of a sequence of numbers.
Total(a) ==
    LET sum[n \in 0..Len(a)] == IF n = 0 THEN 0 ELSE sum[n - 1] + a[n]
    IN  sum[Len(a)]

noiseTermsAbsSum(f) == Total([k \in DOMAIN f.xi |-> Magnitude(f.xi[k].magnitude)])

\* Every noise term multiplied by c.
ScaledTerms(xi, c) == [k \in DOMAIN xi |-> NoiseTerm(xi[k].symbol, c * xi[k].magnitude)]

scalarMultiply(f, c) == [x0 |-> c * f.x0, xi |-> ScaledTerms(f.xi, c)]

Negated(f) == scalarMultiply(f, -1)

-------------------------------------------------------------------------------
(***************************************************************************)
(* Both merges walk through two sorted sequences of noise terms with an    *)
(* iterator each, and push one term in every step.  A step takes the next  *)
(* term of the sequence whose symbol is smaller, or one term of both; when *)
(* one sequence has ended it takes from the other.                         *)
(***************************************************************************)
TakesThis(xs, ys, at) ==
    /\ at.this <= Len(xs)
    /\ at.other <= Len(ys) => xs[at.this].symbol <= ys[at.other].symbol

TakesOther(xs, ys, at) ==
    /\ at.other <= Len(ys)
    /\ at.this <= Len(xs) => ys[at.other].symbol <= xs[at.this].symbol

\* ThisIt and OtherIt after a step, and at the start of every step.
Advance(xs, ys, at) ==
    [this |-> IF TakesThis(xs, ys, at) THEN at.this + 1 ELSE at.this,
     other |-> IF TakesOther(xs, ys, at) THEN at.other + 1 ELSE at.other]

Steps(xs, ys) ==
    LET bound == Len(xs) + Len(ys)
        walk[n \in 0..bound] ==
          IF n = 0 THEN [this |-> 1, other |-> 1] ELSE Advance(xs, ys, walk[n - 1])
        end == [this |-> Len(xs) + 1, other |-> Len(ys) + 1]
        last == CHOOSE n \in 0..bound : walk[n] = end /\ \A m \in 0..n - 1 : walk[m] # end
    IN  [n \in 1..last |-> walk[n - 1]]

\* a times the magnitude of this term and b times that of the other, as far as
\* the step takes them.
Weighted(xs, ys, at, a, b) ==
    (IF TakesThis(xs, ys, at) THEN a * xs[at.this].magnitude ELSE 0)
      + (IF TakesOther(xs, ys, at) THEN b * ys[at.other].magnitude ELSE 0)

SumTerm(xs, ys, at) ==
    NoiseTerm(IF TakesThis(xs, ys, at) THEN xs[at.this].symbol ELSE ys[at.other].symbol,
              Weighted(xs, ys, at, 1, 1))

mergeSumNoiseTerms(f, g) ==
    LET steps == Steps(f.xi, g.xi)
    IN  [n \in DOMAIN steps |-> SumTerm(f.xi, g.xi, steps[n])]

Sum(f, g) == [x0 |-> f.x0 + g.x0, xi |-> mergeSumNoiseTerms(f, g)]

\* Mutant: the second form is not negated.
DifferenceAdds(f, g) == Sum(f, g)

Difference(f, g) == Sum(f, Negated(g))

\* In the walk the new term is a copy of this form's, whose symbol it keeps
\* whichever form the magnitude comes from.
LinearTerm(f, g, at) ==
    NoiseTerm(IF at.this <= Len(f.xi) THEN f.xi[at.this].symbol ELSE g.xi[at.other].symbol,
              Weighted(f.xi, g.xi, at, g.x0, f.x0))

LinearTerms(f, g) ==
    LET steps == Steps(f.xi, g.xi)
    IN  [n \in DOMAIN steps |-> LinearTerm(f, g, steps[n])]

\* The approximation error, if both forms have noise terms.
ApproximationError(f, g, s) ==
    IF f.xi # <<>> /\ g.xi # <<>>
      THEN <<NoiseTerm(s, noiseTermsAbsSum(f) * noiseTermsAbsSum(g))>>
      ELSE <<>>

\* Mutants: the approximation error goes first, or is left out.
MulErrorFirst(f, g, s) == ApproximationError(f, g, s) \o LinearTerms(f, g)
MulLinear(f, g, s) == LinearTerms(f, g)

mergeMulNoiseTerms(f, g, s) == LinearTerms(f, g) \o ApproximationError(f, g, s)

Product(f, g, s) == [x0 |-> f.x0 * g.x0, xi |-> mergeMulNoiseTerms(f, g, s)]

\* Mutant: the counter stays.
SymbolsNotDrawn(f, g) == 0

\* How many symbols a product draws, for its approximation error.
SymbolsDrawn(f, g) == IF f.xi # <<>> /\ g.xi # <<>> THEN 1 ELSE 0

===============================================================================
