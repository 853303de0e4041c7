----------------------------- MODULE Propagators -----------------------------
(***************************************************************************)
(* The rules of InstructionPropagator for arithmetic, over affine forms:   *)
(* what the pass claims about the error of each instruction of a straight  *)
(* piece of the analysed program, next to the error an execution makes.    *)
(*                                                                         *)
(* An execution is followed with the pass: every value has its range, as   *)
(* range analysis (external) has found it, the form the pass gives it,     *)
(* the exact number it stands for, and the error of its fixed point        *)
(* representation in this execution.  The program, its inputs and its      *)
(* rounding errors are chosen as it grows.                                 *)
(*                                                                         *)
(* FunctionErrorPropagator models when these rules are applied and what is *)
(* recorded; here every operand has a range and an error.                  *)
(***************************************************************************)
EXTENDS LinearApproximation

CONSTANTS Ranges,         \* ranges of inputs, with ends of one parity
          InitialErrors,  \* errors of inputs, from their metadata
          RoundingError,  \* of the fixed point type of every result
          Length,         \* bound: instructions of the program
          Limit           \* bound: magnitude of the numbers that are multiplied

ASSUME RulesAssumption ==
  /\ Ranges \subseteq [min : Int, max : Int]
  /\ \A r \in Ranges : r.min <= r.max /\ (r.max - r.min) % 2 = 0
  /\ InitialErrors \subseteq Nat
  /\ RoundingError \in Nat /\ Length \in Nat /\ Limit \in Nat

VARIABLES values,   \* the values of the program so far, each with its instruction
          SymId     \* NoiseTermBase::SymId, the next noise symbol

vars == <<values, SymId>>

-----------------------------------------------------------------------------
(* The errors of results.  A rule returns the form and the next symbol.    *)
(* Where C++ leaves the order of operands open, temporaries are built from *)
(* left to right; another order renames symbols.                           *)

Returned(form, next) == [form |-> form, next |-> next]

propagateAdd(E1, E2, s) == Returned(Sum(E1, E2), s)

propagateSub(E1, E2, s) == Returned(Difference(E1, E2), s)

\* R1 * E2 + R2 * E1 + E1 * E2.
propagateMul(R1, E1, R2, E2, s) ==
  LET F1 == FromInterval(R1, s)
      s1 == s + 1
      t1 == s1 + SymbolsDrawn(F1, E2)
      F2 == FromInterval(R2, t1)
      s2 == t1 + 1
      s3 == s2 + SymbolsDrawn(F2, E1)
  IN  Returned(Sum(Sum(Product(F1, E2, s1), Product(F2, E1, s2)), Product(E1, E2, s3)),
               s3 + SymbolsDrawn(E1, E2))

\* Shifts to the right, and conversions to fixed point.
propagateShr(E1, s) == Returned(Sum(E1, AffineForm(0, RoundingError, s)), s + 1)

propagateSelect(E1, E2, s) ==
  Returned(AffineForm(0, Max({noiseTermsAbsSum(E1), noiseTermsAbsSum(E2)}), s), s + 1)

unOpErrorPassThrough(E1, s) == Returned(E1, s)

propagateFNeg(E1, s) == unOpErrorPassThrough(E1, s)

-----------------------------------------------------------------------------
(* The ranges of results, as range analysis finds them.                    *)

Hull(numbers) == [min |-> Min(numbers), max |-> Max(numbers)]
Ends(r) == {r.min, r.max}

RangeOfSum(r1, r2) == Hull({a + b : a \in Ends(r1), b \in Ends(r2)})
RangeOfDifference(r1, r2) == Hull({a - b : a \in Ends(r1), b \in Ends(r2)})
RangeOfProduct(r1, r2) == Hull({a * b : a \in Ends(r1), b \in Ends(r2)})

-----------------------------------------------------------------------------
Init == values = <<>> /\ SymId = 0

\* A value whose instruction has opcode op, operands args and the given result.
Add(op, args, range, result, exact, error) ==
  /\ Len(values) < Length
  /\ values' = Append(values, [op |-> op, args |-> args, range |-> range,
                               form |-> result.form, exact |-> exact, error |-> error])
  /\ SymId' = result.next

\* An input, or a constant without a fixed point error (initial error 0): its
\* initial error becomes one noise term.
Input ==
  \E r \in Ranges, m \in InitialErrors :
    \E exact \in Ends(r), error \in {-m, m} :
      Add("input", <<>>, r, Returned(AffineForm(0, m, SymId), SymId + 1), exact, error)

Addition ==
  \E i, j \in DOMAIN values :
    LET x == values[i]  y == values[j]
    IN  Add("add", <<i, j>>, RangeOfSum(x.range, y.range),
            propagateAdd(x.form, y.form, SymId), x.exact + y.exact, x.error + y.error)

Subtraction ==
  \E i, j \in DOMAIN values :
    LET x == values[i]  y == values[j]
    IN  Add("sub", <<i, j>>, RangeOfDifference(x.range, y.range),
            propagateSub(x.form, y.form, SymId), x.exact - y.exact, x.error - y.error)

Small(x) == /\ Ends(x.range) \subseteq -Limit..Limit
            /\ noiseTermsAbsSum(x.form) <= Limit

Multiplication ==
  \E i, j \in DOMAIN values :
    LET x == values[i]  y == values[j]
    IN  /\ Small(x) /\ Small(y)
        /\ Add("mul", <<i, j>>, RangeOfProduct(x.range, y.range),
               propagateMul(x.range, x.form, y.range, y.form, SymId),
               x.exact * y.exact,
               (x.exact + x.error) * (y.exact + y.error) - x.exact * y.exact)

\* A shift to the right moves the point and drops digits.
RightShift ==
  \E i \in DOMAIN values, rounding \in {-RoundingError, RoundingError} :
    LET x == values[i]
    IN  Add("shr", <<i>>, x.range, propagateShr(x.form, SymId), x.exact, x.error + rounding)

\* A select, or a phi, of two values of which the execution takes one.
Selection ==
  \E i, j \in DOMAIN values : \E taken \in {values[i], values[j]} :
    LET x == values[i]  y == values[j]
    IN  Add("select", <<i, j>>, Hull(Ends(x.range) \cup Ends(y.range)),
            propagateSelect(x.form, y.form, SymId), taken.exact, taken.error)

\* A shift to the left, an extension or a truncation: the same number.
Conversion ==
  \E i \in DOMAIN values :
    LET x == values[i]
    IN  Add("ext", <<i>>, x.range, unOpErrorPassThrough(x.form, SymId), x.exact, x.error)

Negation ==
  \E i \in DOMAIN values :
    LET x == values[i]
    IN  Add("fneg", <<i>>, Hull({-a : a \in Ends(x.range)}),
            propagateFNeg(x.form, SymId), -x.exact, -x.error)

Next ==
  \/ Input \/ Addition \/ Subtraction \/ Multiplication
  \/ RightShift \/ Selection \/ Conversion \/ Negation

Spec == Init /\ [][Next]_vars

-----------------------------------------------------------------------------
(* Correctness.                                                            *)

Terms == [symbol : 0 .. SymId - 1, magnitude : Int]

\* Every value has a range, a form around zero over symbols drawn before, and
\* operands among the earlier values (Propagators.cpp, AffineForms.h).
TypeOK ==
  /\ SymId \in Nat
  /\ \A v \in DOMAIN values :
       /\ values[v].range.min <= values[v].range.max
       /\ values[v].form.x0 = 0
       /\ values[v].form.xi \in Seq(Terms)
       /\ \A k \in DOMAIN values[v].args : values[v].args[k] \in 1 .. v - 1

\* "NoiseTerm Ids must be sorted" (AffineForms.h:448): the merges and what is
\* appended after them keep the terms of every form in the order of their symbols.
NoiseTermsSorted ==
  \A v \in DOMAIN values :
    \A k \in 1 .. Len(values[v].form.xi) - 1 :
      values[v].form.xi[k].symbol <= values[v].form.xi[k + 1].symbol

Covered(v) == Magnitude(v.error) <= noiseTermsAbsSum(v.form)

\* What the pass computes errors for: in a program without negations no execution
\* makes an error larger than the absolute error claimed for the instruction,
\* whichever symbols its operands share.
ErrorsCover ==
  (\A v \in DOMAIN values : values[v].op # "fneg")
    => \A v \in DOMAIN values : Covered(values[v])

\* Errors that are the same cancel: (x + y) - y is claimed to have the error of x,
\* because the sums match the terms with one symbol (mergeSumNoiseTerms).
MatchingErrorsCancel ==
  \A v \in DOMAIN values :
    \A x, y \in 1 .. v - 1 : \A sum \in 1 .. v - 1 :
      /\ values[v].op = "sub" /\ values[v].args = <<sum, y>>
      /\ values[sum].op = "add" /\ values[sum].args = <<x, y>>
      => noiseTermsAbsSum(values[v].form) = noiseTermsAbsSum(values[x].form)

\* "This variant maximizes decreasing derivatives" and "increasing derivatives"
\* (AffineForms.h:457 and 474): the linear approximations by which rules for
\* division and special functions scale an error take the derivative where it is
\* largest, for divisors that are positive, for arguments of acos and asin whose
\* upper end is the farther one from zero, and for all operands of the other rules.
CommonDerivativesMaximized ==
  values = <<>> =>
    \A o \in Operands :
      /\ o.rule = "div" => o.Min > 0
      /\ o.rule \in {"acos", "asin"} => -o.Min <= o.Max
      => Maximized(o)

\* "No further error is introduced by flipping sign" (Propagators.cpp:322): with
\* negations too, the claimed errors cover those of every execution.
ErrorsCoverNegation == \A v \in DOMAIN values : Covered(values[v])

===============================================================================
