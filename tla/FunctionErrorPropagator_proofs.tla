------------------- MODULE FunctionErrorPropagator_proofs -------------------
(***************************************************************************)
(* Theorems about FunctionErrorPropagator, for every set of modules, every *)
(* recursion limit and every stack.                                        *)
(***************************************************************************)
EXTENDS FunctionErrorPropagator, FiniteSetTheorems, TLAPS

-----------------------------------------------------------------------------
(* Range error maps: an operation on a map is a step of the target table.  *)

\* Every target is at least what it was.
TargetsKept(rm, after) == \A l \in Labels : rm.tg[l] <= after.tg[l]

\* An error of a target value is accounted for in the target's entry.
Covered(rm, w) ==
  M.target[w] # Null /\ Known(rm.re[w]) => rm.re[w] <= rm.tg[M.target[w]]

\* Every error that changed is.
ChangesCovered(rm, after) ==
  \A w \in Values : after.re[w] # rm.re[w] => Covered(after, w)

Progress(rm, after) ==
  after \in RMaps /\ TargetsKept(rm, after) /\ ChangesCovered(rm, after)

\* The larger of two numbers is one of them and not below either.
LEMMA MaxNatBound ==
  \A m, n \in Nat : MaxNat(m, n) \in Nat /\ m <= MaxNat(m, n) /\ n <= MaxNat(m, n)
BY DEF MaxNat

\* Larger of an error and a number is a number.
LEMMA LargerType ==
  \A d, e \in RangeErrors :
    /\ Larger(d, e) \in RangeErrors
    /\ Known(d) \/ Known(e) => Larger(d, e) \in Nat
BY DEF Larger, Known, RangeErrors

\* Targets kept in each of two steps are kept over both; so are changes covered.
LEMMA ProgressTrans ==
  ASSUME NEW a1 \in RMaps, NEW a2, NEW a3, M \in Modules, Progress(a1, a2), Progress(a2, a3)
  PROVE  Progress(a1, a3)
<1>1. \A l \in Labels : a1.tg[l] \in Nat /\ a2.tg[l] \in Nat /\ a3.tg[l] \in Nat
  BY DEF Progress, RMaps
<1>2. TargetsKept(a1, a3)
  BY <1>1 DEF Progress, TargetsKept
<1>3. ASSUME NEW w \in Values, a3.re[w] # a1.re[w] PROVE Covered(a3, w)
  <2>1. CASE a3.re[w] # a2.re[w]
    BY <2>1 DEF Progress, ChangesCovered
  <2>2. CASE a3.re[w] = a2.re[w]
    <3>1. Covered(a2, w)
      BY <1>3, <2>2 DEF Progress, ChangesCovered
    <3>2. M.target[w] # Null => M.target[w] \in Labels
      BY DEF Modules
    <3> QED
      BY <1>1, <2>2, <3>1, <3>2 DEF Covered, Progress, TargetsKept, Known
  <2> QED
    BY <2>1, <2>2
<1> QED
  BY <1>2, <1>3 DEF Progress, ChangesCovered

\* What a target's entry covers stays covered.
LEMMA CoveredKept ==
  ASSUME M \in Modules, NEW a1 \in RMaps, NEW a2, Progress(a1, a2),
         NEW w \in Values, Covered(a1, w)
  PROVE  Covered(a2, w)
<1>1. \A l \in Labels : a1.tg[l] \in Nat /\ a2.tg[l] \in Nat /\ a1.tg[l] <= a2.tg[l]
  BY DEF Progress, RMaps, TargetsKept
<1>2. M.target[w] # Null => M.target[w] \in Labels
  BY DEF Modules
<1>3. a1.re[w] = a2.re[w] => Covered(a2, w)
  BY <1>1, <1>2 DEF Covered, Known
<1> QED
  BY <1>3 DEF Progress, ChangesCovered

\* A map makes progress by staying as it is.
LEMMA ProgressRefl ==
  ASSUME NEW rm \in RMaps
  PROVE  Progress(rm, rm)
<1>1. \A l \in Labels : rm.tg[l] \in Nat
  BY DEF RMaps
<1> QED
  BY <1>1 DEF Progress, TargetsKept, ChangesCovered

\* setError records the error and raises the target of the value, if it has one.
LEMMA SetErrorProgress ==
  ASSUME M \in Modules, NEW rm \in RMaps, NEW v \in Keys, NEW e \in Nat
  PROVE  /\ Progress(rm, SetError(rm, v, e))
         /\ v \in Values => Covered(SetError(rm, v, e), v)
         /\ \A w \in Keys : SetError(rm, v, e).re[w] = IF w = v THEN e ELSE rm.re[w]
<1> DEFINE after == SetError(rm, v, e)
<1>0. /\ rm.re \in [Keys -> RangeErrors] /\ rm.tg \in [Labels -> Nat]
      /\ M.target \in [Values -> Labels \cup {Null}]
  BY DEF RMaps, Modules
<1>1. /\ after.re = [rm.re EXCEPT ![v] = e]
      /\ after.tg = [l \in Labels |-> IF v # Null /\ M.target[v] = l
                                      THEN MaxNat(rm.tg[l], e) ELSE rm.tg[l]]
  BY DEF SetError
<1>2. e \in RangeErrors
  BY DEF RangeErrors
<1>3. \A w \in Keys : after.re[w] = IF w = v THEN e ELSE rm.re[w]
  BY <1>0, <1>1
<1>4. \A l \in Labels : after.tg[l] \in Nat /\ rm.tg[l] <= after.tg[l]
  <2> TAKE l \in Labels
  <2>1. rm.tg[l] \in Nat
    BY <1>0
  <2>2. after.tg[l] = IF v # Null /\ M.target[v] = l THEN MaxNat(rm.tg[l], e) ELSE rm.tg[l]
    BY <1>1
  <2>3. MaxNat(rm.tg[l], e) \in Nat /\ rm.tg[l] <= MaxNat(rm.tg[l], e)
    BY <2>1, MaxNatBound
  <2>4. CASE v # Null /\ M.target[v] = l
    BY <2>2, <2>3, <2>4
  <2>5. CASE ~(v # Null /\ M.target[v] = l)
    BY <2>1, <2>2, <2>5
  <2> QED
    BY <2>4, <2>5
<1>5. after \in RMaps
  <2>1. after.re \in [Keys -> RangeErrors]
    BY <1>0, <1>1, <1>2
  <2>2. after.tg \in [Labels -> Nat]
    BY <1>1, <1>4
  <2>3. after = [re |-> after.re, tg |-> after.tg]
    BY DEF SetError
  <2> QED
    BY <2>1, <2>2, <2>3 DEF RMaps
<1>6. v \in Values /\ M.target[v] # Null => e <= after.tg[M.target[v]]
  <2> SUFFICES ASSUME v \in Values, M.target[v] # Null PROVE e <= after.tg[M.target[v]]
    OBVIOUS
  <2>1. M.target[v] \in Labels /\ v # Null
    BY <1>0, ConstantsAssumption
  <2>2. after.tg[M.target[v]] = MaxNat(rm.tg[M.target[v]], e)
    BY <1>1, <2>1
  <2> QED
    BY <1>0, <2>1, <2>2, MaxNatBound
<1>7. v \in Values => Covered(after, v)
  BY <1>3, <1>6 DEF Covered, Keys
<1>8. ChangesCovered(rm, after)
  BY <1>3, <1>7 DEF ChangesCovered, Keys
<1> QED
  BY <1>3, <1>4, <1>5, <1>7, <1>8 DEF Progress, TargetsKept

\* updateTargets keeps the errors and takes the larger entry of each target.
LEMMA UpdateTargetsProgress ==
  ASSUME NEW rm \in RMaps, NEW other \in RMaps
  PROVE  /\ Progress(rm, UpdateTargets(rm, other))
         /\ TargetsKept(other, UpdateTargets(rm, other))
<1> DEFINE after == UpdateTargets(rm, other)
<1>1. \A l \in Labels : rm.tg[l] \in Nat /\ other.tg[l] \in Nat
  BY DEF RMaps
<1>2. /\ after.re = rm.re
      /\ after.tg = [l \in Labels |-> MaxNat(rm.tg[l], other.tg[l])]
      /\ after = [re |-> after.re, tg |-> after.tg]
  BY DEF UpdateTargets, RMaps
<1>3. \A l \in Labels : /\ after.tg[l] \in Nat
                        /\ rm.tg[l] <= after.tg[l] /\ other.tg[l] <= after.tg[l]
  <2> TAKE l \in Labels
  <2>1. /\ MaxNat(rm.tg[l], other.tg[l]) \in Nat
        /\ rm.tg[l] <= MaxNat(rm.tg[l], other.tg[l])
        /\ other.tg[l] <= MaxNat(rm.tg[l], other.tg[l])
    BY <1>1, MaxNatBound
  <2>2. after.tg[l] = MaxNat(rm.tg[l], other.tg[l])
    BY <1>2
  <2> QED
    BY <2>1, <2>2
<1>4. after \in RMaps
  <2>1. after.tg \in [Labels -> Nat]
    BY <1>2, <1>3
  <2>2. after.re \in [Keys -> RangeErrors]
    BY <1>2 DEF RMaps
  <2> QED
    BY <1>2, <2>1, <2>2 DEF RMaps
<1> QED
  BY <1>2, <1>3, <1>4 DEF Progress, TargetsKept, ChangesCovered

\* A number and the finitely many values of a function have a maximum.
LEMMA ImageMax ==
  ASSUME NEW S, IsFiniteSet(S), NEW h \in [S -> Nat], NEW n \in Nat
  PROVE  LET T == {n} \cup {h[x] : x \in S}
         IN  Max(T) \in T /\ \A y \in T : y <= Max(T)
<1> DEFINE Image(A) == {n} \cup {h[x] : x \in A}
           Bounded(A) == \E m \in Image(A) : \A y \in Image(A) : y <= m
           Wrong == {A \in FiniteSubsetsOf(S) : ~Bounded(A)}
<1>1. Wrong = {}
  <2> SUFFICES ASSUME Wrong # {} PROVE FALSE
    OBVIOUS
  <2>1. PICK A \in Wrong : \A B \in Wrong : <<B, A>> \notin StrictSubsetOrdering(S)
    <3>1. Wrong \subseteq FiniteSubsetsOf(S)
      OBVIOUS
    <3> HIDE DEF Wrong
    <3> QED
      BY <3>1, WFMin, FS_StrictSubsetOrderingWellFounded
  <2>2. A \subseteq S /\ IsFiniteSet(A) /\ ~Bounded(A)
    BY DEF FiniteSubsetsOf
  <2>3. A # {}
    <3> SUFFICES ASSUME A = {} PROVE FALSE
      OBVIOUS
    <3>1. Image(A) = {n}
      OBVIOUS
    <3> QED
      BY <2>2, <3>1
  <2>4. PICK x \in A : TRUE
    BY <2>3
  <2> DEFINE B == A \ {x}
  <2>5. IsFiniteSet(B) /\ B \subseteq S /\ B \subseteq A /\ B # A
    BY <2>2, <2>4, FS_RemoveElement
  <2>6. <<B, A>> \in StrictSubsetOrdering(S)
    BY <2>2, <2>5 DEF StrictSubsetOrdering
  <2>7. B \in FiniteSubsetsOf(S)
    BY <2>5 DEF FiniteSubsetsOf
  <2>8. Bounded(B)
    BY <2>1, <2>6, <2>7
  <2>9. PICK m \in Image(B) : \A y \in Image(B) : y <= m
    BY <2>8
  <2>10. Image(A) = Image(B) \cup {h[x]}
    BY <2>4
  <2>11. h[x] \in Nat /\ m \in Nat /\ Image(B) \subseteq Nat
    BY <2>2, <2>4, <2>5
  <2>12. Bounded(A)
    <3> HIDE DEF Image, B
    <3>1. CASE h[x] <= m
      BY <2>9, <2>10, <2>11, <3>1
    <3>2. CASE ~(h[x] <= m)
      BY <2>9, <2>10, <2>11, <3>2
    <3> QED
      BY <3>1, <3>2
  <2> QED
    BY <2>2, <2>12
<1>2. S \in FiniteSubsetsOf(S)
  BY DEF FiniteSubsetsOf
<1>3. \E m \in Image(S) : \A y \in Image(S) : m >= y
  <2>1. Bounded(S)
    BY <1>1, <1>2
  <2>2. Image(S) \subseteq Nat
    OBVIOUS
  <2> HIDE DEF Image
  <2> QED
    BY <2>1, <2>2
<1>4. Image(S) \subseteq Nat
  OBVIOUS
<1> HIDE DEF Image
<1>5. Max(Image(S)) \in Image(S) /\ \A y \in Image(S) : y <= Max(Image(S))
  BY <1>3, <1>4 DEF Max
<1> QED
  BY <1>5 DEF Image

\* Copying the globals' errors raises the targets the globals belong to.
LEMMA CopyGlobalsProgress ==
  ASSUME M \in Modules, NEW rm \in RMaps, NEW other \in RMaps
  PROVE  Progress(rm, CopyGlobals(rm, other))
<1> DEFINE after == CopyGlobals(rm, other)
           kept == {g \in Globals : Known(other.re[g])}
           ofTarget(l) == {g \in kept : M.target[g] = l}
           largest(l) == Max({rm.tg[l]} \cup {other.re[g] : g \in ofTarget(l)})
<1>0. /\ rm.re \in [Keys -> RangeErrors] /\ other.re \in [Keys -> RangeErrors]
      /\ rm.tg \in [Labels -> Nat]
      /\ M.target \in [Values -> Labels \cup {Null}]
      /\ Globals \subseteq Values /\ Globals \subseteq Keys /\ IsFiniteSet(Globals)
  BY ConstantsAssumption DEF RMaps, Modules, Keys
<1>1. \A v \in Keys : after.re[v] = IF v \in kept THEN other.re[v] ELSE rm.re[v]
  BY DEF CopyGlobals
<1>2. \A l \in Labels : after.tg[l] = largest(l)
  BY DEF CopyGlobals
<1>3. ASSUME NEW l \in Labels
      PROVE  /\ largest(l) \in Nat /\ rm.tg[l] <= largest(l)
             /\ \A g \in ofTarget(l) : other.re[g] <= largest(l)
  <2> DEFINE h == [g \in ofTarget(l) |-> other.re[g]]
             T == {rm.tg[l]} \cup {h[g] : g \in ofTarget(l)}
  <2>1. h \in [ofTarget(l) -> Nat]
    BY DEF Known
  <2>2. IsFiniteSet(ofTarget(l))
    BY <1>0, FS_Subset
  <2>3. rm.tg[l] \in Nat
    BY <1>0
  <2>4. T = {rm.tg[l]} \cup {other.re[g] : g \in ofTarget(l)}
    OBVIOUS
  <2>5. Max(T) \in T /\ \A y \in T : y <= Max(T)
    <3> HIDE DEF ofTarget, h
    <3> QED
      BY <2>1, <2>2, <2>3, ImageMax
  <2>6. T \subseteq Nat
    BY <2>1, <2>3
  <2>7. largest(l) = Max(T)
    BY <2>4
  <2> QED
    BY <2>5, <2>6, <2>7
<1>4. after \in RMaps
  <2>1. after = [re |-> after.re, tg |-> after.tg]
        /\ after.re = [v \in Keys |-> IF v \in kept THEN other.re[v] ELSE rm.re[v]]
        /\ after.tg = [l \in Labels |-> largest(l)]
    BY DEF CopyGlobals
  <2>2. after.re \in [Keys -> RangeErrors]
    BY <1>0, <2>1
  <2>3. after.tg \in [Labels -> Nat]
    <3> HIDE DEF largest, after
    <3> QED
      BY <1>3, <2>1
  <2> QED
    BY <2>1, <2>2, <2>3 DEF RMaps
<1>5. TargetsKept(rm, after)
  BY <1>2, <1>3 DEF TargetsKept
<1>6. ASSUME NEW w \in Values, after.re[w] # rm.re[w], M.target[w] # Null
      PROVE  after.re[w] <= after.tg[M.target[w]]
  <2>1. w \in Keys
    BY DEF Keys
  <2>2. w \in kept /\ after.re[w] = other.re[w]
    BY <1>1, <1>6, <2>1
  <2>3. M.target[w] \in Labels
    BY <1>0, <1>6
  <2>4. other.re[w] <= largest(M.target[w])
    BY <1>3, <2>2, <2>3
  <2> QED
    BY <1>2, <2>2, <2>3, <2>4
<1>7. ChangesCovered(rm, after)
  <2> HIDE DEF after
  <2> QED
    BY <1>6 DEF ChangesCovered, Covered
<1> QED
  BY <1>4, <1>5, <1>7 DEF Progress

\* The error of a callee becomes that of the called function.
LEMMA ReturnErrorProgress ==
  ASSUME M \in Modules, NEW rm \in RMaps, NEW callee \in Activations, NEW key \in Keys
  PROVE  Progress(rm, ReturnError(rm, callee, key))
<1>1. callee.f \in Keys
  BY ConstantsAssumption DEF Activations, Keys
<1>2. Known(callee.RMap.re[key]) => callee.RMap.re[key] \in Nat
  BY DEF Known
<1> QED
  BY <1>1, <1>2, SetErrorProgress, ProgressRefl DEF ReturnError

\* An error written back to an actual parameter is a step of the caller's map.
LEMMA WriteBackProgress ==
  ASSUME M \in Modules, NEW rm \in RMaps, NEW callee \in Activations
  PROVE  Progress(rm, ApplyActualParametersErrors(rm, callee))
<1>1. ASSUME NEW r \in RMaps, NEW k
      PROVE  Progress(r, WriteBackArgument(r, callee, k))
  <2>1. callee.Args \in Seq(Keys)
    BY DEF Activations
  <2>2. k \in DOMAIN callee.Args => callee.Args[k] \in Keys
    BY <2>1
  <2> DEFINE e == callee.RMap.re[M.fn[callee.f].formals[k]]
  <2>3. Known(e) => e \in Nat
    BY DEF Known
  <2>4. CASE WriteBackArgument(r, callee, k) = r
    BY <2>4, ProgressRefl
  <2>5. CASE WriteBackArgument(r, callee, k) # r
    <3>1. /\ k \in DOMAIN callee.Args /\ Known(e)
          /\ WriteBackArgument(r, callee, k) = SetError(r, callee.Args[k], e)
      BY <2>5 DEF WriteBackArgument
    <3>2. callee.Args[k] \in Keys /\ e \in Nat
      BY <2>2, <2>3, <3>1
    <3> HIDE DEF e
    <3>3. Progress(r, SetError(r, callee.Args[k], e))
      BY <3>2, SetErrorProgress
    <3> QED
      BY <3>1, <3>3
  <2> QED
    BY <2>4, <2>5
<1> DEFINE first == WriteBackArgument(rm, callee, 1)
<1>2. Progress(rm, first) /\ first \in RMaps
  BY <1>1 DEF Progress
<1>3. Progress(first, WriteBackArgument(first, callee, MaxArity))
  BY <1>1, <1>2
<1> QED
  BY <1>2, <1>3, ProgressTrans DEF ApplyActualParametersErrors

\* The fields of an instruction.
LEMMA InstructionType ==
  ASSUME NEW i \in Instructions
  PROVE  /\ i.id \in Values /\ i.id \in Keys /\ i.a \in Keys /\ i.b \in Keys /\ i.own \in Nat
         /\ i.callee \in Functions \cup {Null} /\ i.callee \in Keys
         /\ i.args \in Seq(Values)
BY ConstantsAssumption DEF Instructions, Keys

\* A propagation rule yields an error or nothing.
LEMMA EvaluateType ==
  ASSUME NEW re \in [Keys -> RangeErrors], NEW i \in Instructions
  PROVE  Evaluate(re, i) \in RangeErrors
<1>1. /\ re[i.a] \in RangeErrors /\ re[i.b] \in RangeErrors /\ i.own \in Nat
      /\ Absent \in RangeErrors
  BY InstructionType DEF RangeErrors
<1>2. Larger(re[i.a], re[i.b]) \in RangeErrors
  BY <1>1, LargerType
<1>3. CASE i.op \in {"binary", "call"} /\ ~IsPassThrough(i)
  <2>1. Known(re[i.a]) => re[i.a] \in Nat
    BY DEF Known
  <2>2. Known(re[i.b]) => re[i.b] \in Nat
    BY DEF Known
  <2>3. Known(re[i.a]) /\ (i.b = Null \/ Known(re[i.b])) =>
          re[i.a] + (IF i.b = Null THEN 0 ELSE re[i.b]) + i.own \in Nat
    BY <1>1, <2>1, <2>2
  <2> QED
    BY <1>1, <1>3, <2>3 DEF Evaluate, BinaryError, RangeErrors
<1>4. CASE i.op = "select"
  BY <1>1, <1>2, <1>4 DEF Evaluate, SelectError, IsPassThrough, IsSpecialCall
<1>5. CASE i.op = "phi"
  BY <1>1, <1>2, <1>5 DEF Evaluate, PhiError, IsPassThrough, IsSpecialCall
<1>6. CASE i.op = "load"
  <2>1. DefiningEntries(re, i) \subseteq Keys
    BY InstructionType DEF DefiningEntries, Keys
  <2>2. CASE \E k \in DefiningEntries(re, i) : k # Null /\ DefiningEntries(re, i) = {k}
    <3>1. (CHOOSE k \in DefiningEntries(re, i) : TRUE) \in Keys
      BY <2>1, <2>2
    <3>2. LoadError(re, i) = re[CHOOSE k \in DefiningEntries(re, i) : TRUE]
      BY <2>2 DEF LoadError
    <3> QED
      BY <1>6, <3>1, <3>2 DEF Evaluate, IsPassThrough, IsSpecialCall
  <2>3. CASE ~ \E k \in DefiningEntries(re, i) : k # Null /\ DefiningEntries(re, i) = {k}
    <3>1. LoadError(re, i) \in {Absent, Larger(re[i.a], re[i.b]), i.own}
      BY <2>3 DEF LoadError
    <3> QED
      BY <1>1, <1>2, <1>6, <3>1 DEF Evaluate, IsPassThrough, IsSpecialCall, RangeErrors
  <2> QED
    BY <2>2, <2>3
<1>7. CASE IsPassThrough(i)
  <2>1. UnaryError(re, i) \in RangeErrors
    BY <1>1 DEF UnaryError
  <2>2. i.op \in {"unary", "call"}
    BY <1>7 DEF IsPassThrough, IsSpecialCall
  <2> QED
    BY <1>7, <2>1, <2>2 DEF Evaluate
<1>8. CASE i.op \in {"shr", "fptoi"}
  <2>1. RoundedError(re, i) \in RangeErrors
    <3>1. Known(re[i.a]) => re[i.a] \in Nat
      BY DEF Known
    <3> QED
      BY <1>1, <3>1 DEF RoundedError, RangeErrors
  <2> QED
    BY <1>8, <2>1 DEF Evaluate, IsPassThrough, IsSpecialCall
<1>9. CASE /\ i.op \notin {"binary", "call", "shr", "fptoi", "select", "phi", "load"}
           /\ ~IsPassThrough(i)
  BY <1>1, <1>9 DEF Evaluate
<1> QED
  BY <1>3, <1>4, <1>5, <1>6, <1>7, <1>8, <1>9

\* So does the rule for calls.
LEMMA ResultType ==
  ASSUME NEW re \in [Keys -> RangeErrors], NEW i \in Instructions
  PROVE  Result(re, i) \in RangeErrors
<1>1. re[i.callee] \in RangeErrors /\ Absent \in RangeErrors
  BY InstructionType DEF RangeErrors
<1> QED
  BY <1>1, EvaluateType DEF Result, CallError

\* A store raises the targets of the store and of the origin pointer.
LEMMA PropagateStoreProgress ==
  ASSUME M \in Modules, NEW rm \in RMaps, NEW i \in Instructions
  PROVE  /\ Progress(rm, PropagateStore(rm, i))
         /\ Known(StoredError(rm.re, i)) => Covered(PropagateStore(rm, i), i.id)
<1> DEFINE e == StoredError(rm.re, i)
           stored == SetError(rm, i.id, e)
           origin == M.origin[i.b]
<1>1. CASE ~Known(e)
  BY <1>1, ProgressRefl DEF PropagateStore
<1>2. CASE Known(e)
  <2>1. e \in Nat /\ i.id \in Keys /\ i.id \in Values /\ origin \in Keys
    BY <1>2, InstructionType DEF Known, Modules
  <2>2. Progress(rm, stored) /\ Covered(stored, i.id) /\ stored \in RMaps
    <3> HIDE DEF e
    <3> QED
      BY <2>1, SetErrorProgress DEF Progress
  <2>3. Progress(stored, SetError(stored, origin, e))
    <3> HIDE DEF e, stored, origin
    <3> QED
      BY <2>1, <2>2, SetErrorProgress
  <2>4. Covered(SetError(stored, origin, e), i.id)
    <3> HIDE DEF e, stored, origin
    <3> QED
      BY <2>1, <2>2, <2>3, CoveredKept
  <2>5. PropagateStore(rm, i) \in {stored, SetError(stored, origin, e)}
    BY <1>2 DEF PropagateStore
  <2> HIDE DEF e, stored, origin
  <2> QED
    BY <2>2, <2>3, <2>4, <2>5, ProgressTrans
<1> QED
  BY <1>1, <1>2

\* A ret raises the targets of the ret and of the function's own error.
LEMMA PropagateRetProgress ==
  ASSUME M \in Modules, NEW rm \in RMaps, NEW i \in Instructions, NEW fk \in Keys
  PROVE  /\ Progress(rm, PropagateRet(rm, i, fk))
         /\ Known(rm.re[i.a]) => Covered(PropagateRet(rm, i, fk), i.id)
<1> DEFINE e == rm.re[i.a]
           ret == SetError(rm, i.id, e)
<1>1. CASE ~Known(e)
  BY <1>1, ProgressRefl DEF PropagateRet
<1>2. CASE Known(e)
  <2>1. e \in Nat /\ i.id \in Keys /\ i.id \in Values
    BY <1>2, InstructionType DEF Known
  <2>2. Progress(rm, ret) /\ Covered(ret, i.id) /\ ret \in RMaps
    <3> HIDE DEF e
    <3> QED
      BY <2>1, SetErrorProgress DEF Progress
  <2>3. Progress(ret, SetError(ret, fk, e))
    <3> HIDE DEF e, ret
    <3> QED
      BY <2>1, <2>2, SetErrorProgress
  <2>4. Covered(SetError(ret, fk, e), i.id)
    <3> HIDE DEF e, ret
    <3> QED
      BY <2>1, <2>2, <2>3, CoveredKept
  <2>5. PropagateRet(rm, i, fk) \in {ret, SetError(ret, fk, e)}
    BY <1>2 DEF PropagateRet
  <2> HIDE DEF e, ret
  <2> QED
    BY <2>2, <2>3, <2>4, <2>5, ProgressTrans
<1> QED
  BY <1>1, <1>2

\* An entry that loses its error is no target's concern.
LEMMA ForgottenProgress ==
  ASSUME NEW rm \in RMaps, NEW v \in Keys
  PROVE  /\ Progress(rm, [rm EXCEPT !.re[v] = NoErr])
         /\ Covered([rm EXCEPT !.re[v] = NoErr], v)
<1> DEFINE after == [rm EXCEPT !.re[v] = NoErr]
<1>1. /\ rm.re \in [Keys -> RangeErrors] /\ rm.tg \in [Labels -> Nat]
      /\ rm = [re |-> rm.re, tg |-> rm.tg]
  BY DEF RMaps
<1>2. after = [re |-> [rm.re EXCEPT ![v] = NoErr], tg |-> rm.tg]
  BY <1>1
<1> HIDE DEF after
<1>3. NoErr \in RangeErrors /\ ~Known(NoErr)
  BY ConstantsAssumption DEF RangeErrors, Known
<1>4. after \in RMaps
  BY <1>1, <1>2, <1>3 DEF RMaps
<1>5. after.tg = rm.tg /\ after.re[v] = NoErr
  BY <1>1, <1>2
<1>6. \A w \in Values : after.re[w] # rm.re[w] => w = v
  BY <1>1, <1>2 DEF Keys
<1>7. Covered(after, v)
  BY <1>3, <1>5 DEF Covered
<1>8. TargetsKept(rm, after)
  BY <1>1, <1>5 DEF TargetsKept
<1>9. Progress(rm, after)
  BY <1>4, <1>6, <1>7, <1>8 DEF Progress, ChangesCovered
<1> QED
  BY <1>7, <1>9 DEF after

\* Whatever the instruction, its propagation is a step of the map, and the error
\* computed for a value is in the entry of the target the value belongs to.
LEMMA DispatchProgress ==
  ASSUME M \in Modules, NEW rm \in RMaps, NEW ranges, NEW i \in Instructions, NEW fk \in Keys
  PROVE  /\ Progress(rm, Dispatch(rm, i, fk))
         /\ Computed(rm.re, ranges, i) /\ i.op # "cmp" => Covered(Dispatch(rm, i, fk), i.id)
         /\ ~Computed(rm.re, ranges, i) => Dispatch(rm, i, fk) = rm
<1>1. CASE i.op = "store"
  BY <1>1, PropagateStoreProgress DEF Dispatch, Computed, PropagateStore
<1>2. CASE i.op = "ret"
  BY <1>2, PropagateRetProgress DEF Dispatch, Computed, PropagateRet
<1>3. CASE i.op \in {"cmp", "none"}
  BY <1>3, ProgressRefl DEF Dispatch, Computed
<1>4. CASE i.op \notin {"store", "ret", "cmp", "none"}
  <2> DEFINE e == Result(rm.re, i)
  <2>1. /\ Dispatch(rm, i, fk) = CASE Known(e) -> SetError(rm, i.id, e)
                                     [] e = NoErr -> [rm EXCEPT !.re[i.id] = NoErr]
                                     [] OTHER -> rm
        /\ Computed(rm.re, ranges, i) <=> e # Absent
    BY <1>4 DEF Dispatch, Computed
  <2>2. e \in RangeErrors
    BY ResultType DEF RMaps
  <2>3. i.id \in Keys /\ i.id \in Values
    BY InstructionType
  <2> HIDE DEF e
  <2>4. CASE Known(e)
    <3>1. e \in Nat /\ e # Absent /\ e # NoErr
      BY <2>4, ConstantsAssumption DEF Known
    <3>2. Dispatch(rm, i, fk) = SetError(rm, i.id, e)
      BY <2>1, <2>4, <3>1
    <3> QED
      BY <2>1, <2>3, <3>1, <3>2, SetErrorProgress
  <2>5. CASE e = NoErr
    <3>1. Dispatch(rm, i, fk) = [rm EXCEPT !.re[i.id] = NoErr] /\ ~Known(NoErr) /\ e # Absent
      BY <2>1, <2>5, ConstantsAssumption DEF Known
    <3>2. Computed(rm.re, ranges, i)
      BY <2>1, <3>1
    <3> QED
      BY <2>3, <3>1, <3>2, ForgottenProgress
  <2>6. CASE e = Absent
    <3>1. Dispatch(rm, i, fk) = rm
      BY <2>1, <2>6, ConstantsAssumption DEF Known
    <3> QED
      BY <2>1, <2>6, <3>1, ProgressRefl
  <2> QED
    BY <2>2, <2>4, <2>5, <2>6 DEF RangeErrors, Known
<1> QED
  BY <1>1, <1>2, <1>3, <1>4

\* Reading an instruction's metadata leaves the targets alone.
LEMMA RetrieveType ==
  ASSUME M \in Modules, NEW rm \in RMaps, NEW v \in Values
  PROVE  /\ Retrieve(rm, v) \in RMaps
         /\ Retrieve(rm, v).tg = rm.tg
         /\ \A w \in Keys : Retrieve(rm, v).re[w] = IF w = v /\ M.info[v] # Absent
                                                    THEN M.info[v] ELSE rm.re[w]
<1>1. v \in Keys /\ M.info[v] \in RangeErrors
  BY DEF Keys, Modules
<1>2. rm.re \in [Keys -> RangeErrors] /\ rm.tg \in [Labels -> Nat] /\ rm = [re |-> rm.re, tg |-> rm.tg]
  BY DEF RMaps
<1> QED
  BY <1>1, <1>2 DEF Retrieve, RMaps

\* A comparison has no initial error of its own: its value is not a number.
ComparisonsHaveNoError(P) ==
  \A f \in Functions : \A n \in DOMAIN P.fn[f].body :
    P.fn[f].body[n].op = "cmp" => ~Known(P.info[P.fn[f].body[n].id])

\* computeInstructionErrors is a step of the map it is given ...
LEMMA ComputeProgress ==
  ASSUME M \in Modules, NEW rm \in RMaps, NEW ranges, NEW i \in Instructions, NEW fk \in Keys
  PROVE  Progress(rm, Compute(rm, ranges, i, fk))
<1>1. Progress(rm, Dispatch(rm, i, fk)) /\ Dispatch(rm, i, fk) \in RMaps
  BY DispatchProgress DEF Progress
<1>2. CASE ~Computed(rm.re, ranges, i) /\ Known(M.info[i.id])
  <2>1. M.info[i.id] \in Nat /\ i.id \in Keys
    BY <1>2, InstructionType DEF Known
  <2>2. Progress(Dispatch(rm, i, fk), SetError(Dispatch(rm, i, fk), i.id, M.info[i.id]))
    BY <1>1, <2>1, SetErrorProgress
  <2> QED
    BY <1>1, <1>2, <2>2, ProgressTrans DEF Compute
<1>3. CASE ~(~Computed(rm.re, ranges, i) /\ Known(M.info[i.id]))
  BY <1>1, <1>3 DEF Compute
<1> QED
  BY <1>2, <1>3

\* ... and, with the metadata read before it, of the map of before.
LEMMA RetrieveComputeProgress ==
  ASSUME M \in Modules, NEW rm \in RMaps, NEW ranges, NEW i \in Instructions, NEW fk \in Keys,
         i.op = "cmp" => ~Known(M.info[i.id])
  PROVE  Progress(rm, Compute(Retrieve(rm, i.id), ranges, i, fk))
<1> DEFINE read == Retrieve(rm, i.id)
           after == Compute(read, ranges, i, fk)
<1>0. i.id \in Values /\ i.id \in Keys
  BY InstructionType
<1>1. read \in RMaps /\ read.tg = rm.tg
  BY <1>0, RetrieveType
<1>2. Progress(read, after)
  BY <1>1, ComputeProgress
<1>3. \A w \in Values : w # i.id => read.re[w] = rm.re[w]
  BY <1>0, RetrieveType DEF Keys
<1>4. Covered(after, i.id) \/ after.re[i.id] = rm.re[i.id]
  <2>1. CASE Computed(read.re, ranges, i) /\ i.op # "cmp"
    <3>1. Covered(Dispatch(read, i, fk), i.id)
      BY <1>1, <2>1, DispatchProgress
    <3> QED
      BY <2>1, <3>1 DEF Compute
  <2>2. CASE ~Computed(read.re, ranges, i) /\ Known(M.info[i.id])
    <3>1. M.info[i.id] \in Nat
      BY <2>2 DEF Known
    <3>2. Dispatch(read, i, fk) \in RMaps
      BY <1>1, DispatchProgress DEF Progress
    <3>3. Covered(SetError(Dispatch(read, i, fk), i.id, M.info[i.id]), i.id)
      BY <1>0, <3>1, <3>2, SetErrorProgress
    <3> QED
      BY <2>2, <3>3 DEF Compute
  <2>3. CASE ~Known(M.info[i.id]) /\ (i.op = "cmp" \/ ~Computed(read.re, ranges, i))
    <3>1. after = read
      <4>1. i.op = "cmp" => Dispatch(read, i, fk) = read
        BY DEF Dispatch
      <4>2. ~Computed(read.re, ranges, i) => Dispatch(read, i, fk) = read
        BY <1>1, DispatchProgress
      <4> QED
        BY <2>3, <4>1, <4>2 DEF Compute
    <3>2. CASE M.info[i.id] = Absent
      BY <1>0, <3>1, <3>2, RetrieveType
    <3>3. CASE M.info[i.id] # Absent
      <4>1. read.re[i.id] = M.info[i.id]
        BY <1>0, <3>3, RetrieveType
      <4> QED
        BY <2>3, <3>1, <4>1 DEF Covered
    <3> QED
      BY <3>2, <3>3
  <2> QED
    BY <2>1, <2>2, <2>3
<1> HIDE DEF after, read
<1>5. ChangesCovered(rm, after)
  <2> SUFFICES ASSUME NEW w \in Values, after.re[w] # rm.re[w] PROVE Covered(after, w)
    BY DEF ChangesCovered
  <2>1. CASE w = i.id
    BY <1>4, <2>1
  <2>2. CASE w # i.id
    BY <1>2, <1>3, <2>2 DEF Progress, ChangesCovered
  <2> QED
    BY <2>1, <2>2
<1>6. after \in RMaps /\ TargetsKept(rm, after)
  BY <1>1, <1>2 DEF Progress, TargetsKept
<1>7. Progress(rm, after)
  BY <1>5, <1>6 DEF Progress
<1> QED
  BY <1>7 DEF after, read

\* The arguments bound and the function's own error forgotten, the targets are
\* kept: this is what an activation starts with.
Started(below, fcm, f, args) ==
  ApplyArgumentErrors(RetrieveArguments([below EXCEPT !.re[FCopy(fcm, f)] = Absent], f), f, args)

LEMMA StartedType ==
  ASSUME M \in Modules, NEW below \in RMaps, NEW fcm, NEW f \in Functions, NEW args \in Seq(Keys)
  PROVE  Started(below, fcm, f, args) \in RMaps /\ TargetsKept(below, Started(below, fcm, f, args))
<1> DEFINE copied == [below EXCEPT !.re[FCopy(fcm, f)] = Absent]
           read == RetrieveArguments(copied, f)
           first == BindArgument(read, f, args, 1)
<1>1. copied \in RMaps /\ copied.tg = below.tg
  <2>1. /\ below.re \in [Keys -> RangeErrors] /\ below.tg \in [Labels -> Nat]
        /\ below = [re |-> below.re, tg |-> below.tg]
    BY DEF RMaps
  <2>2. Absent \in RangeErrors
    BY DEF RangeErrors
  <2> QED
    BY <2>1, <2>2 DEF RMaps
<1>2. read \in RMaps /\ read.tg = below.tg
  <2> HIDE DEF copied
  <2>1. M.info \in [Values -> RangeErrors]
    BY DEF Modules
  <2>2. /\ copied.re \in [Keys -> RangeErrors] /\ copied.tg \in [Labels -> Nat]
        /\ copied = [re |-> copied.re, tg |-> copied.tg]
    BY <1>1 DEF RMaps
  <2> DEFINE described == {v \in Values : \E k \in DOMAIN M.fn[f].formals :
                                            M.fn[f].formals[k] = v /\ M.info[v] # Absent}
             errors == [v \in Keys |-> IF v \in described THEN M.info[v] ELSE copied.re[v]]
  <2>3. read = [copied EXCEPT !.re = errors]
    BY DEF RetrieveArguments
  <2>4. errors \in [Keys -> RangeErrors]
    BY <2>1, <2>2
  <2> HIDE DEF errors, read
  <2> QED
    BY <1>1, <2>2, <2>3, <2>4 DEF RMaps
<1>3. ASSUME NEW rm \in RMaps, NEW k
      PROVE  Progress(rm, BindArgument(rm, f, args, k))
  <2>1. M.fn[f].formals \in Seq(Values)
    BY DEF Modules, FunctionData
  <2>2. k \in DOMAIN M.fn[f].formals => M.fn[f].formals[k] \in Keys
    BY <2>1 DEF Keys
  <2> DEFINE e == rm.re[args[k]]
  <2>3. CASE BindArgument(rm, f, args, k) = rm
    BY <2>3, ProgressRefl
  <2>4. CASE BindArgument(rm, f, args, k) # rm
    <3>1. /\ k \in DOMAIN M.fn[f].formals /\ e \in Nat
          /\ BindArgument(rm, f, args, k) = SetError(rm, M.fn[f].formals[k], e)
      BY <2>4 DEF BindArgument, Known
    <3> HIDE DEF e
    <3>2. Progress(rm, SetError(rm, M.fn[f].formals[k], e))
      BY <2>2, <3>1, SetErrorProgress
    <3> QED
      BY <3>1, <3>2
  <2> QED
    BY <2>3, <2>4
<1> HIDE DEF read
<1>4. Progress(read, first) /\ first \in RMaps
  BY <1>2, <1>3 DEF Progress
<1> HIDE DEF first
<1>5. Progress(first, BindArgument(first, f, args, MaxArity))
  BY <1>3, <1>4
<1>6. Progress(read, BindArgument(first, f, args, MaxArity))
  BY <1>2, <1>4, <1>5, ProgressTrans
<1>7. Started(below, fcm, f, args) = BindArgument(first, f, args, MaxArity)
  BY DEF Started, ApplyArgumentErrors, first, read
<1> QED
  BY <1>2, <1>6, <1>7 DEF Progress, TargetsKept

\* The key of an activation's own error.
LEMMA FCopyType ==
  ASSUME NEW fcm, NEW f \in Functions
  PROVE  FCopy(fcm, f) \in Keys
BY ConstantsAssumption DEF FCopy, Keys

\* What an activation leaves behind is a step of the map it was started from,
\* and no target falls below its entry in the activation's own map.
LEMMA MergeProgress ==
  ASSUME M \in Modules, NEW rm \in RMaps, stack # <<>>, Top \in Activations
  PROVE  Progress(rm, Merge(rm)) /\ TargetsKept(Top.RMap, Merge(rm))
<1> DEFINE actuals == ApplyActualParametersErrors(rm, Top)
           globals == CopyGlobals(actuals, Top.RMap)
           targets == UpdateTargets(globals, Top.RMap)
           after == ReturnError(targets, Top, Self)
<1>1. Top.RMap \in RMaps /\ Self \in Keys
  BY FCopyType DEF Activations, Self
<1>2. Progress(rm, actuals) /\ actuals \in RMaps
  BY WriteBackProgress DEF Progress
<1> HIDE DEF actuals
<1>3. Progress(actuals, globals) /\ globals \in RMaps
  BY <1>1, <1>2, CopyGlobalsProgress DEF Progress
<1> HIDE DEF globals
<1>4. Progress(globals, targets) /\ targets \in RMaps /\ TargetsKept(Top.RMap, targets)
  BY <1>1, <1>3, UpdateTargetsProgress DEF Progress
<1> HIDE DEF targets
<1>5. Progress(targets, after) /\ after \in RMaps
  BY <1>1, <1>4, ReturnErrorProgress DEF Progress
<1>6. Merge(rm) = after
  BY DEF Merge, after, targets, globals, actuals
<1> HIDE DEF after
<1>7. Progress(rm, after)
  <2>1. Progress(rm, globals)
    BY <1>2, <1>3, ProgressTrans
  <2>2. Progress(rm, targets)
    BY <1>4, <2>1, ProgressTrans
  <2> QED
    BY <1>5, <2>2, ProgressTrans
<1>8. TargetsKept(Top.RMap, after)
  <2>1. \A l \in Labels : /\ Top.RMap.tg[l] \in Nat /\ targets.tg[l] \in Nat
                          /\ after.tg[l] \in Nat
    BY <1>1, <1>4, <1>5 DEF RMaps
  <2> QED
    BY <1>4, <1>5, <2>1 DEF Progress, TargetsKept
<1> QED
  BY <1>6, <1>7, <1>8

-----------------------------------------------------------------------------
(* The stack of activations: what each action does to it.                  *)

\* All activations but the last wait in a call, and that call is an
\* instruction of the function; once the report is out there is none.
StackOK ==
  /\ \A d \in 1..Depth : d < Depth => stack[d].at = "callee"
  /\ \A d \in 1..Depth : stack[d].at = "callee" => stack[d].pc <= Len(M.fn[stack[d].f].body)
  /\ stack # <<>> => shown = NotShown

TypeInv == TypeOK /\ StackOK

\* The state an action that works on an activation starts from.
LEMMA TopType ==
  ASSUME TypeInv, stack # <<>>
  PROVE  /\ Depth \in Nat \ {0} /\ DOMAIN stack = 1..Depth
         /\ \A d \in 1..Depth : stack[d] \in Activations /\ stack[d].RMap \in RMaps
                                /\ stack[d].f \in Functions
         /\ Top \in Activations /\ Top.f \in Functions /\ Top.RMap \in RMaps
         /\ Self \in Keys
         /\ Body \in Seq(Instructions)
         /\ Top.pc <= Len(Body) => Current \in Instructions /\ Top.pc \in DOMAIN Body
<1>1. stack \in Seq(Activations) /\ M \in Modules
  BY DEF TypeInv, TypeOK
<1>2. Depth \in Nat \ {0} /\ DOMAIN stack = 1..Depth
  BY <1>1 DEF Depth
<1>3. \A d \in 1..Depth : stack[d] \in Activations
  BY <1>1 DEF Depth
<1>4. \A d \in 1..Depth : stack[d].RMap \in RMaps /\ stack[d].f \in Functions
  BY <1>3 DEF Activations
<1>5. Top \in Activations /\ Top.f \in Functions /\ Top.RMap \in RMaps
  BY <1>2, <1>3, <1>4 DEF Top
<1>6. Self \in Keys
  BY <1>5, FCopyType DEF Self
<1>7. Body \in Seq(Instructions)
  BY <1>1, <1>5 DEF Body, Modules, FunctionData
<1>8. Top.pc \in Nat \ {0}
  BY <1>5 DEF Activations
<1>9. Top.pc <= Len(Body) => Current \in Instructions /\ Top.pc \in DOMAIN Body
  BY <1>7, <1>8 DEF Current
<1> QED
  BY <1>2, <1>3, <1>4, <1>5, <1>6, <1>7, <1>9

\* What stays the same when the activation on top is replaced by another state of it.
SameBelow(st, d) == \A k \in 1..d : k < d => st[k] = stack[k]
SameFrame(new, old) ==
  /\ new.f = old.f /\ new.OldRecCount = old.OldRecCount
  /\ new.Args = old.Args /\ new.GenMetadata = old.GenMetadata

\* The values with a range stay values.
LEMMA RangesType ==
  ASSUME M \in Modules, NEW rm, NEW ranges \in SUBSET Keys, NEW i \in Instructions
  PROVE  PropagateRanges(rm, ranges, i) \subseteq Keys
<1>1. i.id \in Keys /\ M.origin[i.b] \in Keys
  BY InstructionType DEF Modules
<1>2. ASSUME NEW r \in SUBSET Keys, NEW to \in Keys, NEW from PROVE CopyRange(r, to, from) \subseteq Keys
  BY DEF CopyRange
<1>3. StoreRanges(rm, ranges, i) \subseteq Keys
  <2> DEFINE from == IF Known(rm.re[i.a]) THEN i.a ELSE i.b
             stored == CopyRange(ranges, i.id, from)
  <2>1. stored \subseteq Keys
    BY <1>1, <1>2
  <2>2. CopyRange(stored, M.origin[i.b], from) \subseteq Keys
    BY <1>1, <1>2, <2>1
  <2>3. StoreRanges(rm, ranges, i) \in {ranges, stored, CopyRange(stored, M.origin[i.b], from)}
    BY DEF StoreRanges
  <2> HIDE DEF stored, from
  <2> QED
    BY <2>1, <2>2, <2>3
<1>4. LoadRanges(rm.re, ranges, i) \subseteq Keys
  BY <1>1, <1>2 DEF LoadRanges
<1>5. UnaryRanges(rm.re, ranges, i) \subseteq Keys
  BY <1>1, <1>2 DEF UnaryRanges
<1> QED
  BY <1>3, <1>4, <1>5 DEF PropagateRanges

LEMMA DescribedType ==
  ASSUME Top \in Activations, NEW i \in Instructions
  PROVE  Described(i) \subseteq Keys
BY InstructionType DEF Described, Activations

\* An activation after an instruction is an activation.
LEMMA ActivationUpdate ==
  ASSUME NEW t \in Activations, NEW rm \in RMaps, NEW ranges \in SUBSET Keys,
         NEW wrongs \in SUBSET Values, NEW rights \in SUBSET Values, NEW rets \in RangeErrors
  PROVE  [t EXCEPT !.RMap = rm, !.Ranges = ranges, !.CmpWrong = wrongs, !.CmpRight = rights,
                   !.pc = t.pc + 1, !.at = "body", !.rets = rets] \in Activations
<1> DEFINE t1 == [t EXCEPT !.RMap = rm, !.Ranges = ranges, !.CmpWrong = wrongs]
           t2 == [t1 EXCEPT !.CmpRight = rights, !.pc = t.pc + 1]
           t3 == [t2 EXCEPT !.at = "body", !.rets = rets]
<1>1. t1 \in Activations
  BY DEF Activations
<1>2. t2 \in Activations
  <2>1. t.pc + 1 \in Nat \ {0}
    BY DEF Activations
  <2> HIDE DEF t1
  <2> QED
    BY <1>1, <2>1 DEF Activations
<1>3. t3 \in Activations
  <2> HIDE DEF t2
  <2> QED
    BY <1>2 DEF Activations
<1>4. t3 = [t EXCEPT !.RMap = rm, !.Ranges = ranges, !.CmpWrong = wrongs, !.CmpRight = rights,
                     !.pc = t.pc + 1, !.at = "body", !.rets = rets]
  OBVIOUS
<1> QED
  BY <1>3, <1>4

\* An instruction leaves a state of the same activation, ready for the next one.
LEMMA FinishStack ==
  ASSUME TypeInv, stack # <<>>, Top.pc <= Len(Body), NEW rm \in RMaps, FinishInstruction(rm)
  PROVE  /\ stack' \in Seq(Activations) /\ Len(stack') = Depth
         /\ SameBelow(stack', Depth)
         /\ SameFrame(stack'[Depth], Top)
         /\ stack'[Depth].RMap = Compute(rm, Described(Current), Current, Self)
         /\ stack'[Depth].at = "body" /\ stack'[Depth].pc = Top.pc + 1
         /\ stack'[Depth].rets = IF Current.op = "ret" THEN Larger(Top.rets, rm.re[Current.a])
                                 ELSE Top.rets
<1> DEFINE i == Current
           after == Compute(rm, Described(i), i, Self)
           ranges == PropagateRanges(rm, Described(i), i)
           judged == /\ i.op = "cmp" /\ Computed(rm.re, Described(i), i)
                     /\ i.id \notin Top.CmpRight \cup Top.CmpWrong
           wrong == judged /\ MayBeWrong(rm.re, i)
           wrongs == IF wrong THEN Top.CmpWrong \cup {i.id} ELSE Top.CmpWrong
           rights == IF judged /\ ~wrong THEN Top.CmpRight \cup {i.id} ELSE Top.CmpRight
           rets == IF i.op = "ret" THEN Larger(Top.rets, rm.re[i.a]) ELSE Top.rets
           new == [Top EXCEPT !.RMap = after, !.Ranges = ranges,
                              !.CmpWrong = wrongs, !.CmpRight = rights,
                              !.pc = Top.pc + 1, !.at = "body", !.rets = rets]
<1>1. stack' = [stack EXCEPT ![Depth] = new]
  BY DEF FinishInstruction, Finished
<1>2. i \in Instructions /\ Self \in Keys /\ Top \in Activations /\ Depth \in 1..Depth
  BY TopType
<1>3. after \in RMaps
  <2> HIDE DEF i
  <2>1. Progress(rm, after)
    BY <1>2, ComputeProgress DEF TypeInv, TypeOK
  <2> QED
    BY <2>1 DEF Progress
<1>4. rets \in RangeErrors
  <2>1. Top.rets \in RangeErrors /\ rm.re[i.a] \in RangeErrors
    BY <1>2, InstructionType DEF Activations, RMaps
  <2> HIDE DEF i
  <2> QED
    BY <2>1, LargerType
<1>5. wrongs \subseteq Values /\ rights \subseteq Values
  <2>1. i.id \in Values /\ Top.CmpWrong \subseteq Values /\ Top.CmpRight \subseteq Values
    BY <1>2, InstructionType DEF Activations
  <2> HIDE DEF i, wrong, judged
  <2> QED
    BY <2>1
<1>10. ranges \subseteq Keys
  BY <1>2, DescribedType, RangesType DEF TypeInv, TypeOK
<1> HIDE DEF after, ranges, wrongs, rights, rets, i
<1>6. /\ new.f = Top.f /\ new.OldRecCount = Top.OldRecCount /\ new.Args = Top.Args
      /\ new.RMap = after /\ new.at = "body" /\ new.pc = Top.pc + 1
      /\ new.GenMetadata = Top.GenMetadata /\ new.rets = rets
  BY <1>2 DEF Activations
<1>7. new \in Activations
  BY <1>2, <1>3, <1>4, <1>5, <1>10, ActivationUpdate
<1> HIDE DEF new
<1>8. stack \in Seq(Activations)
  BY DEF TypeInv, TypeOK
<1>9. /\ stack' \in Seq(Activations) /\ Len(stack') = Depth
      /\ stack'[Depth] = new /\ SameBelow(stack', Depth)
  BY <1>1, <1>2, <1>7, <1>8 DEF SameBelow, Depth
<1> QED
  BY <1>6, <1>9 DEF SameFrame, after, rets, i

\* A caller's activation, with its map read, waits in the call.
LEMMA WaitStack ==
  ASSUME TypeInv, stack # <<>>, Top.pc <= Len(Body), NEW rm \in RMaps
  PROVE  /\ WaitInCall(rm) \in Seq(Activations) /\ Len(WaitInCall(rm)) = Depth
         /\ SameBelow(WaitInCall(rm), Depth)
         /\ SameFrame(WaitInCall(rm)[Depth], Top)
         /\ WaitInCall(rm)[Depth].RMap = rm
         /\ WaitInCall(rm)[Depth].at = "callee"
         /\ WaitInCall(rm)[Depth].pc = Top.pc
         /\ WaitInCall(rm)[Depth].rets = Top.rets
<1> DEFINE ranges == Described(Current)
           new == [Top EXCEPT !.RMap = rm, !.Ranges = ranges, !.at = "callee"]
<1>1. WaitInCall(rm) = [stack EXCEPT ![Depth] = new]
  BY DEF WaitInCall, Top
<1>2. Top \in Activations /\ Depth \in 1..Depth /\ ranges \subseteq Keys
  BY TopType, DescribedType
<1> HIDE DEF ranges
<1>3. /\ new \in Activations /\ new.RMap = rm /\ new.at = "callee" /\ new.pc = Top.pc
      /\ new.rets = Top.rets /\ SameFrame(new, Top)
  BY <1>2 DEF Activations, SameFrame
<1> HIDE DEF new
<1>4. stack \in Seq(Activations)
  BY DEF TypeInv, TypeOK
<1> QED
  BY <1>1, <1>2, <1>3, <1>4 DEF SameBelow, Depth

\* A function is entered by appending an activation of it.
Entered(callers, below, f, args, gen, fcm) ==
  /\ FCMap' = IncRecursionCount(fcm, f)
  /\ FCMap' \in [Functions -> FunctionCopyCounts]
  /\ memssa' = 0
  /\ stack' \in Seq(Activations) /\ Len(stack') = Len(callers) + 1
  /\ \A d \in 1..Len(callers) : stack'[d] = callers[d]
  /\ stack'[Len(callers) + 1].f = f
  /\ stack'[Len(callers) + 1].OldRecCount = fcm[f].RecCount
  /\ stack'[Len(callers) + 1].Args = args /\ stack'[Len(callers) + 1].GenMetadata = gen
  /\ stack'[Len(callers) + 1].RMap = Started(below, fcm, f, args)
  /\ stack'[Len(callers) + 1].at = "start" /\ stack'[Len(callers) + 1].rets = NoErr

LEMMA EnterStack ==
  ASSUME M \in Modules, NEW callers \in Seq(Activations), NEW below \in RMaps,
         NEW ranges \in SUBSET Keys,
         NEW f \in Functions, NEW args \in Seq(Keys), NEW gen \in BOOLEAN,
         NEW fcm \in [Functions -> FunctionCopyCounts],
         Enter(callers, below, ranges, f, args, gen, fcm)
  PROVE  Entered(callers, below, f, args, gen, fcm)
<1> DEFINE map == Started(below, fcm, f, args)
           described == {v \in Values : \E k \in DOMAIN M.fn[f].formals :
                                          M.fn[f].formals[k] = v /\ M.info[v] # Absent}
           started == (ranges \ {FCopy(fcm, f)}) \cup described
           new == [f |-> f, GenMetadata |-> gen, Args |-> args, OldRecCount |-> fcm[f].RecCount,
                   RMap |-> map, Ranges |-> started, CmpRight |-> {}, CmpWrong |-> {},
                   pc |-> 1, at |-> "start", rets |-> NoErr]
<1>1. /\ FCMap' = IncRecursionCount(fcm, f)
      /\ memssa' = 0
      /\ stack' = Append(callers, new)
  BY DEF Enter, Started
<1>2. map \in RMaps
  BY StartedType
<1>3. fcm[f] \in FunctionCopyCounts /\ fcm[f].RecCount \in Nat
  BY DEF FunctionCopyCounts
<1>4. FCMap' \in [Functions -> FunctionCopyCounts]
  <2>1. [fcm[f] EXCEPT !.RecCount = fcm[f].RecCount + 1] \in FunctionCopyCounts
    <3> DEFINE c == fcm[f]
    <3>1. c \in FunctionCopyCounts /\ c.RecCount + 1 \in Nat
      BY <1>3
    <3> HIDE DEF c
    <3>2. [c EXCEPT !.RecCount = c.RecCount + 1] \in FunctionCopyCounts
      BY <3>1 DEF FunctionCopyCounts
    <3> QED
      BY <3>2 DEF c
  <2>2. FCMap' = [fcm EXCEPT ![f] = [fcm[f] EXCEPT !.RecCount = fcm[f].RecCount + 1]]
    BY <1>1 DEF IncRecursionCount
  <2> QED
    BY <2>1, <2>2
<1>10. started \subseteq Keys
  BY DEF Keys
<1> HIDE DEF map, started
<1>5. new \in Activations
  BY <1>2, <1>3, <1>10 DEF Activations, RangeErrors
<1>6. /\ new.f = f /\ new.Args = args /\ new.GenMetadata = gen
      /\ new.OldRecCount = fcm[f].RecCount
      /\ new.RMap = map /\ new.at = "start" /\ new.rets = NoErr
  OBVIOUS
<1> HIDE DEF new
<1>7. /\ stack' \in Seq(Activations) /\ Len(stack') = Len(callers) + 1
      /\ \A d \in 1..Len(callers) : stack'[d] = callers[d]
      /\ stack'[Len(callers) + 1] = new
  BY <1>1, <1>5
<1> QED
  BY <1>1, <1>4, <1>6, <1>7 DEF map, Entered

\* FunctionCopyManager creates a well-formed entry, and only where there is none.
LEMMA PrepareType ==
  ASSUME M \in Modules, FCMap \in [Functions -> FunctionCopyCounts], NEW f \in Functions
  PROVE  /\ PrepareFunctionData(FCMap, f) \in [Functions -> FunctionCopyCounts]
         /\ \A g \in Functions : g # f => PrepareFunctionData(FCMap, f)[g] = FCMap[g]
         /\ FCMap[f].present => PrepareFunctionData(FCMap, f)[f] = FCMap[f]
         /\ ~FCMap[f].present => PrepareFunctionData(FCMap, f)[f].RecCount = 0
         /\ PrepareFunctionData(FCMap, f)[f].present
<1> DEFINE new == [present |-> TRUE,
                   copied |-> MaxUnroll > 0 /\ ~M.fn[f].empty /\ M.fn[f].loops,
                   RecCount |-> 0,
                   MaxRecCount |-> IF M.fn[f].maxrec = 0 THEN M.recur ELSE M.fn[f].maxrec]
<1>1. PrepareFunctionData(FCMap, f) = IF FCMap[f].present THEN FCMap ELSE [FCMap EXCEPT ![f] = new]
  BY DEF PrepareFunctionData
<1>2. M.recur \in Nat /\ M.fn[f].maxrec \in Nat
  BY DEF Modules, FunctionData
<1>3. new \in FunctionCopyCounts /\ new.RecCount = 0 /\ new.present
  BY <1>2 DEF FunctionCopyCounts
<1> HIDE DEF new
<1> QED
  BY <1>1, <1>3

\* setRecursionCount keeps the entries well-formed and touches one count.
LEMMA SetCountType ==
  ASSUME NEW fcm \in [Functions -> FunctionCopyCounts], NEW f \in Functions, NEW n \in Nat
  PROVE  /\ [fcm EXCEPT ![f].RecCount = n] \in [Functions -> FunctionCopyCounts]
         /\ [fcm EXCEPT ![f].RecCount = n][f].RecCount = n
         /\ [fcm EXCEPT ![f].RecCount = n][f].present = fcm[f].present
         /\ [fcm EXCEPT ![f].RecCount = n][f].MaxRecCount = fcm[f].MaxRecCount
         /\ \A g \in Functions : g # f => [fcm EXCEPT ![f].RecCount = n][g] = fcm[g]
<1> DEFINE c == fcm[f]
<1>1. /\ [c EXCEPT !.RecCount = n] \in FunctionCopyCounts
      /\ [c EXCEPT !.RecCount = n].RecCount = n
      /\ [c EXCEPT !.RecCount = n].present = c.present
      /\ [c EXCEPT !.RecCount = n].MaxRecCount = c.MaxRecCount
  <2>1. c \in FunctionCopyCounts
    OBVIOUS
  <2> HIDE DEF c
  <2> QED
    BY <2>1 DEF FunctionCopyCounts
<1>2. [fcm EXCEPT ![f].RecCount = n] = [fcm EXCEPT ![f] = [c EXCEPT !.RecCount = n]]
  OBVIOUS
<1> DEFINE new == [c EXCEPT !.RecCount = n]
<1> HIDE DEF new
<1> QED
  BY <1>1, <1>2 DEF new

\* A function of the module is entered with the global map.
LEMMA VisitFunctionStack ==
  ASSUME TypeInv, VisitFunction
  PROVE  \E f \in Functions :
           /\ f = Head(pending) /\ pending' \in Seq(Functions) /\ stack = <<>> /\ Depth = 0
           /\ FCMap' = IncRecursionCount(PrepareFunctionData(FCMap, f), f)
           /\ FCMap' \in [Functions -> FunctionCopyCounts]
           /\ memssa' = 0
           /\ stack' \in Seq(Activations) /\ Len(stack') = 1
           /\ stack'[1].f = f
           /\ stack'[1].OldRecCount = PrepareFunctionData(FCMap, f)[f].RecCount
           /\ TargetsKept(Global, stack'[1].RMap)
           /\ stack'[1].at = "start" /\ stack'[1].Args = <<>> /\ stack'[1].rets = NoErr
<1>1. M \in Modules /\ pending \in Seq(Functions) /\ Global \in RMaps
      /\ FCMap \in [Functions -> FunctionCopyCounts]
  BY DEF TypeInv, TypeOK
<1>2. stack = <<>> /\ pending # <<>> /\ pending' = Tail(pending)
  BY DEF VisitFunction, NextFunction
<1> DEFINE f == Head(pending)
           fcm == PrepareFunctionData(FCMap, f)
           none == <<>>
<1>3. f \in Functions /\ pending' \in Seq(Functions)
  BY <1>1, <1>2
<1>4. fcm \in [Functions -> FunctionCopyCounts]
  BY <1>1, <1>3, PrepareType
<1>5. PICK gen \in BOOLEAN : Enter(none, Global, GlobalRanges, f, none, gen, fcm)
  BY Zenon DEF VisitFunction
<1>6. none \in Seq(Activations) /\ none \in Seq(Keys) /\ Len(none) = 0
  OBVIOUS
<1>10. GlobalRanges \subseteq Keys
  BY ConstantsAssumption DEF GlobalRanges, Keys
<1> HIDE DEF f, fcm, none
<1>7. /\ FCMap' = IncRecursionCount(fcm, f)
      /\ FCMap' \in [Functions -> FunctionCopyCounts]
      /\ memssa' = 0
      /\ stack' \in Seq(Activations) /\ Len(stack') = 1
      /\ stack'[1].f = f
      /\ stack'[1].OldRecCount = fcm[f].RecCount
      /\ stack'[1].RMap = Started(Global, fcm, f, none)
      /\ stack'[1].at = "start" /\ stack'[1].Args = none /\ stack'[1].rets = NoErr
  <2>1. Entered(none, Global, f, none, gen, fcm)
    BY <1>1, <1>3, <1>4, <1>5, <1>6, <1>10, EnterStack
  <2>2. Len(none) + 1 = 1
    BY <1>6
  <2> QED
    BY <2>1, <2>2 DEF Entered
<1>8. TargetsKept(Global, Started(Global, fcm, f, none))
  BY <1>1, <1>3, <1>6, StartedType
<1>9. Depth = 0
  BY <1>2, <1>6 DEF Depth, none
<1> QED
  BY <1>2, <1>3, <1>7, <1>8, <1>9 DEF f, fcm, none

\* A callee is entered with the map of its caller, which waits.
LEMMA CallFunctionStack ==
  ASSUME TypeInv, CallFunction
  PROVE  \E f \in Functions :
           /\ f = Current.callee /\ ~MaxRecursionCountReached(f)
           /\ stack # <<>> /\ Top.pc <= Len(Body)
           /\ FCMap' = IncRecursionCount(PrepareFunctionData(FCMap, f), f)
           /\ FCMap' \in [Functions -> FunctionCopyCounts]
           /\ memssa' = 0
           /\ stack' \in Seq(Activations) /\ Len(stack') = Depth + 1
           /\ SameBelow(stack', Depth)
           /\ SameFrame(stack'[Depth], Top)
           /\ stack'[Depth].RMap \in RMaps /\ stack'[Depth].RMap.tg = Top.RMap.tg
           /\ stack'[Depth].at = "callee" /\ stack'[Depth].pc = Top.pc
           /\ stack'[Depth + 1].f = f
           /\ stack'[Depth + 1].OldRecCount = PrepareFunctionData(FCMap, f)[f].RecCount
           /\ TargetsKept(Top.RMap, stack'[Depth + 1].RMap)
           /\ stack'[Depth + 1].Args \in Seq(Keys) /\ ~stack'[Depth + 1].GenMetadata
           /\ stack'[Depth + 1].RMap = Started(stack'[Depth].RMap, PrepareFunctionData(FCMap, f),
                                               f, stack'[Depth + 1].Args)
           /\ stack'[Depth + 1].at = "start"
           /\ stack'[Depth].RMap = Retrieve(Top.RMap, Current.id)
           /\ stack'[Depth].rets = Top.rets /\ stack'[Depth + 1].rets = NoErr
           /\ stack'[Depth + 1].Args = Actuals(stack'[Depth].RMap, Current)
<1>1. M \in Modules /\ FCMap \in [Functions -> FunctionCopyCounts]
  BY DEF TypeInv, TypeOK
<1>2. stack # <<>> /\ Top.pc <= Len(Body)
  BY DEF CallFunction, AtInstruction, Running
<1>3. /\ Current \in Instructions /\ Top.RMap \in RMaps /\ Depth \in Nat \ {0}
      /\ Top \in Activations
  BY <1>2, TopType
<1> DEFINE f == Current.callee
           fcm == PrepareFunctionData(FCMap, f)
           rm == Retrieve(Top.RMap, Current.id)
           args == Actuals(rm, Current)
           callers == WaitInCall(rm)
<1>4. f \in Functions /\ ~MaxRecursionCountReached(f)
  BY <1>3, InstructionType DEF CallFunction, EvaluatesCallee
<1>5. rm \in RMaps /\ rm.tg = Top.RMap.tg
  BY <1>1, <1>3, InstructionType, RetrieveType
<1>6. args \in Seq(Keys)
  <2>1. Current.args \in Seq(Values)
    BY <1>3, InstructionType
  <2>2. \A k \in DOMAIN Current.args : Current.args[k] \in Keys /\ M.origin[Current.args[k]] \in Keys
    BY <1>1, <2>1 DEF Keys, Modules
  <2>3. args = [k \in 1..Len(Current.args) |->
                  IF Current.args[k] \in M.pointers /\ ~Known(rm.re[Current.args[k]])
                  THEN M.origin[Current.args[k]] ELSE Current.args[k]]
    BY <2>1 DEF Actuals
  <2>4. args \in [1..Len(Current.args) -> Keys]
    BY <2>1, <2>2, <2>3
  <2>5. Len(Current.args) \in Nat
    BY <2>1
  <2> HIDE DEF args
  <2> QED
    BY <2>4, <2>5
<1>7. fcm \in [Functions -> FunctionCopyCounts]
  BY <1>1, <1>4, PrepareType
<1>0. Described(Current) \subseteq Keys
  BY <1>3, DescribedType
<1>8. Enter(callers, rm, Described(Current), f, args, FALSE, fcm)
  BY Zenon DEF CallFunction
<1> HIDE DEF rm
<1>9. /\ callers \in Seq(Activations) /\ Len(callers) = Depth
      /\ SameBelow(callers, Depth)
      /\ SameFrame(callers[Depth], Top)
      /\ callers[Depth].RMap = rm
      /\ callers[Depth].at = "callee" /\ callers[Depth].pc = Top.pc
      /\ callers[Depth].rets = Top.rets
  BY <1>2, <1>5, WaitStack
<1> HIDE DEF f, fcm, args, callers
<1>10. /\ FCMap' = IncRecursionCount(fcm, f)
       /\ FCMap' \in [Functions -> FunctionCopyCounts]
       /\ memssa' = 0
       /\ stack' \in Seq(Activations) /\ Len(stack') = Depth + 1
       /\ \A d \in 1..Depth : stack'[d] = callers[d]
       /\ stack'[Depth + 1].f = f
       /\ stack'[Depth + 1].OldRecCount = fcm[f].RecCount
       /\ stack'[Depth + 1].Args = args /\ ~stack'[Depth + 1].GenMetadata
       /\ stack'[Depth + 1].RMap = Started(rm, fcm, f, args)
       /\ stack'[Depth + 1].at = "start" /\ stack'[Depth + 1].rets = NoErr
  <2>1. Entered(callers, rm, f, args, FALSE, fcm)
    BY <1>1, <1>4, <1>5, <1>6, <1>7, <1>8, <1>9, <1>0, EnterStack
  <2> QED
    BY <1>9, <2>1 DEF Entered
<1>11. TargetsKept(Top.RMap, Started(rm, fcm, f, args))
  <2>1. TargetsKept(rm, Started(rm, fcm, f, args))
    BY <1>1, <1>4, <1>5, <1>6, StartedType
  <2> QED
    BY <1>5, <2>1 DEF TargetsKept
<1>12. stack'[Depth] = callers[Depth] /\ SameBelow(stack', Depth)
  BY <1>3, <1>9, <1>10 DEF SameBelow
<1> QED
  BY <1>2, <1>4, <1>5, <1>6, <1>9, <1>10, <1>11, <1>12 DEF f, fcm, args, rm

\* The body is about to be evaluated, with MemorySSA as it is now.
LEMMA RestoreStack ==
  ASSUME TypeInv, RestoreMemSSA
  PROVE  /\ stack # <<>>
         /\ stack' \in Seq(Activations) /\ Len(stack') = Depth
         /\ SameBelow(stack', Depth)
         /\ SameFrame(stack'[Depth], Top)
         /\ stack'[Depth].at = "body" /\ stack'[Depth].pc = Top.pc
         /\ stack'[Depth].RMap = Top.RMap /\ stack'[Depth].rets = Top.rets
         /\ FCMap' = FCMap /\ memssa' = Depth
<1> DEFINE new == [Top EXCEPT !.at = "body"]
<1>1. /\ stack # <<>> /\ FCMap' = FCMap /\ memssa' = Depth
      /\ stack' = [stack EXCEPT ![Depth] = new]
  BY DEF RestoreMemSSA, Running
<1>2. Top \in Activations /\ Depth \in 1..Depth
  BY <1>1, TopType
<1>3. /\ new \in Activations /\ new.RMap = Top.RMap /\ new.at = "body" /\ new.pc = Top.pc
      /\ new.rets = Top.rets /\ SameFrame(new, Top)
  BY <1>2 DEF Activations, SameFrame
<1> HIDE DEF new
<1>4. stack \in Seq(Activations)
  BY DEF TypeInv, TypeOK
<1> QED
  BY <1>1, <1>2, <1>3, <1>4 DEF SameBelow, Depth

\* An instruction that evaluates no callee, and the rest of one that has.
Finishes == Instruction \/ AfterCall

LEMMA FinishesStack ==
  ASSUME TypeInv, Finishes
  PROVE  /\ stack # <<>> /\ Top.pc <= Len(Body)
         /\ stack' \in Seq(Activations) /\ Len(stack') = Depth
         /\ SameBelow(stack', Depth)
         /\ SameFrame(stack'[Depth], Top)
         /\ stack'[Depth].at = "body" /\ stack'[Depth].pc = Top.pc + 1
         /\ TargetsKept(Top.RMap, stack'[Depth].RMap)
         /\ FCMap' = FCMap
         /\ memssa' = memssa \/ memssa' = Depth
         /\ Instruction => memssa' = memssa /\ Top.at = "body"
         /\ AfterCall => memssa' = Depth
         /\ \E rm \in RMaps :
              /\ rm = Top.RMap \/ rm = Retrieve(Top.RMap, Current.id)
              /\ stack'[Depth].RMap = Compute(rm, Described(Current), Current, Self)
              /\ stack'[Depth].rets = IF Current.op = "ret" THEN Larger(Top.rets, rm.re[Current.a])
                                      ELSE Top.rets
<1>1. M \in Modules
  BY DEF TypeInv, TypeOK
<1>2. /\ FCMap' = FCMap /\ stack # <<>>
      /\ Instruction => memssa' = memssa /\ Top.at = "body"
      /\ AfterCall => memssa' = Depth
  BY DEF Finishes, Instruction, AfterCall, AtInstruction, Running
<1>3. Top.pc <= Len(Body)
  <2>1. CASE Instruction
    BY <2>1 DEF Instruction, AtInstruction
  <2>2. CASE AfterCall
    BY <1>2, <2>2, TopType DEF AfterCall, TypeInv, StackOK, Top, Body
  <2> QED
    BY <2>1, <2>2 DEF Finishes
<1>4. Current \in Instructions /\ Top.RMap \in RMaps /\ Self \in Keys /\ Current.id \in Values
  BY <1>2, <1>3, TopType, InstructionType
<1>5. PICK rm \in RMaps : /\ FinishInstruction(rm) /\ rm.tg = Top.RMap.tg
                          /\ rm = Top.RMap \/ rm = Retrieve(Top.RMap, Current.id)
  <2>1. CASE Instruction
    BY <1>1, <1>4, <2>1, RetrieveType DEF Instruction
  <2>2. CASE AfterCall
    BY <1>4, <2>2 DEF AfterCall
  <2> QED
    BY <2>1, <2>2 DEF Finishes
<1>6. /\ stack' \in Seq(Activations) /\ Len(stack') = Depth
      /\ SameBelow(stack', Depth)
      /\ SameFrame(stack'[Depth], Top)
      /\ stack'[Depth].RMap = Compute(rm, Described(Current), Current, Self)
      /\ stack'[Depth].at = "body" /\ stack'[Depth].pc = Top.pc + 1
      /\ stack'[Depth].rets = IF Current.op = "ret" THEN Larger(Top.rets, rm.re[Current.a])
                              ELSE Top.rets
  BY <1>2, <1>3, <1>5, FinishStack
<1>7. TargetsKept(Top.RMap, stack'[Depth].RMap)
  <2>1. Progress(rm, Compute(rm, Described(Current), Current, Self))
    BY <1>1, <1>4, ComputeProgress
  <2> QED
    BY <1>5, <1>6, <2>1 DEF Progress, TargetsKept
<1> QED
  BY <1>2, <1>3, <1>5, <1>6, <1>7 DEF Finishes

\* A call of a declaration only reads the call's metadata and prepares FCMap.
LEMMA CallDeclarationStack ==
  ASSUME TypeInv, CallDeclaration
  PROVE  /\ stack # <<>> /\ Top.pc <= Len(Body)
         /\ stack' \in Seq(Activations) /\ Len(stack') = Depth
         /\ SameBelow(stack', Depth)
         /\ SameFrame(stack'[Depth], Top)
         /\ stack'[Depth].at = "callee" /\ stack'[Depth].pc = Top.pc
         /\ stack'[Depth].RMap.tg = Top.RMap.tg
         /\ Current.callee \in Functions
         /\ FCMap' = PrepareFunctionData(FCMap, Current.callee)
         /\ memssa' = memssa
         /\ stack'[Depth].RMap = Retrieve(Top.RMap, Current.id)
         /\ stack'[Depth].rets = Top.rets
<1>1. M \in Modules
  BY DEF TypeInv, TypeOK
<1>2. /\ stack # <<>> /\ Top.pc <= Len(Body)
      /\ FCMap' = PrepareFunctionData(FCMap, Current.callee)
      /\ memssa' = memssa
      /\ stack' = WaitInCall(Retrieve(Top.RMap, Current.id))
      /\ Current.callee # Null
  BY DEF CallDeclaration, AtInstruction, Running, EvaluatesCallee
<1>3. Current \in Instructions /\ Top.RMap \in RMaps
  BY <1>2, TopType
<1>4. Current.callee \in Functions /\ Current.id \in Values
  BY <1>2, <1>3, InstructionType
<1> DEFINE rm == Retrieve(Top.RMap, Current.id)
<1>5. rm \in RMaps /\ rm.tg = Top.RMap.tg
  BY <1>1, <1>3, <1>4, RetrieveType
<1> HIDE DEF rm
<1>6. /\ WaitInCall(rm) \in Seq(Activations) /\ Len(WaitInCall(rm)) = Depth
      /\ SameBelow(WaitInCall(rm), Depth)
      /\ SameFrame(WaitInCall(rm)[Depth], Top)
      /\ WaitInCall(rm)[Depth].RMap = rm
      /\ WaitInCall(rm)[Depth].at = "callee"
      /\ WaitInCall(rm)[Depth].pc = Top.pc /\ WaitInCall(rm)[Depth].rets = Top.rets
  BY <1>2, <1>5, WaitStack
<1>7. stack' = WaitInCall(rm)
  BY <1>2 DEF rm
<1> QED
  BY <1>2, <1>4, <1>5, <1>6, <1>7 DEF rm

\* A callee leaves its caller, still waiting, with the merged map.
LEMMA LeaveCalleeStack ==
  ASSUME TypeInv, LeaveCallee
  PROVE  /\ stack # <<>> /\ Depth > 1
         /\ stack' \in Seq(Activations) /\ Len(stack') = Depth - 1
         /\ SameBelow(stack', Depth - 1)
         /\ SameFrame(stack'[Depth - 1], stack[Depth - 1])
         /\ stack'[Depth - 1].at = "callee"
         /\ stack'[Depth - 1].pc = stack[Depth - 1].pc
         /\ stack'[Depth - 1].rets = stack[Depth - 1].rets
         /\ stack'[Depth - 1].RMap = Merge(stack[Depth - 1].RMap)
         /\ TargetsKept(stack[Depth - 1].RMap, stack'[Depth - 1].RMap)
         /\ TargetsKept(Top.RMap, stack'[Depth - 1].RMap)
         /\ FCMap' = [FCMap EXCEPT ![Top.f].RecCount = Top.OldRecCount]
         /\ memssa' = memssa
<1>1. stack # <<>> /\ Depth > 1 /\ memssa' = memssa
      /\ FCMap' = [FCMap EXCEPT ![Top.f].RecCount = Top.OldRecCount]
  BY DEF LeaveCallee, AtEnd, Running, RestoreRecursionCount
<1>2. /\ Depth \in Nat \ {0} /\ Top \in Activations
      /\ \A d \in 1..Depth : stack[d] \in Activations /\ stack[d].RMap \in RMaps
      /\ M \in Modules /\ stack \in Seq(Activations)
  BY <1>1, TopType DEF TypeInv, TypeOK
<1> DEFINE below == stack[Depth - 1]
           rest == SubSeq(stack, 1, Depth - 1)
           new == [below EXCEPT !.RMap = Merge(below.RMap)]
<1>3. below \in Activations /\ below.RMap \in RMaps /\ below.at = "callee"
  <2>1. Depth - 1 \in 1..Depth /\ Depth - 1 < Depth
    BY <1>1, <1>2
  <2> QED
    BY <1>2, <2>1 DEF TypeInv, StackOK
<1>4. /\ rest \in Seq(Activations) /\ Len(rest) = Depth - 1
      /\ \A d \in 1..Depth - 1 : rest[d] = stack[d]
  BY <1>1, <1>2 DEF Depth
<1>5. stack' = [rest EXCEPT ![Depth - 1] = new]
  <2>1. stack' = [rest EXCEPT ![Depth - 1] =
                     [rest[Depth - 1] EXCEPT !.RMap = Merge(MapBelow(Depth))]]
    BY Zenon DEF LeaveCallee
  <2>3. MapBelow(Depth) = below.RMap
    BY <1>1, <1>2 DEF MapBelow
  <2>2. rest[Depth - 1] = below
    BY <1>1, <1>2, <1>4
  <2> QED
    BY <2>1, <2>2, <2>3
<1>6. /\ Progress(below.RMap, Merge(below.RMap)) /\ Merge(below.RMap) \in RMaps
      /\ TargetsKept(Top.RMap, Merge(below.RMap))
  <2> HIDE DEF below
  <2> QED
    BY <1>1, <1>2, <1>3, MergeProgress DEF Progress
<1>7. /\ new \in Activations /\ new.at = "callee" /\ new.pc = below.pc
      /\ new.rets = below.rets
      /\ new.RMap = Merge(below.RMap) /\ SameFrame(new, below)
  <2> HIDE DEF below
  <2> QED
    BY <1>3, <1>6 DEF Activations, SameFrame
<1>8. /\ stack' \in Seq(Activations) /\ Len(stack') = Depth - 1
      /\ stack'[Depth - 1] = new
      /\ SameBelow(stack', Depth - 1)
  <2> HIDE DEF rest, new, below
  <2> QED
    BY <1>1, <1>2, <1>4, <1>5, <1>7 DEF SameBelow
<1> QED
  BY <1>1, <1>6, <1>7, <1>8 DEF Progress

-----------------------------------------------------------------------------
(* Type correctness.                                                       *)

\* The part of TypeOK the actions leave to a few assignments.
RestTypeOK ==
  /\ M \in Modules
  /\ pending \in Seq(Functions)
  /\ Global \in RMaps
  /\ memssa \in Nat
  /\ md \in [Values -> Nat \cup {NoErr}]
  /\ cmpmd \subseteq Values
  /\ shown \in [Labels -> Nat] \cup {NotShown}

\* Attached metadata are numbers.
LEMMA AttachType ==
  ASSUME TypeOK, AttachErrorMetadata
  PROVE  md' \in [Values -> Nat \cup {NoErr}] /\ cmpmd' \subseteq Values
<1> DEFINE image == M.fn[Top.f].image
           error(v) == Top.RMap.re[image[v]]
           attached(v) == Top.GenMetadata /\ image[v] # Null /\ Known(error(v))
<1>1. md' = [v \in Values |-> IF attached(v) THEN error(v) ELSE md[v]]
  BY DEF AttachErrorMetadata
<1>2. \A v \in Values : attached(v) => error(v) \in Nat
  BY DEF Known
<1>3. md \in [Values -> Nat \cup {NoErr}] /\ cmpmd \subseteq Values
  BY DEF TypeOK
<1>4. md' \in [Values -> Nat \cup {NoErr}]
  <2> HIDE DEF attached, error
  <2> QED
    BY <1>1, <1>2, <1>3
<1>5. cmpmd' \subseteq Values
  BY <1>3, Zenon DEF AttachErrorMetadata
<1> QED
  BY <1>4, <1>5

LEMMA InitTypeInv ==
  ASSUME Init
  PROVE  TypeInv
<1>1. M \in Modules
  BY ProgramsAssumption DEF Init
<1>2. pending \in Seq(Functions)
  BY <1>1 DEF Init, Modules
<1>3. FCMap \in [Functions -> FunctionCopyCounts]
  BY DEF Init, FunctionCopyCounts, NoCopyCount
<1>4. Global \in RMaps
  <2>1. M.info \in [Values -> RangeErrors] /\ Absent \in RangeErrors /\ Globals \subseteq Values
    BY <1>1, ConstantsAssumption DEF Modules, RangeErrors
  <2>2. [v \in Keys |-> IF v \in Globals THEN M.info[v] ELSE Absent] \in [Keys -> RangeErrors]
    BY <2>1
  <2> QED
    BY <2>2 DEF Init, RMaps
<1>5. stack = <<>> /\ memssa = 0 /\ md = [v \in Values |-> NoErr] /\ cmpmd = {} /\ shown = NotShown
  BY DEF Init
<1>6. stack \in Seq(Activations) /\ Depth = 0
  BY <1>5 DEF Depth
<1>7. StackOK
  BY <1>5, <1>6 DEF StackOK
<1> QED
  BY <1>1, <1>2, <1>3, <1>4, <1>5, <1>6, <1>7 DEF TypeInv, TypeOK

\* The scalar part is kept by every step.
LEMMA RestTypeStep ==
  ASSUME TypeInv, [Next]_vars
  PROVE  RestTypeOK' /\ M' = M
<1>1. RestTypeOK /\ TypeOK
  BY DEF TypeInv, TypeOK, RestTypeOK
<1>2. CASE SkipFunction \/ VisitDeclaration
  BY <1>1, <1>2 DEF SkipFunction, VisitDeclaration, NextFunction, RestTypeOK
<1>3. CASE VisitFunction
  <2>1. pending' \in Seq(Functions) /\ memssa' = 0
    BY <1>3, VisitFunctionStack
  <2>2. UNCHANGED <<M, Global, md, cmpmd, shown>>
    BY <1>3 DEF VisitFunction
  <2> QED
    BY <1>1, <2>1, <2>2 DEF RestTypeOK
<1>4. CASE Instruction \/ AfterCall
  <2>1. Depth \in Nat /\ stack # <<>>
    BY <1>4, FinishesStack, TopType DEF Finishes
  <2>2. memssa' = memssa \/ memssa' = Depth
    BY <1>4, FinishesStack DEF Finishes
  <2>3. UNCHANGED <<M, pending, Global, md, cmpmd, shown>>
    BY <1>4 DEF Instruction, AfterCall
  <2> QED
    BY <1>1, <2>1, <2>2, <2>3 DEF RestTypeOK
<1>5. CASE CallDeclaration
  BY <1>1, <1>5 DEF CallDeclaration, RestTypeOK
<1>6. CASE CallFunction
  <2>1. memssa' = 0
    BY <1>6, CallFunctionStack
  <2>2. UNCHANGED <<M, pending, Global, md, cmpmd, shown>>
    BY <1>6 DEF CallFunction
  <2> QED
    BY <1>1, <2>1, <2>2 DEF RestTypeOK
<1>7. CASE LeaveCallee
  <2>1. AttachErrorMetadata /\ UNCHANGED <<M, pending, Global, memssa, shown>>
    BY <1>7 DEF LeaveCallee
  <2> QED
    BY <1>1, <2>1, AttachType DEF RestTypeOK
<1>8. CASE LeaveFunction
  <2>1. /\ AttachErrorMetadata /\ UNCHANGED <<M, pending, memssa, shown>>
        /\ Global' = Merge(Global) /\ stack # <<>>
    BY <1>8 DEF LeaveFunction, AtEnd, Running
  <2>2. Merge(Global) \in RMaps
    BY <1>1, <2>1, TopType, MergeProgress DEF RestTypeOK, Progress
  <2> QED
    BY <1>1, <2>1, <2>2, AttachType DEF RestTypeOK
<1>9. CASE PrintTargetErrors
  <2>1. Global.tg \in [Labels -> Nat]
    BY <1>1 DEF RestTypeOK, RMaps
  <2> QED
    BY <1>1, <1>9, <2>1 DEF PrintTargetErrors, RestTypeOK
<1>10. CASE UNCHANGED vars
  BY <1>1, <1>10 DEF vars, RestTypeOK
<1>11. CASE RestoreMemSSA
  <2>1. memssa' = Depth /\ Depth \in Nat
    BY <1>11, RestoreStack, TopType
  <2> QED
    BY <1>1, <1>11, <2>1 DEF RestoreMemSSA, RestTypeOK
<1> QED
  BY <1>2, <1>3, <1>4, <1>5, <1>6, <1>7, <1>8, <1>9, <1>10, <1>11 DEF Next

\* So are the activations and the entries of FCMap.
LEMMA StackTypeStep ==
  ASSUME TypeInv, [Next]_vars
  PROVE  /\ FCMap' \in [Functions -> FunctionCopyCounts]
         /\ stack' \in Seq(Activations)
         /\ StackOK'
<1>0. /\ FCMap \in [Functions -> FunctionCopyCounts] /\ stack \in Seq(Activations)
      /\ M \in Modules /\ pending \in Seq(Functions) /\ StackOK
      /\ Depth' = Len(stack') /\ Depth = Len(stack) /\ M' = M
  BY RestTypeStep DEF TypeInv, TypeOK, Depth
<1>1. ASSUME UNCHANGED <<stack, shown>> PROVE StackOK'
  BY <1>0, <1>1 DEF StackOK
<1>2. CASE SkipFunction \/ UNCHANGED vars
  BY <1>0, <1>1, <1>2 DEF SkipFunction, vars
<1>3. CASE VisitDeclaration
  <2>1. Head(pending) \in Functions
    BY <1>0, <1>3 DEF VisitDeclaration, NextFunction
  <2> QED
    BY <1>0, <1>1, <1>3, <2>1, PrepareType DEF VisitDeclaration
<1>4. CASE VisitFunction
  <2>1. /\ FCMap' \in [Functions -> FunctionCopyCounts]
        /\ stack' \in Seq(Activations) /\ Len(stack') = 1 /\ stack'[1].at = "start"
    BY <1>4, VisitFunctionStack
  <2>2. shown' = NotShown
    BY <1>4 DEF VisitFunction, NextFunction
  <2> QED
    BY <1>0, <2>1, <2>2 DEF StackOK
<1>5. CASE Instruction \/ AfterCall
  <2>1. /\ FCMap' = FCMap /\ stack' \in Seq(Activations) /\ Len(stack') = Depth
        /\ SameBelow(stack', Depth) /\ stack'[Depth].at = "body" /\ stack # <<>>
    BY <1>5, FinishesStack DEF Finishes
  <2>2. shown' = shown
    BY <1>5 DEF Instruction, AfterCall
  <2> QED
    BY <1>0, <2>1, <2>2 DEF StackOK, SameBelow
<1>6. CASE CallDeclaration
  <2>1. /\ stack # <<>> /\ Top.pc <= Len(Body)
        /\ stack' \in Seq(Activations) /\ Len(stack') = Depth
        /\ SameBelow(stack', Depth) /\ stack'[Depth].f = Top.f
        /\ stack'[Depth].pc = Top.pc /\ stack'[Depth].at = "callee"
        /\ Current.callee \in Functions
        /\ FCMap' = PrepareFunctionData(FCMap, Current.callee)
    BY <1>6, CallDeclarationStack DEF SameFrame
  <2>2. shown' = shown
    BY <1>6 DEF CallDeclaration
  <2>3. FCMap' \in [Functions -> FunctionCopyCounts]
    BY <1>0, <2>1, PrepareType
  <2>4. StackOK'
    BY <1>0, <2>1, <2>2 DEF StackOK, SameBelow, Body
  <2> QED
    BY <2>1, <2>3, <2>4
<1>7. CASE CallFunction
  <2>1. /\ FCMap' \in [Functions -> FunctionCopyCounts] /\ stack # <<>> /\ Top.pc <= Len(Body)
        /\ stack' \in Seq(Activations) /\ Len(stack') = Depth + 1
        /\ SameBelow(stack', Depth) /\ stack'[Depth].f = Top.f
        /\ stack'[Depth].pc = Top.pc /\ stack'[Depth].at = "callee"
        /\ stack'[Depth + 1].at = "start"
    BY <1>7, CallFunctionStack DEF SameFrame
  <2>2. shown' = shown
    BY <1>7 DEF CallFunction
  <2>3. Depth \in Nat \ {0}
    BY <2>1, TopType
  <2>4. \A d \in 1..Depth + 1 : d < Depth \/ d = Depth \/ d = Depth + 1
    BY <2>3
  <2>5. \A d \in 1..Depth + 1 : d < Depth + 1 => stack'[d].at = "callee"
    <3> TAKE d \in 1..Depth + 1
    <3>1. CASE d < Depth
      BY <1>0, <2>1, <2>3, <3>1 DEF StackOK, SameBelow
    <3>2. CASE d = Depth
      BY <2>1, <3>2
    <3>3. CASE d = Depth + 1
      BY <2>3, <3>3
    <3> QED
      BY <2>4, <3>1, <3>2, <3>3
  <2>6. \A d \in 1..Depth + 1 : stack'[d].at = "callee" => stack'[d].pc <= Len(M.fn[stack'[d].f].body)
    <3> TAKE d \in 1..Depth + 1
    <3>1. CASE d < Depth
      BY <1>0, <2>1, <2>3, <3>1 DEF StackOK, SameBelow
    <3>2. CASE d = Depth
      BY <2>1, <3>2 DEF Body
    <3>3. CASE d = Depth + 1
      BY <2>1, <3>3
    <3> QED
      BY <2>4, <3>1, <3>2, <3>3
  <2>7. Depth' = Depth + 1 /\ (stack' # <<>> => shown' = NotShown)
    BY <1>0, <2>1, <2>2 DEF StackOK
  <2>8. StackOK'
    BY <1>0, <2>5, <2>6, <2>7 DEF StackOK
  <2> QED
    BY <2>1, <2>8
<1>8. CASE LeaveCallee
  <2>1. /\ stack # <<>> /\ Depth > 1
        /\ stack' \in Seq(Activations) /\ Len(stack') = Depth - 1
        /\ SameBelow(stack', Depth - 1)
        /\ stack'[Depth - 1].f = stack[Depth - 1].f
        /\ stack'[Depth - 1].at = "callee"
        /\ stack'[Depth - 1].pc = stack[Depth - 1].pc
        /\ FCMap' = [FCMap EXCEPT ![Top.f].RecCount = Top.OldRecCount]
    BY <1>8, LeaveCalleeStack DEF SameFrame
  <2>2. shown' = shown
    BY <1>8 DEF LeaveCallee
  <2>3. Top.f \in Functions /\ Top.OldRecCount \in Nat /\ Depth \in Nat \ {0}
    BY <2>1, TopType DEF Activations
  <2>4. FCMap' \in [Functions -> FunctionCopyCounts]
    BY <1>0, <2>1, <2>3, SetCountType
  <2>5. StackOK'
    <3>1. \A d \in 1..Depth - 1 : d \in 1..Depth /\ d < Depth /\ (d < Depth - 1 \/ d = Depth - 1)
      BY <2>3
    <3> QED
      BY <1>0, <2>1, <2>2, <2>3, <3>1 DEF StackOK, SameBelow
  <2> QED
    BY <2>1, <2>4, <2>5
<1>9. CASE LeaveFunction
  <2>1. /\ stack # <<>> /\ stack' = <<>> /\ shown' = shown
        /\ FCMap' = [FCMap EXCEPT ![Top.f].RecCount = Top.OldRecCount]
    BY <1>9 DEF LeaveFunction, AtEnd, Running, RestoreRecursionCount
  <2>2. Top.f \in Functions /\ Top.OldRecCount \in Nat
    BY <2>1, TopType DEF Activations
  <2>3. FCMap' \in [Functions -> FunctionCopyCounts]
    BY <1>0, <2>1, <2>2, SetCountType
  <2>4. stack' \in Seq(Activations) /\ Len(stack') = 0
    BY <2>1
  <2> QED
    BY <1>0, <2>1, <2>3, <2>4 DEF StackOK
<1>10. CASE PrintTargetErrors
  <2>1. stack' = <<>> /\ FCMap' = [f \in Functions |-> NoCopyCount]
    BY <1>10 DEF PrintTargetErrors
  <2>2. stack' \in Seq(Activations) /\ Len(stack') = 0
    BY <2>1
  <2>3. FCMap' \in [Functions -> FunctionCopyCounts]
    BY <2>1 DEF NoCopyCount, FunctionCopyCounts
  <2> QED
    BY <1>0, <2>1, <2>2, <2>3 DEF StackOK
<1>11. CASE RestoreMemSSA
  <2>1. /\ FCMap' = FCMap /\ stack' \in Seq(Activations) /\ Len(stack') = Depth
        /\ SameBelow(stack', Depth) /\ stack'[Depth].at = "body" /\ stack # <<>>
    BY <1>11, RestoreStack
  <2>2. shown' = shown
    BY <1>11 DEF RestoreMemSSA
  <2> QED
    BY <1>0, <2>1, <2>2 DEF StackOK, SameBelow
<1> QED
  BY <1>2, <1>3, <1>4, <1>5, <1>6, <1>7, <1>8, <1>9, <1>10, <1>11 DEF Next

\* Every piece of state has its type in every reachable state: no error is
\* negative, no call leaves its function, no map loses a key (TypeOK).
THEOREM TypeCorrect == Spec => []TypeOK
<1>1. Init => TypeInv
  BY InitTypeInv
<1>2. TypeInv /\ [Next]_vars => TypeInv'
  BY RestTypeStep, StackTypeStep DEF TypeInv, TypeOK, RestTypeOK
<1>3. TypeInv => TypeOK
  BY DEF TypeInv
<1> QED
  BY <1>1, <1>2, <1>3, PTL DEF Spec

-----------------------------------------------------------------------------
(* The MemorySSA pointer.                                                  *)

\* TypeInv, which holds in every state, for the other proofs to use.
LEMMA TypeInvariant == Spec => []TypeInv
<1>1. Init => TypeInv
  BY InitTypeInv
<1>2. TypeInv /\ [Next]_vars => TypeInv'
  BY RestTypeStep, StackTypeStep DEF TypeInv, TypeOK, RestTypeOK
<1> QED
  BY <1>1, <1>2, PTL DEF Spec

\* computeFunctionErrors and prepareErrorsForCall fetch MemorySSA again at every
\* point at which LoopInfo or an evaluated callee may have replaced it (MemSSACurrent).
THEOREM MemSSAIsCurrent == Spec => []MemSSACurrent
<1>1. Init => MemSSACurrent
  BY DEF Init, MemSSACurrent, Running
<1>2. ASSUME TypeInv, TypeInv', MemSSACurrent, [Next]_vars PROVE MemSSACurrent'
  <2>1. CASE SkipFunction \/ VisitDeclaration
    BY <1>2, <2>1 DEF SkipFunction, VisitDeclaration, NextFunction, MemSSACurrent, Running
  <2>2. CASE VisitFunction
    <3>1. Len(stack') = 1 /\ stack'[1].at = "start"
      BY <1>2, <2>2, VisitFunctionStack
    <3> QED
      BY <3>1 DEF MemSSACurrent, Top, Depth
  <2>3. CASE Instruction
    <3>1. memssa' = memssa /\ Top.at = "body" /\ Len(stack') = Depth
      BY <1>2, <2>3, FinishesStack DEF Finishes
    <3>2. Running
      BY <2>3 DEF Instruction, AtInstruction
    <3> QED
      BY <1>2, <3>1, <3>2 DEF MemSSACurrent, Top, Depth
  <2>4. CASE AfterCall
    <3>1. memssa' = Depth /\ Len(stack') = Depth
      BY <1>2, <2>4, FinishesStack DEF Finishes
    <3> QED
      BY <3>1 DEF MemSSACurrent, Top, Depth
  <2>5. CASE CallDeclaration
    <3>1. Len(stack') = Depth /\ stack'[Depth].at = "callee"
      BY <1>2, <2>5, CallDeclarationStack
    <3> QED
      BY <3>1 DEF MemSSACurrent, Top, Depth
  <2>6. CASE CallFunction
    <3>1. Len(stack') = Depth + 1 /\ stack'[Depth + 1].at = "start"
      BY <1>2, <2>6, CallFunctionStack
    <3> QED
      BY <3>1 DEF MemSSACurrent, Top, Depth
  <2>7. CASE LeaveCallee
    <3>1. Len(stack') = Depth - 1 /\ stack'[Depth - 1].at = "callee"
      BY <1>2, <2>7, LeaveCalleeStack
    <3> QED
      BY <3>1 DEF MemSSACurrent, Top, Depth
  <2>8. CASE LeaveFunction \/ PrintTargetErrors
    BY <2>8 DEF LeaveFunction, PrintTargetErrors, MemSSACurrent, Running
  <2>9. CASE UNCHANGED vars
    BY <1>2, <2>9 DEF vars, MemSSACurrent, Running, Top, Depth
  <2>10. CASE RestoreMemSSA
    <3>1. memssa' = Depth /\ Len(stack') = Depth
      BY <1>2, <2>10, RestoreStack
    <3> QED
      BY <3>1 DEF MemSSACurrent, Top, Depth
  <2> QED
    BY <1>2, <2>1, <2>2, <2>3, <2>4, <2>5, <2>6, <2>7, <2>8, <2>9, <2>10 DEF Next
<1> QED
  BY <1>1, <1>2, TypeInvariant, PTL DEF Spec

-----------------------------------------------------------------------------
(* Recursion counts.                                                       *)

\* The activations of f among the first d of a stack.
Among(st, d, f) == {e \in 1..d : st[e].f = f}

\* An entry that does not exist yet counts nothing, an existing one has the
\* limit of the command line or of the function's metadata; every activation
\* remembers how many of its function there were before it.
RecInv ==
  /\ shown = NotShown =>
       \A f \in Functions :
         /\ FCMap[f].RecCount = Cardinality(Among(stack, Depth, f))
         /\ ~FCMap[f].present => FCMap[f].RecCount = 0
         /\ FCMap[f].present =>
              FCMap[f].MaxRecCount = IF M.fn[f].maxrec = 0 THEN M.recur ELSE M.fn[f].maxrec
  /\ \A d \in 1..Depth :
       stack[d].OldRecCount = Cardinality(Among(stack, d - 1, stack[d].f))

\* Finitely many, counted one by one.
LEMMA AmongCount ==
  ASSUME NEW st, NEW d \in Nat, NEW f
  PROVE  /\ Cardinality(Among(st, 0, f)) = 0
         /\ Cardinality(Among(st, d, f)) \in Nat
         /\ Cardinality(Among(st, d + 1, f)) =
              Cardinality(Among(st, d, f)) + IF st[d + 1].f = f THEN 1 ELSE 0
<1>1. IsFiniteSet(Among(st, d, f)) /\ Cardinality(Among(st, d, f)) \in Nat
  <2>1. IsFiniteSet(1..d)
    BY FS_Interval
  <2>2. IsFiniteSet(Among(st, d, f))
    BY <2>1, FS_Subset DEF Among
  <2> QED
    BY <2>2, FS_CardinalityType
<1>2. Cardinality(Among(st, 0, f)) = 0
  <2>1. Among(st, 0, f) = {}
    BY DEF Among
  <2> QED
    BY <2>1, FS_EmptySet
<1>3. d + 1 \notin Among(st, d, f)
  BY DEF Among
<1>4. 1..d + 1 = 1..d \cup {d + 1}
  OBVIOUS
<1>5. CASE st[d + 1].f = f
  <2>1. Among(st, d + 1, f) = Among(st, d, f) \cup {d + 1}
    BY <1>4, <1>5 DEF Among
  <2> QED
    BY <1>1, <1>2, <1>3, <1>5, <2>1, FS_AddElement
<1>6. CASE st[d + 1].f # f
  <2>1. Among(st, d + 1, f) = Among(st, d, f)
    BY <1>4, <1>6 DEF Among
  <2> QED
    BY <1>1, <1>2, <1>6, <2>1
<1> QED
  BY <1>5, <1>6

\* Creating an entry for a function changes no count and sets its limit.
LEMMA PrepareCount ==
  ASSUME TypeInv, RecInv, shown = NotShown, NEW f \in Functions
  PROVE  \A g \in Functions :
           /\ PrepareFunctionData(FCMap, f)[g].RecCount = FCMap[g].RecCount
           /\ ~PrepareFunctionData(FCMap, f)[g].present => FCMap[g].RecCount = 0
           /\ PrepareFunctionData(FCMap, f)[g].present =>
                PrepareFunctionData(FCMap, f)[g].MaxRecCount =
                  IF M.fn[g].maxrec = 0 THEN M.recur ELSE M.fn[g].maxrec
<1>1. M \in Modules /\ FCMap \in [Functions -> FunctionCopyCounts]
  BY DEF TypeInv, TypeOK
<1>2. ~FCMap[f].present => PrepareFunctionData(FCMap, f)[f].MaxRecCount =
                             IF M.fn[f].maxrec = 0 THEN M.recur ELSE M.fn[f].maxrec
  BY <1>1 DEF PrepareFunctionData
<1> QED
  BY <1>1, <1>2, PrepareType DEF RecInv

\* incRecursionCount adds one to one count.
LEMMA IncCount ==
  ASSUME NEW fcm \in [Functions -> FunctionCopyCounts], NEW f \in Functions
  PROVE  \A g \in Functions :
           /\ IncRecursionCount(fcm, f)[g].RecCount = fcm[g].RecCount + IF g = f THEN 1 ELSE 0
           /\ IncRecursionCount(fcm, f)[g].present = fcm[g].present
           /\ IncRecursionCount(fcm, f)[g].MaxRecCount = fcm[g].MaxRecCount
<1>1. fcm[f].RecCount \in Nat /\ \A g \in Functions : fcm[g].RecCount \in Nat
  BY DEF FunctionCopyCounts
<1>2. IncRecursionCount(fcm, f) = [fcm EXCEPT ![f].RecCount = fcm[f].RecCount + 1]
  BY DEF IncRecursionCount
<1> QED
  BY <1>1, <1>2, SetCountType

\* The counts after entering a function, with the activations it is put on.
LEMMA EnterCount ==
  ASSUME TypeInv, RecInv, shown = NotShown, NEW f \in Functions,
         FCMap' = IncRecursionCount(PrepareFunctionData(FCMap, f), f),
         FCMap' \in [Functions -> FunctionCopyCounts], Depth \in Nat,
         Len(stack') = Depth + 1,
         \A d \in 1..Depth : stack'[d].f = stack[d].f /\ stack'[d].OldRecCount = stack[d].OldRecCount,
         stack'[Depth + 1].f = f,
         stack'[Depth + 1].OldRecCount = PrepareFunctionData(FCMap, f)[f].RecCount,
         M' = M
  PROVE  RecInv'
<1> DEFINE fcm == PrepareFunctionData(FCMap, f)
<1>1. M \in Modules /\ FCMap \in [Functions -> FunctionCopyCounts]
  BY DEF TypeInv, TypeOK
<1>2. fcm \in [Functions -> FunctionCopyCounts]
  BY <1>1, PrepareType
<1>3. Depth' = Depth + 1
  BY DEF Depth
<1>4. \A d \in 0..Depth : \A g : Among(stack', d, g) = Among(stack, d, g)
  <2> TAKE d \in 0..Depth
  <2> TAKE g
  <2>1. d \in Nat /\ \A e \in 1..d : stack'[e].f = stack[e].f
    OBVIOUS
  <2> QED
    BY <2>1 DEF Among
<1>5. ASSUME NEW g \in Functions
      PROVE  FCMap'[g].RecCount = Cardinality(Among(stack', Depth + 1, g))
  <2>1. Cardinality(Among(stack', Depth + 1, g)) =
          Cardinality(Among(stack', Depth, g)) + IF f = g THEN 1 ELSE 0
    BY AmongCount
  <2>2. Among(stack', Depth, g) = Among(stack, Depth, g)
    BY <1>4
  <2>3. fcm[g].RecCount = Cardinality(Among(stack, Depth, g))
    BY PrepareCount DEF RecInv
  <2>4. FCMap'[g].RecCount = fcm[g].RecCount + IF g = f THEN 1 ELSE 0
    BY <1>2, IncCount
  <2> QED
    BY <2>1, <2>2, <2>3, <2>4
<1>6. ASSUME NEW g \in Functions
      PROVE  /\ ~FCMap'[g].present => FCMap'[g].RecCount = 0
             /\ FCMap'[g].present =>
                  FCMap'[g].MaxRecCount = IF M.fn[g].maxrec = 0 THEN M.recur ELSE M.fn[g].maxrec
  <2>1. /\ FCMap'[g].present = fcm[g].present
        /\ FCMap'[g].MaxRecCount = fcm[g].MaxRecCount
        /\ FCMap'[g].RecCount = fcm[g].RecCount + IF g = f THEN 1 ELSE 0
    BY <1>2, IncCount
  <2>2. /\ fcm[g].RecCount = FCMap[g].RecCount
        /\ ~fcm[g].present => FCMap[g].RecCount = 0
        /\ fcm[g].present =>
             fcm[g].MaxRecCount = IF M.fn[g].maxrec = 0 THEN M.recur ELSE M.fn[g].maxrec
    BY PrepareCount
  <2>3. fcm[f].present
    BY <1>1, PrepareType
  <2> QED
    BY <2>1, <2>2, <2>3
<1>7. ASSUME NEW d \in 1..Depth + 1
      PROVE  stack'[d].OldRecCount = Cardinality(Among(stack', d - 1, stack'[d].f))
  <2>1. CASE d = Depth + 1
    <3>1. fcm[f].RecCount = Cardinality(Among(stack, Depth, f))
      BY PrepareCount DEF RecInv
    <3>2. Among(stack', Depth, f) = Among(stack, Depth, f)
      BY <1>4
    <3> QED
      BY <2>1, <3>1, <3>2
  <2>2. CASE d \in 1..Depth
    <3>1. Among(stack', d - 1, stack'[d].f) = Among(stack, d - 1, stack[d].f)
      BY <1>4, <2>2
    <3> QED
      BY <2>2, <3>1 DEF RecInv
  <2> QED
    BY <2>1, <2>2
<1> QED
  BY <1>3, <1>5, <1>6, <1>7 DEF RecInv

\* The counts after leaving the activation on top.
LEMMA LeaveCount ==
  ASSUME TypeInv, RecInv, stack # <<>>, shown = NotShown,
         FCMap' = [FCMap EXCEPT ![Top.f].RecCount = Top.OldRecCount],
         Len(stack') = Depth - 1,
         \A d \in 1..Depth - 1 : stack'[d].f = stack[d].f /\ stack'[d].OldRecCount = stack[d].OldRecCount,
         M' = M
  PROVE  RecInv'
<1>1. /\ FCMap \in [Functions -> FunctionCopyCounts] /\ Depth \in Nat \ {0}
      /\ Top.f \in Functions /\ Top.OldRecCount \in Nat /\ Top = stack[Depth]
  BY TopType DEF TypeInv, TypeOK, Top, Activations
<1>2. Depth' = Depth - 1 /\ Depth - 1 \in Nat
  BY <1>1 DEF Depth
<1>3. \A d \in 0..Depth - 1 : \A g : Among(stack', d, g) = Among(stack, d, g)
  <2> TAKE d \in 0..Depth - 1
  <2> TAKE g
  <2>1. d \in Nat /\ \A e \in 1..d : stack'[e].f = stack[e].f
    BY <1>1
  <2> QED
    BY <2>1 DEF Among
<1>4. ASSUME NEW g \in Functions
      PROVE  FCMap'[g].RecCount = Cardinality(Among(stack', Depth - 1, g))
  <2>1. Among(stack', Depth - 1, g) = Among(stack, Depth - 1, g)
    BY <1>2, <1>3
  <2>2. CASE g = Top.f
    <3>1. FCMap'[g].RecCount = Top.OldRecCount
      BY <1>1, <2>2, SetCountType
    <3>2. Top.OldRecCount = Cardinality(Among(stack, Depth - 1, Top.f))
      BY <1>1 DEF RecInv
    <3> QED
      BY <2>1, <2>2, <3>1, <3>2
  <2>3. CASE g # Top.f
    <3>1. FCMap'[g] = FCMap[g]
      BY <1>1, <2>3, SetCountType
    <3>2. FCMap[g].RecCount = Cardinality(Among(stack, Depth, g))
      BY DEF RecInv
    <3>3. /\ Cardinality(Among(stack, (Depth - 1) + 1, g)) = Cardinality(Among(stack, Depth - 1, g)) +
               IF stack[(Depth - 1) + 1].f = g THEN 1 ELSE 0
          /\ Cardinality(Among(stack, Depth - 1, g)) \in Nat
      BY <1>2, AmongCount
    <3>4. (Depth - 1) + 1 = Depth
      BY <1>1
    <3> QED
      BY <1>1, <2>1, <2>3, <3>1, <3>2, <3>3, <3>4
  <2> QED
    BY <2>2, <2>3
<1>5. ASSUME NEW g \in Functions
      PROVE  /\ ~FCMap'[g].present => FCMap'[g].RecCount = 0
             /\ FCMap'[g].present =>
                  FCMap'[g].MaxRecCount = IF M.fn[g].maxrec = 0 THEN M.recur ELSE M.fn[g].maxrec
  <2>1. FCMap'[g].present = FCMap[g].present /\ FCMap'[g].MaxRecCount = FCMap[g].MaxRecCount
    BY <1>1, SetCountType
  <2>2. ~FCMap[g].present => FCMap'[g].RecCount = 0
    <3>1. Cardinality(Among(stack', Depth - 1, g)) <= Cardinality(Among(stack, Depth, g))
      <4>1. /\ Cardinality(Among(stack, (Depth - 1) + 1, g)) = Cardinality(Among(stack, Depth - 1, g)) +
                 IF stack[(Depth - 1) + 1].f = g THEN 1 ELSE 0
            /\ Cardinality(Among(stack, Depth - 1, g)) \in Nat
        BY <1>2, AmongCount
      <4>2. (Depth - 1) + 1 = Depth /\ Among(stack', Depth - 1, g) = Among(stack, Depth - 1, g)
        BY <1>1, <1>2, <1>3
      <4> QED
        BY <4>1, <4>2
    <3>2. Cardinality(Among(stack', Depth - 1, g)) \in Nat
      BY <1>2, AmongCount
    <3> QED
      BY <1>4, <3>1, <3>2 DEF RecInv
  <2> QED
    BY <2>1, <2>2 DEF RecInv
<1>6. ASSUME NEW d \in 1..Depth - 1
      PROVE  stack'[d].OldRecCount = Cardinality(Among(stack', d - 1, stack'[d].f))
  <2>0. d - 1 \in 0..Depth - 1 /\ d \in 1..Depth
    BY <1>1
  <2>1. Among(stack', d - 1, stack'[d].f) = Among(stack, d - 1, stack[d].f)
    BY <1>3, <2>0
  <2> QED
    BY <2>0, <2>1 DEF RecInv
<1> QED
  BY <1>2, <1>4, <1>5, <1>6 DEF RecInv

\* The counts stay what they are as long as no activation comes or goes.
LEMMA KeepCount ==
  ASSUME TypeInv, RecInv, Len(stack') = Depth, Depth \in Nat, M' = M, shown' = shown,
         \A d \in 1..Depth : stack'[d].f = stack[d].f /\ stack'[d].OldRecCount = stack[d].OldRecCount,
         \/ FCMap' = FCMap
         \/ shown = NotShown /\ \E f \in Functions : FCMap' = PrepareFunctionData(FCMap, f)
  PROVE  RecInv'
<1>1. Depth' = Depth
  BY DEF Depth
<1>2. \A d \in 0..Depth : \A g : Among(stack', d, g) = Among(stack, d, g)
  <2> TAKE d \in 0..Depth
  <2> TAKE g
  <2>1. d \in Nat /\ \A e \in 1..d : stack'[e].f = stack[e].f
    OBVIOUS
  <2> QED
    BY <2>1 DEF Among
<1>3. ASSUME NEW d \in 1..Depth
      PROVE  stack'[d].OldRecCount = Cardinality(Among(stack', d - 1, stack'[d].f))
  <2>1. Among(stack', d - 1, stack'[d].f) = Among(stack, d - 1, stack[d].f)
    BY <1>2
  <2> QED
    BY <2>1 DEF RecInv
<1>4. ASSUME shown = NotShown, NEW g \in Functions
      PROVE  /\ FCMap'[g].RecCount = FCMap[g].RecCount
             /\ ~FCMap'[g].present => FCMap'[g].RecCount = 0
             /\ FCMap'[g].present =>
                  FCMap'[g].MaxRecCount = IF M.fn[g].maxrec = 0 THEN M.recur ELSE M.fn[g].maxrec
  <2>1. CASE FCMap' = FCMap
    BY <1>4, <2>1 DEF RecInv
  <2>2. CASE \E f \in Functions : FCMap' = PrepareFunctionData(FCMap, f)
    BY <1>4, <2>2, PrepareCount
  <2> QED
    BY <2>1, <2>2
<1>5. Among(stack', Depth, 0) = Among(stack, Depth, 0) /\
      \A g \in Functions : Among(stack', Depth, g) = Among(stack, Depth, g)
  BY <1>2
<1> QED
  BY <1>1, <1>3, <1>4, <1>5 DEF RecInv

\* The inductive invariant behind the two theorems on recursion.
LEMMA RecInvariant == Spec => []RecInv
<1>1. Init => RecInv
  <2> SUFFICES ASSUME Init PROVE RecInv
    OBVIOUS
  <2>1. stack = <<>> /\ FCMap = [f \in Functions |-> NoCopyCount] /\ Depth = 0
    BY DEF Init, Depth
  <2>2. \A f : Cardinality(Among(stack, 0, f)) = 0
    BY AmongCount
  <2> QED
    BY <2>1, <2>2 DEF RecInv, NoCopyCount
<1>2. ASSUME TypeInv, RecInv, [Next]_vars PROVE RecInv'
  <2>0. /\ M' = M /\ stack \in Seq(Activations) /\ pending \in Seq(Functions)
        /\ Depth = Len(stack) /\ Depth \in Nat /\ (stack # <<>> => Depth \in 1..Depth)
        /\ (stack # <<>> => Top = stack[Depth] /\ shown = NotShown)
    BY <1>2, RestTypeStep DEF TypeInv, TypeOK, StackOK, Depth, Top
  <2>1. CASE SkipFunction \/ UNCHANGED vars
    BY <1>2, <2>0, <2>1, KeepCount DEF SkipFunction, vars
  <2>2. CASE VisitDeclaration
    <3>1. Head(pending) \in Functions /\ shown = NotShown
      BY <2>0, <2>2 DEF VisitDeclaration, NextFunction
    <3> QED
      BY <1>2, <2>0, <2>2, <3>1, KeepCount DEF VisitDeclaration
  <2>3. CASE VisitFunction
    <3>1. shown = NotShown
      BY <2>3 DEF VisitFunction, NextFunction
    <3>2. \E f \in Functions :
            /\ Depth = 0
            /\ FCMap' = IncRecursionCount(PrepareFunctionData(FCMap, f), f)
            /\ FCMap' \in [Functions -> FunctionCopyCounts]
            /\ Len(stack') = 1 /\ stack'[1].f = f
            /\ stack'[1].OldRecCount = PrepareFunctionData(FCMap, f)[f].RecCount
      BY <1>2, <2>3, VisitFunctionStack
    <3> QED
      BY <1>2, <2>0, <3>1, <3>2, EnterCount
  <2>4. CASE Finishes
    <3>1. /\ Len(stack') = Depth /\ SameBelow(stack', Depth) /\ SameFrame(stack'[Depth], Top)
          /\ FCMap' = FCMap /\ stack # <<>>
      BY <1>2, <2>4, FinishesStack
    <3>2. \A d \in 1..Depth : stack'[d].f = stack[d].f /\ stack'[d].OldRecCount = stack[d].OldRecCount
      BY <2>0, <3>1 DEF SameBelow, SameFrame
    <3>3. shown' = shown
      BY <2>4 DEF Finishes, Instruction, AfterCall
    <3> QED
      BY <1>2, <2>0, <3>1, <3>2, <3>3, KeepCount
  <2>5. CASE CallDeclaration
    <3>1. /\ Len(stack') = Depth /\ SameBelow(stack', Depth) /\ SameFrame(stack'[Depth], Top)
          /\ stack # <<>> /\ Current.callee \in Functions
          /\ FCMap' = PrepareFunctionData(FCMap, Current.callee)
      BY <1>2, <2>5, CallDeclarationStack
    <3>2. \A d \in 1..Depth : stack'[d].f = stack[d].f /\ stack'[d].OldRecCount = stack[d].OldRecCount
      BY <2>0, <3>1 DEF SameBelow, SameFrame
    <3>3. shown' = shown
      BY <2>5 DEF CallDeclaration
    <3> QED
      BY <1>2, <2>0, <3>1, <3>2, <3>3, KeepCount
  <2>6. CASE CallFunction
    <3>1. PICK f \in Functions :
            /\ FCMap' = IncRecursionCount(PrepareFunctionData(FCMap, f), f)
            /\ FCMap' \in [Functions -> FunctionCopyCounts]
            /\ stack # <<>>
            /\ Len(stack') = Depth + 1
            /\ SameBelow(stack', Depth) /\ SameFrame(stack'[Depth], Top)
            /\ stack'[Depth + 1].f = f
            /\ stack'[Depth + 1].OldRecCount = PrepareFunctionData(FCMap, f)[f].RecCount
      BY <1>2, <2>6, CallFunctionStack
    <3>2. \A d \in 1..Depth : stack'[d].f = stack[d].f /\ stack'[d].OldRecCount = stack[d].OldRecCount
      BY <2>0, <3>1 DEF SameBelow, SameFrame
    <3> QED
      BY <1>2, <2>0, <3>1, <3>2, EnterCount
  <2>7. CASE LeaveCallee
    <3>1. /\ stack # <<>> /\ Depth > 1 /\ Len(stack') = Depth - 1
          /\ SameBelow(stack', Depth - 1) /\ SameFrame(stack'[Depth - 1], stack[Depth - 1])
          /\ FCMap' = [FCMap EXCEPT ![Top.f].RecCount = Top.OldRecCount]
      BY <1>2, <2>7, LeaveCalleeStack
    <3>2. \A d \in 1..Depth - 1 : stack'[d].f = stack[d].f /\ stack'[d].OldRecCount = stack[d].OldRecCount
      <4>1. \A d \in 1..Depth - 1 : d < Depth - 1 \/ d = Depth - 1
        BY <2>0
      <4> QED
        BY <3>1, <4>1 DEF SameBelow, SameFrame
    <3> QED
      BY <1>2, <2>0, <3>1, <3>2, LeaveCount
  <2>8. CASE LeaveFunction
    <3>1. /\ stack # <<>> /\ Depth = 1 /\ stack' = <<>> /\ Len(stack') = 0
          /\ FCMap' = [FCMap EXCEPT ![Top.f].RecCount = Top.OldRecCount]
      BY <2>8 DEF LeaveFunction, AtEnd, Running, RestoreRecursionCount
    <3> QED
      BY <1>2, <2>0, <3>1, LeaveCount
  <2>9. CASE PrintTargetErrors
    <3>1. stack' = <<>> /\ Depth' = 0
      BY <2>9 DEF PrintTargetErrors, Depth
    <3>2. shown' # NotShown
      BY <1>2, <2>9, ConstantsAssumption DEF PrintTargetErrors, TypeInv, TypeOK, RMaps
    <3> QED
      BY <3>1, <3>2 DEF RecInv
  <2>10. CASE RestoreMemSSA
    <3>1. /\ Len(stack') = Depth /\ SameBelow(stack', Depth) /\ SameFrame(stack'[Depth], Top)
          /\ FCMap' = FCMap /\ stack # <<>>
      BY <1>2, <2>10, RestoreStack
    <3>2. \A d \in 1..Depth : stack'[d].f = stack[d].f /\ stack'[d].OldRecCount = stack[d].OldRecCount
      BY <2>0, <3>1 DEF SameBelow, SameFrame
    <3>3. shown' = shown
      BY <2>10 DEF RestoreMemSSA
    <3> QED
      BY <1>2, <2>0, <3>1, <3>2, <3>3, KeepCount
  <2> QED
    BY <1>2, <2>1, <2>2, <2>3, <2>4, <2>5, <2>6, <2>7, <2>8, <2>9, <2>10 DEF Next, Finishes
<1> QED
  BY <1>1, <1>2, TypeInvariant, PTL DEF Spec

\* What the properties count is what the invariant counts.
LEMMA ActivationsAmong ==
  ASSUME TypeInv, NEW f \in Functions
  PROVE  ActivationsOf(f) = Among(stack, Depth, f) /\ Depth \in Nat
<1>1. stack \in Seq(Activations)
  BY DEF TypeInv, TypeOK
<1> QED
  BY <1>1 DEF ActivationsOf, Among, Depth

\* The recursion count of a function is the number of its live activations,
\* whichever functions call each other in between (RecCountIsDepth).
THEOREM RecursionCounted == Spec => []RecCountIsDepth
<1>1. TypeInv /\ RecInv => RecCountIsDepth
  BY ActivationsAmong DEF RecInv, RecCountIsDepth
<1> QED
  BY <1>1, TypeInvariant, RecInvariant, PTL

\* The recursion is bounded by -recur or the function's own limit, and one
\* activation is always allowed (ActivationsBounded): with finitely many
\* functions, so is the stack.
THEOREM RecursionBounded == Spec => []ActivationsBounded
<1> DEFINE limit(f) == IF M.fn[f].maxrec = 0 THEN M.recur ELSE M.fn[f].maxrec
           Bound == \A f \in Functions : Cardinality(Among(stack, Depth, f)) <= MaxNat(1, limit(f))
<1>0. ASSUME TypeInv, NEW f \in Functions
      PROVE  limit(f) \in Nat /\ 1 <= MaxNat(1, limit(f)) /\ limit(f) <= MaxNat(1, limit(f))
             /\ MaxNat(1, limit(f)) \in Nat
  <2>1. M.recur \in Nat /\ M.fn[f].maxrec \in Nat
    BY <1>0 DEF TypeInv, TypeOK, Modules, FunctionData
  <2>2. limit(f) \in Nat
    BY <2>1
  <2> HIDE DEF limit
  <2> QED
    BY <2>2, MaxNatBound
<1>1. ASSUME TypeInv, stack = <<>> PROVE Bound
  <2>1. Depth = 0
    BY <1>1 DEF Depth
  <2>2. \A f : Cardinality(Among(stack, 0, f)) = 0
    BY AmongCount
  <2> HIDE DEF limit
  <2> QED
    BY <1>0, <1>1, <2>1, <2>2
<1>2. Init => Bound
  BY <1>1, InitTypeInv DEF Init
<1>3. ASSUME TypeInv, TypeInv', RecInv, RecInv', Bound, [Next]_vars PROVE Bound'
  <2>0. /\ M' = M /\ Depth \in Nat /\ Depth' = Len(stack')
        /\ (stack # <<>> => Depth \in 1..Depth /\ shown = NotShown)
    BY <1>3, RestTypeStep DEF TypeInv, TypeOK, StackOK, Depth
  <2>1. SUFFICES ASSUME NEW f \in Functions
                 PROVE  Cardinality(Among(stack', Depth', f)) <= MaxNat(1, limit(f))
    BY <2>0
  <2>2. limit(f) \in Nat /\ 1 <= MaxNat(1, limit(f)) /\ limit(f) <= MaxNat(1, limit(f))
        /\ MaxNat(1, limit(f)) \in Nat
    BY <1>0, <1>3
  <2>3. Cardinality(Among(stack, Depth, f)) <= MaxNat(1, limit(f))
        /\ Cardinality(Among(stack, Depth, f)) \in Nat
    BY <1>3, <2>0, AmongCount
  <2> HIDE DEF limit
  <2>4. CASE stack' = <<>>
    <3>1. Depth' = 0
      BY <2>0, <2>4
    <3>2. Cardinality(Among(stack', 0, f)) = 0
      BY AmongCount
    <3> QED
      BY <2>2, <3>1, <3>2
  <2>5. CASE /\ Depth' = Depth
             /\ \A d \in 1..Depth : stack'[d].f = stack[d].f
    <3>1. Among(stack', Depth, f) = Among(stack, Depth, f)
      BY <2>0, <2>5 DEF Among
    <3> QED
      BY <2>3, <2>5, <3>1
  <2>6. CASE VisitFunction
    <3>1. Depth' = 1
      BY <1>3, <2>0, <2>6, VisitFunctionStack
    <3>2. /\ Cardinality(Among(stack', 0, f)) = 0
          /\ Cardinality(Among(stack', 0 + 1, f)) =
               Cardinality(Among(stack', 0, f)) + IF stack'[0 + 1].f = f THEN 1 ELSE 0
      BY AmongCount
    <3> QED
      BY <2>2, <3>1, <3>2
  <2>7. CASE CallFunction
    <3>1. PICK callee \in Functions :
            /\ ~MaxRecursionCountReached(callee)
            /\ stack # <<>>
            /\ Len(stack') = Depth + 1
            /\ SameBelow(stack', Depth) /\ SameFrame(stack'[Depth], Top)
            /\ stack'[Depth + 1].f = callee
      BY <1>3, <2>7, CallFunctionStack
    <3>2. \A d \in 1..Depth : stack'[d].f = stack[d].f
      BY <2>0, <3>1 DEF SameBelow, SameFrame, Top
    <3>3. Among(stack', Depth, f) = Among(stack, Depth, f)
      BY <2>0, <3>2 DEF Among
    <3>4. Cardinality(Among(stack', Depth + 1, f)) =
            Cardinality(Among(stack', Depth, f)) + IF callee = f THEN 1 ELSE 0
      <4>1. Cardinality(Among(stack', Depth + 1, f)) =
              Cardinality(Among(stack', Depth, f)) + IF stack'[Depth + 1].f = f THEN 1 ELSE 0
        <5>1. Depth \in Nat
          BY <2>0
        <5> QED
          BY <5>1, AmongCount
      <4> QED
        BY <3>1, <4>1
    <3>5. callee = f => Cardinality(Among(stack, Depth, f)) < MaxNat(1, limit(f))
      <4> SUFFICES ASSUME callee = f PROVE Cardinality(Among(stack, Depth, f)) < MaxNat(1, limit(f))
        OBVIOUS
      <4>1. /\ FCMap[f].RecCount = Cardinality(Among(stack, Depth, f))
            /\ ~FCMap[f].present => FCMap[f].RecCount = 0
            /\ FCMap[f].present => FCMap[f].MaxRecCount = limit(f)
        BY <1>3, <2>0, <3>1 DEF RecInv, limit
      <4>2. ~FCMap[f].present \/ ~(FCMap[f].RecCount >= FCMap[f].MaxRecCount)
        BY <3>1 DEF MaxRecursionCountReached
      <4> QED
        BY <2>2, <2>3, <4>1, <4>2
    <3> QED
      BY <2>0, <2>2, <2>3, <3>1, <3>3, <3>4, <3>5
  <2>8. CASE LeaveCallee
    <3>1. /\ stack # <<>> /\ Depth > 1 /\ Len(stack') = Depth - 1
          /\ SameBelow(stack', Depth - 1) /\ SameFrame(stack'[Depth - 1], stack[Depth - 1])
      BY <1>3, <2>8, LeaveCalleeStack
    <3>2. \A d \in 1..Depth - 1 : stack'[d].f = stack[d].f
      <4>1. \A d \in 1..Depth - 1 : d < Depth - 1 \/ d = Depth - 1
        BY <2>0
      <4> QED
        BY <3>1, <4>1 DEF SameBelow, SameFrame
    <3>3. Among(stack', Depth - 1, f) = Among(stack, Depth - 1, f)
      BY <2>0, <3>1, <3>2 DEF Among
    <3>4. /\ Cardinality(Among(stack, (Depth - 1) + 1, f)) =
               Cardinality(Among(stack, Depth - 1, f)) + IF stack[(Depth - 1) + 1].f = f THEN 1 ELSE 0
          /\ Cardinality(Among(stack, Depth - 1, f)) \in Nat
      <4>1. Depth - 1 \in Nat
        BY <2>0, <3>1
      <4> QED
        BY <4>1, AmongCount
    <3>5. (Depth - 1) + 1 = Depth
      BY <2>0
    <3> QED
      BY <2>0, <2>2, <2>3, <3>1, <3>3, <3>4, <3>5
  <2>9. CASE UNCHANGED stack
    BY <2>0, <2>5, <2>9 DEF Depth
  <2>10. CASE Finishes \/ CallDeclaration \/ RestoreMemSSA
    <3>1. /\ Len(stack') = Depth /\ SameBelow(stack', Depth) /\ SameFrame(stack'[Depth], Top)
      BY <1>3, <2>10, FinishesStack, CallDeclarationStack, RestoreStack
    <3> QED
      BY <2>0, <2>5, <3>1 DEF SameBelow, SameFrame, Top
  <2>11. /\ SkipFunction \/ VisitDeclaration \/ (UNCHANGED vars) => UNCHANGED stack
         /\ LeaveFunction => stack' = <<>>
         /\ PrintTargetErrors => UNCHANGED stack
    BY DEF SkipFunction, VisitDeclaration, LeaveFunction, PrintTargetErrors, vars
  <2> QED
    BY <1>3, <2>4, <2>6, <2>7, <2>8, <2>9, <2>10, <2>11 DEF Next, Finishes
<1>4. TypeInv /\ Bound => ActivationsBounded
  BY ActivationsAmong DEF ActivationsBounded
<1> QED
  BY <1>2, <1>3, <1>4, TypeInvariant, RecInvariant, PTL DEF Spec

-----------------------------------------------------------------------------
(* Targets.                                                                *)

\* Whatever map the pass works with next, no target is lost or lowered.
LEMMA TargetsStep ==
  ASSUME TypeInv, Next, shown' = NotShown
  PROVE  TargetsKept(Innermost, Innermost') /\ Innermost'.tg \in [Labels -> Nat]
<1>0. /\ Global \in RMaps /\ stack \in Seq(Activations) /\ M \in Modules
      /\ Depth \in Nat /\ Depth = Len(stack) /\ Depth' = Len(stack')
      /\ TypeInv'
  BY RestTypeStep, StackTypeStep DEF TypeInv, TypeOK, RestTypeOK, Depth
<1>1. /\ stack = <<>> => Innermost = Global
      /\ stack # <<>> => Innermost = Top.RMap
      /\ stack' = <<>> => Innermost' = Global'
      /\ stack' # <<>> => Innermost' = stack'[Len(stack')].RMap
  BY DEF Innermost, Top, Depth
<1>2. Innermost \in RMaps
  BY <1>0, <1>1, TopType
<1>3. Innermost' \in RMaps
  <2>1. stack' \in Seq(Activations) /\ Global' \in RMaps
    BY <1>0 DEF TypeInv, TypeOK
  <2>2. stack' # <<>> => stack'[Len(stack')] \in Activations
    BY <2>1
  <2> QED
    BY <1>1, <2>1, <2>2 DEF Activations
<1>4. Innermost'.tg \in [Labels -> Nat]
  BY <1>3 DEF RMaps
<1>5. ASSUME Innermost'.tg = Innermost.tg PROVE TargetsKept(Innermost, Innermost')
  <2>1. \A l \in Labels : Innermost.tg[l] \in Nat
    BY <1>2 DEF RMaps
  <2> QED
    BY <1>5, <2>1 DEF TargetsKept
<1>6. CASE SkipFunction \/ VisitDeclaration \/ PrintTargetErrors
  <2>1. UNCHANGED <<stack, Global>>
    BY <1>6 DEF SkipFunction, VisitDeclaration, PrintTargetErrors
  <2>2. Innermost' = Innermost
    BY <2>1 DEF Innermost, Top, Depth
  <2> QED
    BY <1>4, <1>5, <2>2
<1>7. CASE VisitFunction
  <2>1. stack = <<>> /\ Len(stack') = 1 /\ TargetsKept(Global, stack'[1].RMap)
    BY <1>7, VisitFunctionStack
  <2> QED
    BY <1>1, <1>4, <2>1
<1>8. CASE Finishes
  <2>1. stack # <<>> /\ Len(stack') = Depth /\ TargetsKept(Top.RMap, stack'[Depth].RMap)
    BY <1>8, FinishesStack
  <2>2. stack' # <<>>
    BY <1>0, <2>1
  <2> QED
    BY <1>1, <1>4, <2>1, <2>2
<1>9. CASE CallDeclaration
  <2>1. stack # <<>> /\ Len(stack') = Depth /\ stack'[Depth].RMap.tg = Top.RMap.tg
    BY <1>9, CallDeclarationStack
  <2>2. stack' # <<>>
    BY <1>0, <2>1
  <2> QED
    BY <1>1, <1>4, <1>5, <2>1, <2>2
<1>10. CASE CallFunction
  <2>1. stack # <<>> /\ Len(stack') = Depth + 1 /\ TargetsKept(Top.RMap, stack'[Depth + 1].RMap)
    BY <1>10, CallFunctionStack
  <2>2. stack' # <<>>
    BY <1>0, <2>1
  <2> QED
    BY <1>1, <1>4, <2>1, <2>2
<1>11. CASE LeaveCallee
  <2>1. /\ stack # <<>> /\ Depth > 1 /\ Len(stack') = Depth - 1
        /\ TargetsKept(Top.RMap, stack'[Depth - 1].RMap)
    BY <1>11, LeaveCalleeStack
  <2>2. stack' # <<>>
    BY <1>0, <2>1
  <2> QED
    BY <1>1, <1>4, <2>1, <2>2
<1>12. CASE LeaveFunction
  <2>1. stack # <<>> /\ stack' = <<>> /\ Global' = Merge(Global)
    BY <1>12 DEF LeaveFunction, AtEnd, Running
  <2>2. TargetsKept(Top.RMap, Merge(Global))
    BY <1>0, <2>1, TopType, MergeProgress
  <2> QED
    BY <1>1, <1>4, <2>1, <2>2
<1>13. CASE RestoreMemSSA
  <2>1. stack # <<>> /\ Len(stack') = Depth /\ stack'[Depth].RMap = Top.RMap
    BY <1>13, RestoreStack
  <2>2. stack' # <<>>
    BY <1>0, <2>1
  <2> QED
    BY <1>1, <1>4, <1>5, <2>1, <2>2
<1> QED
  BY <1>6, <1>7, <1>8, <1>9, <1>10, <1>11, <1>12, <1>13 DEF Next, Finishes

\* The report is the table of the global map.
LEMMA ShownStep ==
  ASSUME TypeInv, Next, shown' # NotShown
  PROVE  shown = NotShown /\ shown' = Innermost.tg /\ Innermost' = Innermost
<1>1. PrintTargetErrors
  BY DEF Next, SkipFunction, VisitDeclaration, VisitFunction, NextFunction, RestoreMemSSA, Instruction,
         CallDeclaration, CallFunction, AfterCall, LeaveCallee, LeaveFunction,
         AtInstruction, AtEnd, Running
<1> QED
  BY <1>1 DEF PrintTargetErrors, Innermost, Top, Depth

\* However many activations copy and merge the target table, the pass behaves
\* as if there were one, which is only ever raised, and reports it at the end
\* (TargetsTracked: FunctionErrorPropagator implements TargetErrors).
THEOREM TargetsAreTracked == Spec => TargetsTracked
<1>1. Init => Tracker!Init
  BY DEF Init, Tracker!Init, Innermost
<1>2. ASSUME TypeInv, [Next]_vars
      PROVE  [Tracker!Next]_<<Innermost.tg, shown>>
  <2>1. CASE UNCHANGED vars
    BY <2>1 DEF vars, Innermost, Top, Depth
  <2>2. CASE Next /\ shown' = NotShown
    <3>1. TargetsKept(Innermost, Innermost') /\ Innermost'.tg \in [Labels -> Nat]
      BY <1>2, <2>2, TargetsStep
    <3>2. shown = NotShown
      BY <2>2 DEF Next, SkipFunction, VisitDeclaration, VisitFunction, NextFunction,
                  RestoreMemSSA, Instruction, CallDeclaration, CallFunction, AfterCall, LeaveCallee,
                  LeaveFunction, PrintTargetErrors, AtInstruction, AtEnd, Running
    <3>3. \A l \in Labels : Innermost.tg[l] \in Nat
      <4>1. Innermost \in RMaps
        BY <1>2, TopType DEF Innermost, TypeInv, TypeOK
      <4> QED
        BY <4>1 DEF RMaps
    <3> QED
      BY <2>2, <3>1, <3>2, <3>3 DEF TargetsKept, Tracker!Next, Tracker!Raise
  <2>3. CASE Next /\ shown' # NotShown
    BY <1>2, <2>3, ShownStep DEF Tracker!Next, Tracker!Show
  <2> QED
    BY <1>2, <2>1, <2>2, <2>3
<1> QED
  BY <1>1, <1>2, TypeInvariant, PTL DEF Spec, TargetsTracked, Tracker!Spec

\* Nothing a target received is missing from a table.
SeenBelow(s, tg) ==
  \A pair \in s : pair[1] \in Labels /\ pair[2] \in Nat /\ pair[2] <= tg[pair[1]]

SeenInv ==
  /\ M \in Programs
  /\ SeenBelow(seen, IF shown = NotShown THEN Innermost.tg ELSE shown)

\* A step that changes a map by an operation that accounts for its changes.
LEMMA SeenStep ==
  ASSUME TypeInv, SeenBelow(seen, Innermost.tg), NEW before \in RMaps, NEW after \in RMaps,
         ChangesCovered(before, after), TargetsKept(Innermost, after), Notice(before, after)
  PROVE  SeenBelow(seen', after.tg)
<1>1. /\ Innermost.tg \in [Labels -> Nat] /\ after.tg \in [Labels -> Nat]
      /\ M.target \in [Values -> Labels \cup {Null}]
  <2>1. Innermost \in RMaps
    BY TopType DEF Innermost, TypeInv, TypeOK
  <2> QED
    BY <2>1 DEF RMaps, TypeInv, TypeOK, Modules
<1>2. seen' = seen \cup {<<M.target[v], after.re[v]>> : v \in {w \in Values :
                M.target[w] # Null /\ Known(after.re[w]) /\ after.re[w] # before.re[w]}}
  BY DEF Notice
<1>3. ASSUME NEW pair \in seen
      PROVE  pair[1] \in Labels /\ pair[2] \in Nat /\ pair[2] <= after.tg[pair[1]]
  BY <1>1 DEF SeenBelow, TargetsKept
<1>4. ASSUME NEW v \in Values, M.target[v] # Null, Known(after.re[v]), after.re[v] # before.re[v]
      PROVE  /\ M.target[v] \in Labels /\ after.re[v] \in Nat
             /\ after.re[v] <= after.tg[M.target[v]]
  BY <1>1, <1>4 DEF ChangesCovered, Covered, Known
<1> QED
  BY <1>2, <1>3, <1>4 DEF SeenBelow

LEMMA SeenInvStep ==
  ASSUME \A P \in Programs : ComparisonsHaveNoError(P),
         TypeInv, SeenInv, [Next]_vars
  PROVE  SeenInv'
<1>0. /\ M' = M /\ M \in Modules /\ Global \in RMaps /\ stack \in Seq(Activations)
      /\ Depth = Len(stack) /\ Depth \in Nat
      /\ ComparisonsHaveNoError(M)
  BY RestTypeStep DEF TypeInv, TypeOK, Depth, SeenInv
<1>1. CASE UNCHANGED vars
  <2>1. Innermost' = Innermost /\ seen' = seen /\ shown' = shown
    BY <1>1 DEF vars, Innermost, Top, Depth
  <2> QED
    BY <1>0, <2>1 DEF SeenInv
<1>2. CASE Next /\ shown' # NotShown
  <2>1. shown = NotShown /\ shown' = Innermost.tg
    BY <1>2, ShownStep
  <2>2. seen' = seen
    BY <1>2 DEF Next, SkipFunction, VisitDeclaration, VisitFunction, NextFunction, RestoreMemSSA,
         Instruction, CallDeclaration, CallFunction, AfterCall, LeaveCallee, LeaveFunction, PrintTargetErrors,
         AtInstruction, AtEnd, Running
  <2> QED
    BY <1>0, <1>2, <2>1, <2>2 DEF SeenInv
<1>3. CASE Next /\ shown' = NotShown
  <2>1. TargetsKept(Innermost, Innermost') /\ Innermost'.tg \in [Labels -> Nat]
    BY <1>3, TargetsStep
  <2>2. shown = NotShown
    BY <1>3 DEF Next, SkipFunction, VisitDeclaration, VisitFunction, NextFunction,
                  RestoreMemSSA, Instruction, CallDeclaration, CallFunction, AfterCall, LeaveCallee,
                  LeaveFunction, PrintTargetErrors, AtInstruction, AtEnd, Running
  <2>3. SeenBelow(seen, Innermost.tg)
    BY <2>2 DEF SeenInv
  <2>4. Innermost.tg \in [Labels -> Nat]
    <3>1. Innermost \in RMaps
      BY <1>0, TopType DEF Innermost
    <3> QED
      BY <3>1 DEF RMaps
  <2>5. SUFFICES SeenBelow(seen', Innermost'.tg)
    BY <1>0, <1>3 DEF SeenInv
  <2>6. CASE seen' = seen
    BY <2>1, <2>3, <2>4, <2>6 DEF SeenBelow, TargetsKept
  <2>7. CASE Finishes
    <3>1. /\ stack # <<>> /\ Top.pc <= Len(Body) /\ Len(stack') = Depth
          /\ TargetsKept(Top.RMap, stack'[Depth].RMap)
      BY <2>7, FinishesStack
    <3>2. /\ Top.RMap \in RMaps /\ Current \in Instructions /\ Self \in Keys
          /\ Top.pc \in DOMAIN Body /\ Top.f \in Functions /\ Depth \in 1..Depth
      BY <3>1, TopType
    <3>3. PICK rm \in RMaps : /\ FinishInstruction(rm)
                              /\ Progress(Top.RMap, Compute(rm, Described(Current), Current, Self))
      <4>1. CASE Instruction
        <5>1. Current.op = "cmp" => ~Known(M.info[Current.id])
          BY <1>0, <3>2 DEF ComparisonsHaveNoError, Current, Body
        <5>2. Progress(Top.RMap, Compute(Retrieve(Top.RMap, Current.id), Described(Current), Current, Self))
          BY <1>0, <3>2, <5>1, RetrieveComputeProgress
        <5>3. Retrieve(Top.RMap, Current.id) \in RMaps
          BY <1>0, <3>2, InstructionType, RetrieveType
        <5> QED
          BY <4>1, <5>2, <5>3 DEF Instruction
      <4>2. CASE AfterCall
        BY <1>0, <3>2, <4>2, ComputeProgress DEF AfterCall
      <4> QED
        BY <2>7, <4>1, <4>2 DEF Finishes
    <3> DEFINE after == Compute(rm, Described(Current), Current, Self)
    <3>4. after = Innermost' /\ after \in RMaps
      <4>1. stack'[Depth].RMap = after
        BY <3>1, <3>3, FinishStack
      <4>2. stack' # <<>> /\ Depth' = Depth
        BY <1>0, <3>1, <3>2 DEF Depth
      <4> QED
        BY <3>3, <4>1, <4>2 DEF Innermost, Top, Progress
    <3>5. Notice(Top.RMap, after)
      BY <3>3 DEF FinishInstruction
    <3>6. Innermost = Top.RMap /\ ChangesCovered(Top.RMap, after) /\ TargetsKept(Innermost, after)
      BY <3>1, <3>3 DEF Innermost, Progress
    <3> HIDE DEF after
    <3> QED
      BY <2>3, <3>2, <3>4, <3>5, <3>6, SeenStep
  <2>8. CASE LeaveCallee
    <3>1. /\ stack # <<>> /\ Depth > 1 /\ Len(stack') = Depth - 1
          /\ stack'[Depth - 1].RMap = Merge(stack[Depth - 1].RMap)
      BY <2>8, LeaveCalleeStack
    <3> DEFINE before == stack[Depth - 1].RMap
               after == Merge(before)
    <3>2. MapBelow(Depth) = before
      BY <3>1 DEF MapBelow
    <3>3. Notice(before, after)
      BY <2>8, <3>2 DEF LeaveCallee
    <3>4. before \in RMaps /\ Top \in Activations
      BY <1>0, <3>1, TopType
    <3> HIDE DEF before
    <3>5. Progress(before, after) /\ TargetsKept(Top.RMap, after) /\ after \in RMaps
      BY <1>0, <3>1, <3>4, MergeProgress DEF Progress
    <3>6. Innermost' = after /\ Innermost = Top.RMap
      <4>1. stack' # <<>> /\ Depth' = Depth - 1
        BY <1>0, <3>1 DEF Depth
      <4> QED
        BY <3>1, <4>1 DEF Innermost, Top, before
    <3> HIDE DEF after
    <3> QED
      BY <2>3, <3>3, <3>4, <3>5, <3>6, SeenStep DEF Progress
  <2>9. CASE LeaveFunction
    <3>1. /\ stack # <<>> /\ Depth = 1 /\ stack' = <<>> /\ Global' = Merge(Global)
          /\ Notice(Global, Merge(Global))
      BY <2>9 DEF LeaveFunction, AtEnd, Running
    <3>2. /\ Progress(Global, Merge(Global)) /\ TargetsKept(Top.RMap, Merge(Global))
          /\ Merge(Global) \in RMaps
      BY <1>0, <3>1, TopType, MergeProgress DEF Progress
    <3>3. Innermost' = Merge(Global) /\ Innermost = Top.RMap
      BY <3>1 DEF Innermost
    <3> QED
      BY <1>0, <2>3, <3>1, <3>2, <3>3, SeenStep DEF Progress
  <2>10. SkipFunction \/ VisitDeclaration \/ VisitFunction \/ RestoreMemSSA \/ CallDeclaration
         \/ CallFunction \/ PrintTargetErrors => seen' = seen
    BY DEF SkipFunction, VisitDeclaration, VisitFunction, RestoreMemSSA, CallDeclaration, CallFunction,
           PrintTargetErrors
  <2> QED
    BY <1>3, <2>6, <2>7, <2>8, <2>9, <2>10 DEF Next, Finishes
<1> QED
  BY <1>1, <1>2, <1>3

\* No error a target ever received is missing from the report, nor from the map
\* of the activation at work (TargetsComplete), as long as no comparison has an
\* initial error in its metadata: that one would be read without setError.
THEOREM TargetsAreComplete ==
  ASSUME \A P \in Programs : ComparisonsHaveNoError(P)
  PROVE  Spec => []TargetsComplete
<1>1. Init => SeenInv
  BY DEF Init, SeenInv, SeenBelow
<1>2. TypeInv /\ SeenInv /\ [Next]_vars => SeenInv'
  BY SeenInvStep
<1>3. SeenInv => TargetsComplete
  BY DEF SeenInv, SeenBelow, TargetsComplete
<1> QED
  BY <1>1, <1>2, <1>3, TypeInvariant, PTL DEF Spec


-----------------------------------------------------------------------------
(* What a callee starts with.                                              *)

\* The module under analysis is one of those considered.
LEMMA ModuleFixed == Spec => [](M \in Programs)
<1>1. Init => M \in Programs
  BY DEF Init
<1>2. M \in Programs /\ [Next]_vars => (M \in Programs)'
  BY DEF Next, vars, SkipFunction, VisitDeclaration, VisitFunction, RestoreMemSSA, Instruction,
         CallDeclaration, CallFunction, AfterCall, LeaveCallee, LeaveFunction, PrintTargetErrors
<1> QED
  BY <1>1, <1>2, PTL DEF Spec

\* One argument is bound to the error of the actual, the others are left alone.
LEMMA BindArgumentIs ==
  ASSUME M \in Programs, NEW rm \in RMaps, NEW f \in Functions, NEW args \in Seq(Keys), NEW n \in 1..2
  PROVE  /\ BindArgument(rm, f, args, n) \in RMaps
         /\ \A v \in Keys :
              BindArgument(rm, f, args, n).re[v] =
                IF /\ n \in DOMAIN args /\ n \in DOMAIN M.fn[f].formals
                   /\ Known(rm.re[args[n]]) /\ v = M.fn[f].formals[n]
                THEN rm.re[args[n]] ELSE rm.re[v]
<1>1. M \in Modules
  BY ProgramsAssumption
<1>2. M.fn[f].formals \in Seq(Values)
  BY <1>1 DEF Modules, FunctionData
<1>3. n \in DOMAIN M.fn[f].formals => M.fn[f].formals[n] \in Keys
  BY <1>2 DEF Keys
<1>4. CASE /\ n \in DOMAIN args /\ n \in DOMAIN M.fn[f].formals
           /\ Known(rm.re[args[n]])
  <2> DEFINE e == rm.re[args[n]]
  <2>1. e \in Nat /\ BindArgument(rm, f, args, n) = SetError(rm, M.fn[f].formals[n], e)
    BY <1>4 DEF BindArgument, Known
  <2> HIDE DEF e
  <2>2. /\ Progress(rm, SetError(rm, M.fn[f].formals[n], e))
        /\ \A w \in Keys : SetError(rm, M.fn[f].formals[n], e).re[w] =
                             IF w = M.fn[f].formals[n] THEN e ELSE rm.re[w]
    BY <1>1, <1>3, <1>4, <2>1, SetErrorProgress
  <2> QED
    BY <1>4, <2>1, <2>2 DEF Progress, e
<1>5. CASE ~(/\ n \in DOMAIN args /\ n \in DOMAIN M.fn[f].formals
             /\ Known(rm.re[args[n]]))
  BY <1>5 DEF BindArgument
<1> QED
  BY <1>4, <1>5

\* Forgetting a function's error and reading its arguments' metadata concerns
\* the function and those of its arguments that have metadata alone.
LEMMA StartedReads ==
  ASSUME M \in Modules, NEW below \in RMaps, NEW fk \in Keys, NEW f \in Functions
  PROVE  LET read == RetrieveArguments([below EXCEPT !.re[fk] = Absent], f)
         IN  /\ read \in RMaps
             /\ \A v \in Keys :
                  /\ v # fk
                  /\ \A j \in DOMAIN M.fn[f].formals : v = M.fn[f].formals[j] => M.info[v] = Absent
                  => read.re[v] = below.re[v]
<1> DEFINE copied == [below EXCEPT !.re[fk] = Absent]
           read == RetrieveArguments(copied, f)
           formals == M.fn[f].formals
<1>1. copied \in RMaps /\ \A v \in Keys : v # fk => copied.re[v] = below.re[v]
  BY DEF RMaps, RangeErrors
<1>2. read \in RMaps /\ \A v \in Keys :
         (\A j \in DOMAIN formals : v = formals[j] => M.info[v] = Absent) => read.re[v] = copied.re[v]
  <2> HIDE DEF copied
  <2>1. M.info \in [Values -> RangeErrors]
    BY DEF Modules
  <2>2. /\ copied.re \in [Keys -> RangeErrors] /\ copied.tg \in [Labels -> Nat]
        /\ copied = [re |-> copied.re, tg |-> copied.tg]
    BY <1>1 DEF RMaps
  <2> DEFINE described == {v \in Values : \E j \in DOMAIN formals :
                                            formals[j] = v /\ M.info[v] # Absent}
             errors == [v \in Keys |-> IF v \in described THEN M.info[v] ELSE copied.re[v]]
  <2>3. read = [copied EXCEPT !.re = errors]
    BY DEF RetrieveArguments
  <2>4. errors \in [Keys -> RangeErrors]
    BY <2>1, <2>2
  <2>5. \A v \in Keys :
          (\A j \in DOMAIN formals : v = formals[j] => M.info[v] = Absent) => errors[v] = copied.re[v]
    OBVIOUS
  <2> HIDE DEF errors, read
  <2> QED
    BY <2>2, <2>3, <2>4, <2>5 DEF RMaps
<1> QED
  BY <1>1, <1>2

\* A callee has, for an argument that is not the function itself, the error of the
\* actual, unless that is a parameter that was bound before or that has metadata.
LEMMA StartedBinds ==
  ASSUME M \in Programs, NEW below \in RMaps, NEW fcm, NEW f \in Functions, NEW args \in Seq(Keys),
         NEW k \in DOMAIN args, k \in DOMAIN M.fn[f].formals, args[k] # FCopy(fcm, f),
         \A j \in DOMAIN M.fn[f].formals :
           args[k] = M.fn[f].formals[j] => j >= k /\ M.info[args[k]] = Absent,
         Known(below.re[args[k]])
  PROVE  Started(below, fcm, f, args).re[M.fn[f].formals[k]] = below.re[args[k]]
<1> DEFINE fk == FCopy(fcm, f)
           read == RetrieveArguments([below EXCEPT !.re[fk] = Absent], f)
           first == BindArgument(read, f, args, 1)
           second == BindArgument(first, f, args, MaxArity)
           formals == M.fn[f].formals
<1>1. /\ M \in Modules /\ formals \in Seq(Values) /\ Len(formals) <= 2
      /\ \A i, j \in DOMAIN formals : formals[i] = formals[j] => i = j
  BY ProgramsAssumption DEF Modules, FunctionData, IsInjective, MaxArity
<1>2. /\ DOMAIN formals = 1..Len(formals) /\ k \in 1..2
      /\ \A j \in DOMAIN formals : formals[j] \in Values /\ formals[j] \in Keys
      /\ args[k] \in Keys
  BY <1>1 DEF Keys
<1>3. read \in RMaps /\ read.re[args[k]] = below.re[args[k]]
  <2>1. fk \in Keys /\ args[k] # fk
    BY FCopyType
  <2> HIDE DEF fk
  <2>2. read \in RMaps /\ \A v \in Keys :
          v # fk /\ (\A j \in DOMAIN formals : v = formals[j] => M.info[v] = Absent)
            => read.re[v] = below.re[v]
    BY <1>1, <2>1, StartedReads
  <2> HIDE DEF read
  <2> QED
    BY <1>2, <2>1, <2>2
<1> HIDE DEF read, fk
<1>4. /\ first \in RMaps
      /\ \A v \in Keys :
           first.re[v] = IF /\ 1 \in DOMAIN args /\ 1 \in DOMAIN formals
                            /\ Known(read.re[args[1]]) /\ v = formals[1]
                         THEN read.re[args[1]] ELSE read.re[v]
  BY <1>3, BindArgumentIs
<1> HIDE DEF first
<1>5. \A v \in Keys :
         second.re[v] = IF /\ 2 \in DOMAIN args /\ 2 \in DOMAIN formals
                           /\ Known(first.re[args[2]]) /\ v = formals[2]
                        THEN first.re[args[2]] ELSE first.re[v]
  <2>1. 2 \in 1..2 /\ second = BindArgument(first, f, args, 2)
    BY DEF MaxArity
  <2>2. \A v \in Keys :
          BindArgument(first, f, args, 2).re[v] =
            IF /\ 2 \in DOMAIN args /\ 2 \in DOMAIN M.fn[f].formals
               /\ Known(first.re[args[2]]) /\ v = M.fn[f].formals[2]
            THEN first.re[args[2]] ELSE first.re[v]
    BY <1>4, <2>1, BindArgumentIs
  <2> QED
    BY <2>1, <2>2
<1> HIDE DEF second
<1>6. formals[k] \in Keys
  BY <1>2
<1>7. CASE k = 1
  <2>1. first.re[formals[1]] = below.re[args[1]]
    BY <1>3, <1>4, <1>6, <1>7
  <2>2. 2 \in DOMAIN formals => formals[2] # formals[1]
    BY <1>1, <1>7
  <2> QED
    BY <1>5, <1>6, <1>7, <2>1, <2>2 DEF Started, ApplyArgumentErrors, second, first, read, fk
<1>8. CASE k = 2
  <2>1. 2 \in DOMAIN formals /\ (1 \in DOMAIN formals => args[k] # formals[1])
    BY <1>8
  <2> HIDE DEF formals
  <2>2. first.re[args[k]] = below.re[args[k]]
    BY <1>2, <1>3, <1>4, <2>1
  <2>3. second.re[formals[k]] = below.re[args[k]]
    BY <1>5, <1>6, <1>8, <2>1, <2>2
  <2> QED
    BY <2>3 DEF Started, ApplyArgumentErrors, second, first, read, fk, formals
<1> QED
  BY <1>2, <1>7, <1>8

\* The other entries are those of the caller, without the function's own.
LEMMA StartedKeeps ==
  ASSUME M \in Programs, NEW below \in RMaps, NEW fcm, NEW f \in Functions, NEW args \in Seq(Keys),
         NEW v \in Keys, v # FCopy(fcm, f), \A m \in DOMAIN M.fn[f].formals : v # M.fn[f].formals[m]
  PROVE  Started(below, fcm, f, args).re[v] = below.re[v]
<1> DEFINE fk == FCopy(fcm, f)
           read == RetrieveArguments([below EXCEPT !.re[fk] = Absent], f)
           first == BindArgument(read, f, args, 1)
           second == BindArgument(first, f, args, MaxArity)
<1>1. M \in Modules
  BY ProgramsAssumption
<1>2. read \in RMaps /\ read.re[v] = below.re[v]
  <2>1. fk \in Keys /\ v # fk
    BY FCopyType
  <2> HIDE DEF fk
  <2> QED
    BY <1>1, <2>1, StartedReads
<1> HIDE DEF read, fk
<1>3. first \in RMaps /\ first.re[v] = read.re[v]
  BY <1>2, BindArgumentIs
<1> HIDE DEF first
<1>4. second.re[v] = first.re[v]
  <2>1. 2 \in 1..2 /\ second = BindArgument(first, f, args, 2)
    BY DEF MaxArity
  <2>2. BindArgument(first, f, args, 2).re[v] =
          IF /\ 2 \in DOMAIN args /\ 2 \in DOMAIN M.fn[f].formals
             /\ Known(first.re[args[2]]) /\ v = M.fn[f].formals[2]
          THEN first.re[args[2]] ELSE first.re[v]
    BY <1>3, <2>1, BindArgumentIs
  <2> QED
    BY <2>1, <2>2
<1> QED
  BY <1>2, <1>3, <1>4 DEF Started, ApplyArgumentErrors, second, first, read, fk

\* A function that has just been entered has, for its parameters, the errors its
\* caller knows for the arguments, as long as nothing that comes before an argument
\* has replaced it (ArgumentsBound).
THEOREM ArgumentsAreBound == Spec => []ArgumentsBound
<1>1. Init => ArgumentsBound
  BY DEF Init, ArgumentsBound, Running
<1>2. ASSUME TypeInv, TypeInv', M \in Programs, (M \in Programs)', ArgumentsBound, [Next]_vars
      PROVE  ArgumentsBound'
  <2>1. CASE SkipFunction \/ VisitDeclaration
    BY <2>1 DEF SkipFunction, VisitDeclaration, NextFunction, ArgumentsBound, Running
  <2>2. CASE VisitFunction
    <3>1. Len(stack') = 1
      BY <1>2, <2>2, VisitFunctionStack
    <3> QED
      BY <3>1 DEF ArgumentsBound, Depth
  <2>3. CASE Finishes
    <3>1. Len(stack') = Depth /\ stack'[Depth].at = "body"
      BY <1>2, <2>3, FinishesStack
    <3> QED
      BY <3>1 DEF ArgumentsBound, Top, Depth
  <2>4. CASE CallDeclaration
    <3>1. Len(stack') = Depth /\ stack'[Depth].at = "callee"
      BY <1>2, <2>4, CallDeclarationStack
    <3> QED
      BY <3>1 DEF ArgumentsBound, Top, Depth
  <2>5. CASE CallFunction
    <3> DEFINE new == stack'[Depth + 1]
               below == stack'[Depth].RMap
    <3>1. PICK f \in Functions :
            /\ FCMap' = IncRecursionCount(PrepareFunctionData(FCMap, f), f)
            /\ stack # <<>> /\ Len(stack') = Depth + 1
            /\ below \in RMaps
            /\ new.f = f /\ new.Args \in Seq(Keys)
            /\ new.RMap = Started(below, PrepareFunctionData(FCMap, f), f, new.Args)
      BY <1>2, <2>5, CallFunctionStack
    <3>2. M' = M /\ Depth \in Nat \ {0}
      BY <1>2, <2>5, <3>1, TopType DEF CallFunction
    <3>3. Depth' = Depth + 1 /\ Top' = new /\ MapBelow(Depth)' = below
      BY <3>1, <3>2 DEF Depth, Top, MapBelow
    <3>4. FCopy(FCMap, f)' = FCopy(PrepareFunctionData(FCMap, f), f)
      <4>1. PrepareFunctionData(FCMap, f) \in [Functions -> FunctionCopyCounts]
        BY <1>2, PrepareType DEF TypeInv, TypeOK
      <4> DEFINE fcm == PrepareFunctionData(FCMap, f)
      <4> HIDE DEF fcm
      <4>2. fcm[f] \in FunctionCopyCounts /\ f \in DOMAIN fcm
        BY <4>1 DEF fcm
      <4>3. IncRecursionCount(fcm, f)[f].copied = fcm[f].copied
        BY <4>2 DEF IncRecursionCount, FunctionCopyCounts
      <4>4. FCMap'[f].copied = fcm[f].copied
        BY <3>1, <4>3 DEF fcm
      <4> QED
        BY <4>4 DEF FCopy, fcm
    <3> HIDE DEF new, below
    <3>5. SUFFICES ASSUME NEW k \in DOMAIN new.Args,
                          k \in DOMAIN M.fn[f].formals, new.Args[k] \notin Replaced(f, k)',
                          Known(below.re[new.Args[k]])
                   PROVE  new.RMap.re[M.fn[f].formals[k]] = below.re[new.Args[k]]
      BY <3>1, <3>2, <3>3 DEF ArgumentsBound
    <3>6. /\ new.Args[k] # FCopy(PrepareFunctionData(FCMap, f), f)
          /\ \A j \in DOMAIN M.fn[f].formals :
               new.Args[k] = M.fn[f].formals[j] => j >= k /\ M.info[new.Args[k]] = Absent
      <4> DEFINE formals == M.fn[f].formals
      <4>1. /\ new.Args[k] # FCopy(FCMap, f)'
            /\ \A j \in {n \in DOMAIN formals : n < k \/ M.info[formals[n]] # Absent} :
                 new.Args[k] # formals[j]
        BY <3>2, <3>5 DEF Replaced
      <4>2. DOMAIN formals \subseteq Nat
        <5>1. formals \in Seq(Values)
          BY <1>2, <3>1, ProgramsAssumption DEF Modules, FunctionData
        <5> HIDE DEF formals
        <5> QED
          BY <5>1
      <4> QED
        BY <3>4, <3>5, <4>1, <4>2
    <3> QED
      BY <1>2, <3>1, <3>5, <3>6, StartedBinds
  <2>6. CASE LeaveCallee
    <3>1. Len(stack') = Depth - 1 /\ stack'[Depth - 1].at = "callee"
      BY <1>2, <2>6, LeaveCalleeStack
    <3> QED
      BY <3>1 DEF ArgumentsBound, Top, Depth
  <2>7. CASE LeaveFunction \/ PrintTargetErrors
    BY <2>7 DEF LeaveFunction, PrintTargetErrors, ArgumentsBound, Running
  <2>8. CASE UNCHANGED vars
    BY <1>2, <2>8 DEF vars, ArgumentsBound, Replaced, FCopy, Running, Top, Depth, MapBelow
  <2>9. CASE RestoreMemSSA
    <3>1. Len(stack') = Depth /\ stack'[Depth].at = "body"
      BY <1>2, <2>9, RestoreStack
    <3> QED
      BY <3>1 DEF ArgumentsBound, Top, Depth
  <2> QED
    BY <1>2, <2>1, <2>2, <2>3, <2>4, <2>5, <2>6, <2>7, <2>8, <2>9 DEF Next, Finishes
<1> QED
  BY <1>1, <1>2, TypeInvariant, ModuleFixed, PTL DEF Spec

-----------------------------------------------------------------------------
(* Metadata.                                                               *)

\* Only functions that the driver does not pass over generate metadata.
MetaInv ==
  /\ \A d \in 1..Depth : stack[d].GenMetadata => ~Skipped(stack[d].f)
  /\ MetadataOnlyFromStartingPoints

\* attachErrorMetadata adds nothing for an activation that may not.
LEMMA AttachStep ==
  ASSUME TypeInv, MetaInv, stack # <<>>, M' = M, AttachErrorMetadata
  PROVE  MetadataOnlyFromStartingPoints'
<1>1. /\ Top.f \in Functions /\ (Top.GenMetadata => ~Skipped(Top.f))
      /\ Top.CmpWrong \subseteq Values /\ md \in [Values -> Nat \cup {NoErr}]
  <2>1. Top \in Activations /\ Depth \in 1..Depth
    BY TopType
  <2> QED
    BY <2>1 DEF MetaInv, Top, Activations, TypeInv, TypeOK
<1> SUFFICES ASSUME NEW v \in Values, md'[v] # NoErr \/ v \in cmpmd'
             PROVE  \E f \in Functions : M.fn[f].image[v] # Null /\ ~Skipped(f)
  BY DEF MetadataOnlyFromStartingPoints, Skipped
<1> DEFINE image == M.fn[Top.f].image
<1>2. CASE md[v] # NoErr \/ v \in cmpmd
  BY <1>2 DEF MetaInv, MetadataOnlyFromStartingPoints
<1>3. CASE md[v] = NoErr /\ v \notin cmpmd
  <2>1. Top.GenMetadata /\ (image[v] # Null \/ image[v] \in Top.CmpWrong)
    BY <1>1, <1>3, Zenon DEF AttachErrorMetadata
  <2>2. image[v] # Null
    BY <1>1, <2>1, ConstantsAssumption
  <2> QED
    BY <1>1, <2>1, <2>2
<1> QED
  BY <1>2, <1>3

\* With -startonly only instructions of starting points get metadata, although
\* other functions are evaluated on the way (MetadataOnlyFromStartingPoints).
THEOREM OnlyStartingPoints == Spec => []MetadataOnlyFromStartingPoints
<1>1. Init => MetaInv
  <2> SUFFICES ASSUME Init PROVE MetaInv
    OBVIOUS
  <2>1. Depth = 0
    BY DEF Init, Depth
  <2> QED
    BY <2>1 DEF Init, MetaInv, MetadataOnlyFromStartingPoints
<1>2. ASSUME TypeInv, TypeInv', MetaInv, [Next]_vars PROVE MetaInv'
  <2>0. M' = M /\ Depth \in Nat
    <3>1. M' = M
      BY <1>2 DEF Next, vars, SkipFunction, VisitDeclaration, VisitFunction, RestoreMemSSA, Instruction,
           CallDeclaration, CallFunction, AfterCall, LeaveCallee, LeaveFunction, PrintTargetErrors
    <3>2. Depth \in Nat
      BY <1>2 DEF TypeInv, TypeOK, Depth
    <3> QED
      BY <3>1, <3>2
  <2>1. ASSUME md' = md, cmpmd' = cmpmd PROVE MetadataOnlyFromStartingPoints'
    BY <1>2, <2>0, <2>1 DEF MetaInv, MetadataOnlyFromStartingPoints, Skipped
  <2>2. CASE SkipFunction \/ VisitDeclaration \/ PrintTargetErrors \/ UNCHANGED vars
    <3>1. stack' = stack /\ md' = md /\ cmpmd' = cmpmd
      BY <2>2 DEF SkipFunction, VisitDeclaration, PrintTargetErrors, vars
    <3> QED
      BY <1>2, <2>0, <2>1, <3>1 DEF MetaInv, Depth, Skipped
  <2>3. CASE VisitFunction
    <3>1. /\ Len(stack') = 1 /\ stack'[1].f = Head(pending) /\ ~Skipped(Head(pending))
          /\ md' = md /\ cmpmd' = cmpmd
      BY <1>2, <2>3, VisitFunctionStack DEF VisitFunction
    <3> QED
      BY <2>0, <2>1, <3>1 DEF MetaInv, Depth, Skipped
  <2>4. CASE Finishes
    <3>1. /\ Len(stack') = Depth /\ SameBelow(stack', Depth) /\ SameFrame(stack'[Depth], Top)
          /\ md' = md /\ cmpmd' = cmpmd
      BY <1>2, <2>4, FinishesStack DEF Finishes, Instruction, AfterCall
    <3> QED
      BY <1>2, <2>0, <2>1, <3>1 DEF MetaInv, Depth, Skipped, SameBelow, SameFrame, Top
  <2>5. CASE CallDeclaration
    <3>1. /\ Len(stack') = Depth /\ SameBelow(stack', Depth) /\ SameFrame(stack'[Depth], Top)
          /\ md' = md /\ cmpmd' = cmpmd
      BY <1>2, <2>5, CallDeclarationStack DEF CallDeclaration
    <3> QED
      BY <1>2, <2>0, <2>1, <3>1 DEF MetaInv, Depth, Skipped, SameBelow, SameFrame, Top
  <2>6. CASE CallFunction
    <3>1. /\ Len(stack') = Depth + 1 /\ SameBelow(stack', Depth) /\ SameFrame(stack'[Depth], Top)
          /\ ~stack'[Depth + 1].GenMetadata
          /\ md' = md /\ cmpmd' = cmpmd
      BY <1>2, <2>6, CallFunctionStack DEF CallFunction
    <3> QED
      BY <1>2, <2>0, <2>1, <3>1 DEF MetaInv, Depth, Skipped, SameBelow, SameFrame, Top
  <2>7. CASE LeaveCallee
    <3>1. /\ Len(stack') = Depth - 1 /\ SameBelow(stack', Depth - 1) /\ stack # <<>>
          /\ SameFrame(stack'[Depth - 1], stack[Depth - 1])
      BY <1>2, <2>7, LeaveCalleeStack
    <3>2. MetadataOnlyFromStartingPoints'
      BY <1>2, <2>0, <2>7, <3>1, AttachStep DEF LeaveCallee
    <3> QED
      BY <1>2, <2>0, <3>1, <3>2 DEF MetaInv, Depth, Skipped, SameBelow, SameFrame
  <2>8. CASE LeaveFunction
    <3>1. stack' = <<>> /\ stack # <<>> /\ AttachErrorMetadata
      BY <2>8 DEF LeaveFunction, AtEnd, Running
    <3>2. MetadataOnlyFromStartingPoints'
      BY <1>2, <2>0, <3>1, AttachStep
    <3>3. Depth' = 0
      BY <3>1 DEF Depth
    <3> QED
      BY <3>2, <3>3 DEF MetaInv
  <2>9. CASE RestoreMemSSA
    <3>1. /\ Len(stack') = Depth /\ SameBelow(stack', Depth) /\ SameFrame(stack'[Depth], Top)
          /\ md' = md /\ cmpmd' = cmpmd
      BY <1>2, <2>9, RestoreStack DEF RestoreMemSSA
    <3> QED
      BY <1>2, <2>0, <2>1, <3>1 DEF MetaInv, Depth, Skipped, SameBelow, SameFrame, Top
  <2> QED
    BY <1>2, <2>2, <2>3, <2>4, <2>5, <2>6, <2>7, <2>8, <2>9 DEF Next, Finishes
<1>3. MetaInv => MetadataOnlyFromStartingPoints
  BY DEF MetaInv
<1> QED
  BY <1>1, <1>2, <1>3, TypeInvariant, PTL DEF Spec

-----------------------------------------------------------------------------
(* What a caller learns of its pointer arguments.                          *)

\* The activation on top has computed an error for its k-th parameter, a pointer,
\* that is written back.
Written(k) ==
  /\ k \in DOMAIN Top.Args /\ k \in DOMAIN M.fn[Top.f].formals
  /\ Top.Args[k] # Null
  /\ M.fn[Top.f].formals[k] \in M.pointers
  /\ Known(Top.RMap.re[M.fn[Top.f].formals[k]])

\* One pointer argument is written back, the other entries stay.
LEMMA WriteBackIs ==
  ASSUME M \in Modules, NEW rm \in RMaps, stack # <<>>, Top \in Activations, NEW n \in 1..2
  PROVE  /\ WriteBackArgument(rm, Top, n) \in RMaps
         /\ \A v \in Keys :
              WriteBackArgument(rm, Top, n).re[v] =
                IF Written(n) /\ v = Top.Args[n]
                THEN Top.RMap.re[M.fn[Top.f].formals[n]] ELSE rm.re[v]
<1> DEFINE e == Top.RMap.re[M.fn[Top.f].formals[n]]
<1>1. n \in DOMAIN Top.Args => Top.Args[n] \in Keys
  BY DEF Activations
<1>2. CASE Written(n)
  <2>1. WriteBackArgument(rm, Top, n) = SetError(rm, Top.Args[n], e)
    BY <1>2 DEF WriteBackArgument, Written
  <2>2. e \in Nat /\ Top.Args[n] \in Keys
    BY <1>1, <1>2 DEF Written, Known
  <2> HIDE DEF e
  <2>3. /\ Progress(rm, SetError(rm, Top.Args[n], e))
        /\ \A v \in Keys : SetError(rm, Top.Args[n], e).re[v] = IF v = Top.Args[n] THEN e ELSE rm.re[v]
    BY <2>2, SetErrorProgress
  <2> QED
    BY <1>2, <2>1, <2>3 DEF Progress, e
<1>3. CASE ~Written(n)
  BY <1>3 DEF WriteBackArgument, Written
<1> QED
  BY <1>2, <1>3

\* What is merged after the arguments concerns globals, targets and the callee.
LEMMA MergeIs ==
  ASSUME M \in Modules, NEW rm \in RMaps, stack # <<>>, Top \in Activations,
         NEW v \in Keys, v # Top.f
  PROVE  Merge(rm).re[v] = IF v \in Globals /\ Known(Top.RMap.re[v]) THEN Top.RMap.re[v]
                           ELSE ApplyActualParametersErrors(rm, Top).re[v]
<1> DEFINE actuals == ApplyActualParametersErrors(rm, Top)
           globals == CopyGlobals(actuals, Top.RMap)
           targets == UpdateTargets(globals, Top.RMap)
<1>1. actuals \in RMaps
  BY WriteBackProgress DEF Progress
<1>2. Top.RMap \in RMaps /\ Top.f \in Keys
  BY ConstantsAssumption DEF Activations, Keys
<1> HIDE DEF actuals
<1>3. /\ globals \in RMaps
      /\ globals.re[v] = IF v \in Globals /\ Known(Top.RMap.re[v]) THEN Top.RMap.re[v]
                         ELSE actuals.re[v]
  <2>1. globals \in RMaps
    BY <1>1, <1>2, CopyGlobalsProgress DEF Progress
  <2>2. globals.re[v] = IF v \in Globals /\ Known(Top.RMap.re[v]) THEN Top.RMap.re[v]
                        ELSE actuals.re[v]
    BY DEF CopyGlobals
  <2> QED
    BY <2>1, <2>2
<1> HIDE DEF globals
<1>4. targets \in RMaps /\ targets.re[v] = globals.re[v]
  <2>1. targets \in RMaps
    BY <1>2, <1>3, UpdateTargetsProgress DEF Progress
  <2>2. targets.re = globals.re
    BY <1>3 DEF UpdateTargets, RMaps
  <2> QED
    BY <2>1, <2>2
<1> HIDE DEF targets
<1>5. ReturnError(targets, Top, Self).re[v] = targets.re[v]
  BY <1>2, <1>4 DEF ReturnError, SetError, RMaps
<1> QED
  BY <1>3, <1>4, <1>5 DEF Merge, targets, globals, actuals

\* What an activation hands to the one it waits for, and that it still would.
Handed(t) == Actuals(t.RMap, M.fn[t.f].body[t.pc])
ArgsInv == \A d \in 2..Depth : stack[d].Args = Handed(stack[d - 1])

LEMMA ArgsInvStep ==
  ASSUME TypeInv, ArgsInv, [Next]_vars
  PROVE  ArgsInv'
<1>0. Depth \in Nat
  BY DEF TypeInv, TypeOK, Depth
<1>1. M' = M
  BY DEF Next, vars, SkipFunction, VisitDeclaration, VisitFunction, RestoreMemSSA, Instruction,
         CallDeclaration, CallFunction, AfterCall, LeaveCallee, LeaveFunction, PrintTargetErrors
<1>2. ASSUME \A d \in 2..Len(stack') : stack'[d].Args = Handed(stack'[d - 1]) PROVE ArgsInv'
  BY <1>1, <1>2 DEF ArgsInv, Depth, Handed, Actuals
<1>3. CASE Len(stack') \in {0, 1}
  <2>1. \A d \in 2..Len(stack') : FALSE
    <3>1. CASE Len(stack') = 0
      BY <3>1
    <3>2. CASE Len(stack') = 1
      BY <3>2
    <3> QED
      BY <1>3, <3>1, <3>2
  <2> QED
    BY <1>2, <2>1
<1>4. ASSUME NEW n \in 1..Depth, SameBelow(stack', n), SameFrame(stack'[n], stack[n])
      PROVE  \A d \in 2..n : stack'[d].Args = Handed(stack'[d - 1])
  <2> SUFFICES ASSUME NEW d \in 2..n PROVE stack'[d].Args = Handed(stack'[d - 1])
    OBVIOUS
  <2>1. /\ d \in 2..Depth /\ d \in 1..n /\ d - 1 \in 1..n /\ d - 1 < n
        /\ d < n \/ d = n
    BY <1>0
  <2>2. stack'[d - 1] = stack[d - 1]
    BY <1>4, <2>1 DEF SameBelow
  <2>3. stack'[d].Args = stack[d].Args
    BY <1>4, <2>1 DEF SameBelow, SameFrame
  <2> QED
    BY <2>1, <2>2, <2>3 DEF ArgsInv
<1>5. CASE SkipFunction \/ UNCHANGED vars
  <2>1. stack' = stack
    BY <1>5 DEF SkipFunction, vars
  <2> QED
    BY <1>2, <2>1 DEF ArgsInv, Depth
<1>6. CASE VisitDeclaration \/ PrintTargetErrors \/ LeaveFunction
  <2>1. Len(stack') = 0
    BY <1>6 DEF VisitDeclaration, NextFunction, PrintTargetErrors, LeaveFunction
  <2> QED
    BY <1>3, <2>1
<1>7. CASE VisitFunction
  BY <1>3, <1>7, VisitFunctionStack
<1>8. CASE Finishes \/ CallDeclaration \/ RestoreMemSSA
  <2>1. /\ stack # <<>> /\ Len(stack') = Depth
        /\ SameBelow(stack', Depth) /\ SameFrame(stack'[Depth], Top)
    BY <1>8, FinishesStack, CallDeclarationStack, RestoreStack
  <2>2. Depth \in 1..Depth /\ Top = stack[Depth]
    BY <2>1, TopType DEF Top
  <2> QED
    BY <1>2, <1>4, <2>1, <2>2
<1>9. CASE CallFunction
  <2>1. /\ stack # <<>> /\ Len(stack') = Depth + 1
        /\ SameBelow(stack', Depth) /\ SameFrame(stack'[Depth], Top)
        /\ stack'[Depth].pc = Top.pc
        /\ stack'[Depth + 1].Args = Actuals(stack'[Depth].RMap, Current)
    BY <1>9, CallFunctionStack
  <2>2. Depth \in 1..Depth /\ Top = stack[Depth]
    BY <2>1, TopType DEF Top
  <2>3. \A d \in 2..Depth : stack'[d].Args = Handed(stack'[d - 1])
    BY <1>4, <2>1, <2>2
  <2>4. stack'[Depth + 1].Args = Handed(stack'[Depth])
    BY <2>1 DEF Handed, Current, Body, SameFrame
  <2>5. ASSUME NEW d \in 2..Depth + 1 PROVE stack'[d].Args = Handed(stack'[d - 1])
    <3>1. d \in 2..Depth \/ (d = Depth + 1 /\ d - 1 = Depth)
      BY <1>0
    <3> QED
      BY <2>3, <2>4, <3>1
  <2> QED
    BY <1>2, <2>1, <2>5
<1>10. CASE LeaveCallee
  <2>1. /\ Depth > 1 /\ Len(stack') = Depth - 1
        /\ SameBelow(stack', Depth - 1) /\ SameFrame(stack'[Depth - 1], stack[Depth - 1])
    BY <1>10, LeaveCalleeStack
  <2>2. Depth - 1 \in 1..Depth
    BY <1>0, <2>1
  <2> QED
    BY <1>2, <1>4, <2>1, <2>2
<1> QED
  BY <1>5, <1>6, <1>7, <1>8, <1>9, <1>10 DEF Next, Finishes

\* The errors computed for pointer parameters survive the rest of the merge, under
\* the arguments or the origins that were bound before the call, except that the
\* callee's own entries of globals replace them (PointersLearnt).
THEOREM CallersLearn == Spec => PointersLearnt
<1> DEFINE Learnt(k) ==
             LET v == StandsFor(Passed[k])
             IN  IF v \in Globals /\ Known(Top.RMap.re[v])
                 THEN Innermost'.re[v] = Top.RMap.re[v]
                 ELSE /\ Known(Innermost'.re[v])
                      /\ Top.RMap.re[M.fn[Top.f].formals[k]] <= Innermost'.re[v]
<1>1. ASSUME TypeInv, ArgsInv, LeaveCallee, NEW k \in 1..MaxArity, PassedOnce(k) PROVE Learnt(k)
  <2>1. /\ Depth \in Nat \ {0} /\ Top \in Activations /\ Depth > 1 /\ stack # <<>>
        /\ stack[Depth - 1].RMap \in RMaps /\ M \in Modules
        /\ Len(stack') = Depth - 1 /\ stack'[Depth - 1].RMap = Merge(stack[Depth - 1].RMap)
    <3>1. stack # <<>> /\ Depth > 1
      BY <1>1, LeaveCalleeStack
    <3>2. Depth \in Nat \ {0} /\ \A d \in 1..Depth : stack[d].RMap \in RMaps
      BY <1>1, <3>1, TopType
    <3>3. Depth - 1 \in 1..Depth
      BY <3>1, <3>2
    <3> QED
      BY <1>1, <3>1, <3>2, <3>3, TopType, LeaveCalleeStack DEF TypeInv, TypeOK
  <2>2. /\ DOMAIN Top.Args = DOMAIN Passed
        /\ \A j \in DOMAIN Passed : Top.Args[j] = StandsFor(Passed[j])
    <3>1. Depth \in 2..Depth
      BY <2>1
    <3>2. Top.Args = Actuals(Caller.RMap, M.fn[Caller.f].body[Caller.pc])
      BY <1>1, <3>1 DEF ArgsInv, Handed, Top, Caller
    <3> QED
      BY <3>2 DEF Actuals, StandsFor, Passed
  <2> DEFINE below == stack[Depth - 1].RMap
             first == WriteBackArgument(below, Top, 1)
             second == WriteBackArgument(first, Top, 2)
             e == Top.RMap.re[M.fn[Top.f].formals[k]]
             v == Top.Args[k]
  <2>3. /\ k \in 1..2 /\ Written(k) /\ v = StandsFor(Passed[k]) /\ v \in Keys /\ v # Top.f /\ e \in Nat
        /\ \A j \in DOMAIN Top.Args : Top.Args[j] = v => j = k
    BY <1>1, <2>1, <2>2 DEF MaxArity, PassedOnce, Written, Known, Activations
  <2>4. Innermost'.re[v] = IF v \in Globals /\ Known(Top.RMap.re[v]) THEN Top.RMap.re[v]
                           ELSE ApplyActualParametersErrors(below, Top).re[v]
    <3>1. Innermost' = Merge(below)
      BY <2>1 DEF Innermost, Top, Depth
    <3> QED
      BY <2>1, <2>3, <3>1, MergeIs
  <2>5. ApplyActualParametersErrors(below, Top) = second
    BY DEF ApplyActualParametersErrors, MaxArity
  <2> HIDE DEF below
  <2>6. first \in RMaps /\ (k = 1 => first.re[v] = e)
    BY <2>1, <2>3, WriteBackIs DEF below
  <2> HIDE DEF first
  <2>7. second.re[v] = IF Written(2) /\ v = Top.Args[2]
                       THEN Top.RMap.re[M.fn[Top.f].formals[2]] ELSE first.re[v]
    BY <2>1, <2>3, <2>6, WriteBackIs
  <2>8. k = 1 => ~(Written(2) /\ v = Top.Args[2])
    <3>1. 2 \in DOMAIN Top.Args /\ Top.Args[2] = v => 2 = k
      BY <2>3
    <3>2. Written(2) => 2 \in DOMAIN Top.Args
      BY DEF Written
    <3> HIDE DEF v
    <3> QED
      BY <3>1, <3>2
  <2>9. second.re[v] = e
    BY <2>3, <2>6, <2>7, <2>8
  <2> QED
    BY <2>3, <2>4, <2>5, <2>9 DEF Known
<1>2. Init => ArgsInv
  BY DEF Init, ArgsInv, Depth
<1>3. TypeInv /\ ArgsInv /\ [Next]_vars => ArgsInv'
  BY ArgsInvStep
<1>4. TypeInv /\ ArgsInv /\ [Next]_vars =>
        [LeaveCallee => \A k \in 1..MaxArity : PassedOnce(k) => Learnt(k)]_vars
  BY <1>1
<1> QED
  BY <1>2, <1>3, <1>4, TypeInvariant, PTL DEF Spec, PointersLearnt

-----------------------------------------------------------------------------
(* The error of a function that was cloned.                                *)

\* CloneFunction makes a new function: nothing in the module refers to it.
ClonesAreFresh(P) ==
  \A c \in {CopyOf[f] : f \in Functions} :
    /\ c \notin Functions \cup Globals
    /\ \A v \in Keys : P.origin[v] # c
    /\ \A g \in Functions : \A n \in DOMAIN P.fn[g].body :
         /\ P.fn[g].body[n].id # c
         /\ \A k \in DOMAIN P.fn[g].body[n].args : P.fn[g].body[n].args[k] # c

\* The error an activation keeps under its clone covers all it returned.
Covers(t) ==
  Known(t.rets) => Known(t.RMap.re[CopyOf[t.f]]) /\ t.rets <= t.RMap.re[CopyOf[t.f]]

\* An activation has an entry in fcm, has no clone among its arguments, and
\* covers what it returned if it evaluates a clone.
RetOK(t, fcm) ==
  /\ fcm[t.f].present
  /\ \A k \in DOMAIN t.Args, g \in Functions : t.Args[k] # CopyOf[g]
  /\ fcm[t.f].copied => Covers(t)

RetInv == \A d \in 1..Depth : RetOK(stack[d], FCMap)

\* No entry of FCMap loses its clone.
ClonesKept(fcm, after) ==
  \A g \in Functions : fcm[g].present => after[g].present /\ after[g].copied = fcm[g].copied

\* A count changes nothing else, and preparing a function only adds an entry.
LEMMA CountsKeepClones ==
  ASSUME NEW fcm \in [Functions -> FunctionCopyCounts], NEW f \in Functions, NEW n \in Nat
  PROVE  /\ \A g \in Functions : /\ [fcm EXCEPT ![f].RecCount = n][g].present = fcm[g].present
                                 /\ [fcm EXCEPT ![f].RecCount = n][g].copied = fcm[g].copied
         /\ IncRecursionCount(fcm, f) = [fcm EXCEPT ![f].RecCount = fcm[f].RecCount + 1]
         /\ fcm[f].RecCount + 1 \in Nat
<1> DEFINE c == fcm[f]
<1>1. c \in FunctionCopyCounts
  OBVIOUS
<1>2. [fcm EXCEPT ![f].RecCount = n] = [fcm EXCEPT ![f] = [c EXCEPT !.RecCount = n]]
  OBVIOUS
<1> HIDE DEF c
<1>3. /\ [c EXCEPT !.RecCount = n].present = c.present
      /\ [c EXCEPT !.RecCount = n].copied = c.copied
      /\ c.RecCount + 1 \in Nat
  BY <1>1 DEF FunctionCopyCounts
<1> DEFINE new == [c EXCEPT !.RecCount = n]
<1> HIDE DEF new
<1>4. \A g \in Functions : /\ [fcm EXCEPT ![f] = new][g].present = fcm[g].present
                           /\ [fcm EXCEPT ![f] = new][g].copied = fcm[g].copied
  BY <1>3 DEF new, c
<1> QED
  BY <1>2, <1>3, <1>4 DEF new, c, IncRecursionCount

LEMMA EnterKeepsClones ==
  ASSUME M \in Modules, FCMap \in [Functions -> FunctionCopyCounts], NEW f \in Functions
  PROVE  /\ ClonesKept(FCMap, PrepareFunctionData(FCMap, f))
         /\ ClonesKept(FCMap, IncRecursionCount(PrepareFunctionData(FCMap, f), f))
         /\ IncRecursionCount(PrepareFunctionData(FCMap, f), f)[f].present
<1> DEFINE fcm == PrepareFunctionData(FCMap, f)
<1>1. /\ fcm \in [Functions -> FunctionCopyCounts] /\ fcm[f].present
      /\ \A g \in Functions : FCMap[g].present => fcm[g] = FCMap[g]
  BY PrepareType
<1> HIDE DEF fcm
<1>2. \A g \in Functions : /\ IncRecursionCount(fcm, f)[g].present = fcm[g].present
                           /\ IncRecursionCount(fcm, f)[g].copied = fcm[g].copied
  <2> DEFINE n == fcm[f].RecCount + 1
  <2>1. n \in Nat /\ IncRecursionCount(fcm, f) = [fcm EXCEPT ![f].RecCount = n]
    BY <1>1, CountsKeepClones
  <2> HIDE DEF n
  <2> QED
    BY <1>1, <2>1, CountsKeepClones
<1> QED
  BY <1>1, <1>2 DEF ClonesKept, fcm

\* An activation that keeps its function and arguments stays well if it still
\* covers what it returned.
LEMMA RetOKKept ==
  ASSUME NEW fcm, NEW after, ClonesKept(fcm, after), NEW t, t.f \in Functions, RetOK(t, fcm),
         NEW u, u.f = t.f, u.Args = t.Args, fcm[t.f].copied => (Covers(t) => Covers(u))
  PROVE  RetOK(u, after)
BY DEF RetOK, ClonesKept

\* Of an instruction only a ret touches the key of the function, and raises it.
LEMMA ComputeOwn ==
  ASSUME M \in Modules, NEW rm \in RMaps, NEW ranges, NEW i \in Instructions, NEW fk \in Keys,
         i.id # fk, M.origin[i.b] # fk
  PROVE  LET after == Compute(rm, ranges, i, fk).re[fk]
         IN  IF i.op = "ret" /\ Known(rm.re[i.a])
             THEN /\ Known(after) /\ rm.re[i.a] <= after
                  /\ Known(rm.re[fk]) => rm.re[fk] <= after
             ELSE after = rm.re[fk]
<1>1. i.id \in Keys /\ i.a \in Keys /\ i.b \in Keys /\ M.origin[i.b] \in Keys
  BY InstructionType DEF Modules
<1>2. \A r \in RMaps, v \in Keys, e \in Nat :
        SetError(r, v, e) \in RMaps /\ (v # fk => SetError(r, v, e).re[fk] = r.re[fk])
  BY SetErrorProgress DEF Progress
<1>3. \A r \in RMaps, e \in Nat : SetError(r, fk, e).re[fk] = e
  BY SetErrorProgress
<1>4. /\ Dispatch(rm, i, fk) \in RMaps
      /\ rm.re[fk] \in RangeErrors /\ rm.re[i.a] \in RangeErrors
  BY <1>1, DispatchProgress DEF Progress, RMaps
<1>5. Compute(rm, ranges, i, fk).re[fk] = Dispatch(rm, i, fk).re[fk]
  <2>1. CASE ~Computed(rm.re, ranges, i) /\ Known(M.info[i.id])
    <3>1. M.info[i.id] \in Nat
      BY <2>1 DEF Known
    <3> QED
      BY <1>1, <1>2, <1>4, <2>1, <3>1 DEF Compute
  <2>2. CASE ~(~Computed(rm.re, ranges, i) /\ Known(M.info[i.id]))
    BY <2>2 DEF Compute
  <2> QED
    BY <2>1, <2>2
<1>6. CASE i.op = "ret"
  <2>1. Dispatch(rm, i, fk) = PropagateRet(rm, i, fk)
    BY <1>6 DEF Dispatch
  <2>2. CASE ~Known(rm.re[i.a])
    BY <1>5, <2>1, <2>2 DEF PropagateRet
  <2>3. CASE Known(rm.re[i.a])
    <3> DEFINE e == rm.re[i.a]
               ret == SetError(rm, i.id, e)
    <3>1. e \in Nat
      BY <2>3 DEF Known
    <3>2. PropagateRet(rm, i, fk) =
            IF ~Known(ret.re[fk]) \/ ret.re[fk] < e THEN SetError(ret, fk, e) ELSE ret
      BY <2>3 DEF PropagateRet
    <3> HIDE DEF e
    <3>3. ret \in RMaps /\ ret.re[fk] = rm.re[fk]
      BY <1>1, <1>2, <3>1
    <3> HIDE DEF ret
    <3>4. CASE ~Known(rm.re[fk]) \/ rm.re[fk] < e
      <4>1. Compute(rm, ranges, i, fk).re[fk] = e
        BY <1>3, <1>5, <2>1, <3>1, <3>2, <3>3, <3>4
      <4> QED
        BY <1>6, <2>3, <3>1, <3>4, <4>1 DEF Known, e
    <3>5. CASE Known(rm.re[fk]) /\ ~(rm.re[fk] < e)
      <4>1. Compute(rm, ranges, i, fk).re[fk] = rm.re[fk]
        BY <1>5, <2>1, <3>2, <3>3, <3>5
      <4> QED
        BY <1>6, <2>3, <3>1, <3>5, <4>1 DEF Known, e
    <3> QED
      BY <3>4, <3>5
  <2> QED
    BY <1>6, <2>2, <2>3
<1>7. CASE i.op = "store"
  <2> DEFINE e == StoredError(rm.re, i)
             stored == SetError(rm, i.id, e)
             origin == M.origin[i.b]
  <2>1. Dispatch(rm, i, fk) = PropagateStore(rm, i)
    BY <1>7 DEF Dispatch
  <2>2. CASE ~Known(e)
    BY <1>5, <1>7, <2>1, <2>2 DEF PropagateStore
  <2>3. CASE Known(e)
    <3>1. e \in Nat /\ PropagateStore(rm, i) \in {stored, SetError(stored, origin, e)}
      BY <2>3 DEF PropagateStore, Known
    <3> HIDE DEF e
    <3>2. stored \in RMaps /\ stored.re[fk] = rm.re[fk]
      BY <1>1, <1>2, <3>1
    <3> HIDE DEF stored
    <3>3. SetError(stored, origin, e).re[fk] = rm.re[fk]
      BY <1>1, <1>2, <3>1, <3>2
    <3> QED
      BY <1>5, <1>7, <2>1, <3>1, <3>2, <3>3
  <2> QED
    BY <2>2, <2>3
<1>8. CASE i.op \in {"cmp", "none"}
  BY <1>5, <1>8 DEF Dispatch
<1>9. CASE i.op \notin {"ret", "store", "cmp", "none"}
  <2> DEFINE e == Result(rm.re, i)
  <2>1. Dispatch(rm, i, fk) = CASE Known(e) -> SetError(rm, i.id, e)
                                [] e = NoErr -> [rm EXCEPT !.re[i.id] = NoErr]
                                [] OTHER -> rm
    BY <1>9 DEF Dispatch
  <2>2. e \in RangeErrors
    BY ResultType DEF RMaps
  <2> HIDE DEF e
  <2>3. CASE Known(e)
    <3>1. Dispatch(rm, i, fk) = SetError(rm, i.id, e) /\ e \in Nat
      BY <2>1, <2>3, ConstantsAssumption DEF Known
    <3> QED
      BY <1>1, <1>2, <1>5, <1>9, <3>1
  <2>4. CASE e = NoErr
    <3>1. Dispatch(rm, i, fk) = [rm EXCEPT !.re[i.id] = NoErr]
      BY <2>1, <2>4, ConstantsAssumption DEF Known
    <3>2. [rm EXCEPT !.re[i.id] = NoErr].re[fk] = rm.re[fk]
      BY DEF RMaps
    <3> QED
      BY <1>5, <1>9, <3>1, <3>2
  <2>5. CASE e = Absent
    <3>1. Dispatch(rm, i, fk) = rm
      BY <2>1, <2>5, ConstantsAssumption DEF Known
    <3> QED
      BY <1>5, <1>9, <3>1
  <2> QED
    BY <2>2, <2>3, <2>4, <2>5 DEF RangeErrors, Known
<1> QED
  BY <1>6, <1>7, <1>8, <1>9

\* The map of a caller keeps the key of the caller's clone when a callee leaves.
LEMMA MergeOwn ==
  ASSUME M \in Modules, ClonesAreFresh(M), NEW rm \in RMaps, stack # <<>>, Top \in Activations,
         RetOK(Top, FCMap), NEW f \in Functions
  PROVE  Merge(rm).re[CopyOf[f]] = rm.re[CopyOf[f]]
<1> DEFINE c == CopyOf[f]
           first == WriteBackArgument(rm, Top, 1)
<1>1. /\ c \in Keys /\ c \notin Globals \cup {Top.f}
      /\ \A k \in DOMAIN Top.Args : Top.Args[k] # c
  BY ConstantsAssumption DEF ClonesAreFresh, RetOK, Keys, Activations
<1>2. \A n \in 1..2 : Written(n) => c # Top.Args[n]
  BY <1>1 DEF Written
<1> HIDE DEF c
<1>3. first \in RMaps /\ first.re[c] = rm.re[c]
  BY <1>1, <1>2, WriteBackIs
<1>4. WriteBackArgument(first, Top, 2).re[c] = first.re[c]
  <2> HIDE DEF first
  <2> QED
    BY <1>1, <1>2, <1>3, WriteBackIs
<1>5. ApplyActualParametersErrors(rm, Top).re[c] = rm.re[c]
  BY <1>3, <1>4 DEF ApplyActualParametersErrors, MaxArity
<1> QED
  BY <1>1, <1>5, MergeIs DEF c

\* Metadata of an instruction do not concern the clone either.
LEMMA CurrentIsFresh ==
  ASSUME TypeInv, ClonesAreFresh(M), stack # <<>>, Top.pc <= Len(Body), NEW f \in Functions
  PROVE  /\ Current.id # CopyOf[f] /\ M.origin[Current.b] # CopyOf[f]
         /\ Retrieve(Top.RMap, Current.id).re[CopyOf[f]] = Top.RMap.re[CopyOf[f]]
         /\ \A rm : \A k \in DOMAIN Actuals(rm, Current) : Actuals(rm, Current)[k] # CopyOf[f]
<1> DEFINE c == CopyOf[f]
<1>1. /\ Current \in Instructions /\ Top.pc \in DOMAIN Body /\ Top.f \in Functions
      /\ Top.RMap \in RMaps /\ M \in Modules
  BY TopType DEF TypeInv, TypeOK
<1>2. /\ Current.b \in Keys /\ Current.id \in Values /\ Current.args \in Seq(Values)
  BY <1>1, InstructionType
<1>3. /\ \A v \in Keys : M.origin[v] # c
      /\ Current.id # c /\ \A k \in DOMAIN Current.args : Current.args[k] # c
  BY <1>1 DEF ClonesAreFresh, Current, Body
<1>4. c \in Keys
  BY ConstantsAssumption DEF Keys
<1> HIDE DEF c
<1>5. Retrieve(Top.RMap, Current.id).re[c] = Top.RMap.re[c]
  BY <1>1, <1>2, <1>3, <1>4, RetrieveType
<1>6. ASSUME NEW rm, NEW k \in DOMAIN Actuals(rm, Current) PROVE Actuals(rm, Current)[k] # c
  <2>1. k \in DOMAIN Current.args
    BY <1>6 DEF Actuals
  <2>2. Current.args[k] \in Keys
    BY <1>2, <2>1 DEF Keys
  <2>3. Actuals(rm, Current)[k] \in {M.origin[Current.args[k]], Current.args[k]}
    BY <2>1 DEF Actuals
  <2> QED
    BY <1>3, <2>1, <2>2, <2>3
<1> QED
  BY <1>2, <1>3, <1>5, <1>6 DEF c

\* An activation of a clone covers what it returned after an instruction, too.
LEMMA FinishCovers ==
  ASSUME TypeInv, ClonesAreFresh(M), Finishes, FCMap[Top.f].copied, Covers(Top)
  PROVE  Covers(stack'[Depth])
<1> DEFINE c == CopyOf[Top.f]
           i == Current
           new == stack'[Depth]
<1>1. /\ stack # <<>> /\ Top.pc <= Len(Body) /\ new.f = Top.f
  BY FinishesStack DEF SameFrame
<1>2. PICK rm \in RMaps :
        /\ rm = Top.RMap \/ rm = Retrieve(Top.RMap, i.id)
        /\ new.RMap = Compute(rm, Described(i), i, Self)
        /\ new.rets = IF i.op = "ret" THEN Larger(Top.rets, rm.re[i.a]) ELSE Top.rets
  BY FinishesStack
<1>3. i \in Instructions /\ Top.f \in Functions /\ M \in Modules /\ Top \in Activations
  BY <1>1, TopType DEF TypeInv, TypeOK
<1>4. Self = c /\ c \in Keys
  BY <1>3, ConstantsAssumption DEF Self, FCopy, Keys
<1>5. i.id # c /\ M.origin[i.b] # c /\ rm.re[c] = Top.RMap.re[c]
  BY <1>1, <1>2, <1>3, CurrentIsFresh
<1>6. Known(Top.rets) => Known(rm.re[c]) /\ Top.rets <= rm.re[c]
  BY <1>5 DEF Covers
<1>7. rm.re[c] \in RangeErrors /\ rm.re[i.a] \in RangeErrors /\ Top.rets \in RangeErrors
  BY <1>3, <1>4, InstructionType DEF RMaps, Activations
<1> HIDE DEF c, i, new
<1> DEFINE after == Compute(rm, Described(i), i, c).re[c]
<1>8. IF i.op = "ret" /\ Known(rm.re[i.a])
      THEN Known(after) /\ rm.re[i.a] <= after /\ (Known(rm.re[c]) => rm.re[c] <= after)
      ELSE after = rm.re[c]
  BY <1>3, <1>4, <1>5, ComputeOwn
<1> HIDE DEF after
<1>9. Known(new.rets) => Known(after) /\ new.rets <= after
  BY <1>2, <1>6, <1>7, <1>8 DEF Larger, Known
<1>10. new.RMap.re[CopyOf[new.f]] = after
  BY <1>1, <1>2, <1>4 DEF after, c
<1> QED
  BY <1>9, <1>10 DEF Covers, new

\* Calls and returns leave the covered activations covered.
LEMMA RetInvStep ==
  ASSUME TypeInv, ClonesAreFresh(M), RetInv, [Next]_vars
  PROVE  RetInv'
<1>0. /\ Depth \in Nat /\ stack \in Seq(Activations) /\ M \in Modules
      /\ FCMap \in [Functions -> FunctionCopyCounts] /\ pending \in Seq(Functions)
  BY DEF TypeInv, TypeOK, Depth
<1>1. /\ \A d \in 1..Depth : stack[d] \in Activations /\ stack[d].f \in Functions
      /\ stack # <<>> => Top = stack[Depth] /\ Depth \in 1..Depth /\ Top.f \in Functions
  BY <1>0, TopType DEF Activations, Top, Depth
<1>2. ASSUME NEW n \in Nat, n <= Depth, SameBelow(stack', n), ClonesKept(FCMap, FCMap')
      PROVE  \A d \in 1..n : d < n => RetOK(stack'[d], FCMap')
  <2> SUFFICES ASSUME NEW d \in 1..n, d < n PROVE RetOK(stack'[d], FCMap')
    OBVIOUS
  <2>1. d \in 1..Depth /\ stack'[d] = stack[d]
    BY <1>0, <1>2 DEF SameBelow
  <2> QED
    BY <1>1, <1>2, <2>1, RetOKKept DEF RetInv
<1>3. ClonesKept(FCMap, FCMap)
  BY DEF ClonesKept
<1>4. CASE SkipFunction \/ UNCHANGED vars
  BY <1>4 DEF SkipFunction, vars, RetInv, Depth
<1>5. CASE VisitDeclaration \/ PrintTargetErrors
  <2>1. Depth' = 0
    BY <1>5 DEF VisitDeclaration, NextFunction, PrintTargetErrors, Depth
  <2> QED
    BY <2>1 DEF RetInv
<1>6. CASE VisitFunction
  <2>1. PICK f \in Functions :
          /\ FCMap' = IncRecursionCount(PrepareFunctionData(FCMap, f), f)
          /\ Len(stack') = 1 /\ stack'[1].f = f /\ stack'[1].Args = <<>> /\ stack'[1].rets = NoErr
    BY <1>6, VisitFunctionStack
  <2>2. FCMap'[f].present /\ Depth' = 1
    BY <1>0, <2>1, EnterKeepsClones DEF Depth
  <2>3. Covers(stack'[1])
    BY <2>1, ConstantsAssumption DEF Covers, Known
  <2>4. RetOK(stack'[1], FCMap')
    BY <2>1, <2>2, <2>3 DEF RetOK
  <2> QED
    BY <2>2, <2>4 DEF RetInv
<1>7. CASE Finishes
  <2>1. /\ stack # <<>> /\ Len(stack') = Depth /\ FCMap' = FCMap
        /\ SameBelow(stack', Depth) /\ SameFrame(stack'[Depth], Top)
    BY <1>7, FinishesStack
  <2>2. RetOK(stack'[Depth], FCMap')
    <3>1. FCMap[Top.f].copied => (Covers(Top) => Covers(stack'[Depth]))
      BY <1>7, FinishCovers
    <3> QED
      BY <1>1, <1>3, <2>1, <3>1, RetOKKept DEF RetInv, SameFrame
  <2> QED
    BY <1>0, <1>2, <1>3, <2>1, <2>2 DEF RetInv, Depth
<1>8. ASSUME stack # <<>>, Top.pc <= Len(Body), ClonesKept(FCMap, FCMap'),
             SameFrame(stack'[Depth], Top), stack'[Depth].rets = Top.rets,
             stack'[Depth].RMap = Retrieve(Top.RMap, Current.id)
      PROVE  RetOK(stack'[Depth], FCMap')
  <2>1. stack'[Depth].RMap.re[CopyOf[Top.f]] = Top.RMap.re[CopyOf[Top.f]]
    BY <1>1, <1>8, CurrentIsFresh
  <2>2. Covers(Top) => Covers(stack'[Depth])
    BY <1>8, <2>1 DEF Covers, SameFrame
  <2> QED
    BY <1>1, <1>8, <2>2, RetOKKept DEF RetInv, SameFrame
<1>9. CASE CallDeclaration
  <2>1. /\ stack # <<>> /\ Top.pc <= Len(Body) /\ Len(stack') = Depth
        /\ SameBelow(stack', Depth) /\ SameFrame(stack'[Depth], Top)
        /\ stack'[Depth].rets = Top.rets
        /\ stack'[Depth].RMap = Retrieve(Top.RMap, Current.id)
        /\ ClonesKept(FCMap, FCMap')
    BY <1>0, <1>9, CallDeclarationStack, EnterKeepsClones
  <2>2. RetOK(stack'[Depth], FCMap')
    BY <1>8, <2>1
  <2> QED
    BY <1>0, <1>2, <2>1, <2>2 DEF RetInv, Depth
<1>10. CASE CallFunction
  <2>1. PICK f \in Functions :
          /\ FCMap' = IncRecursionCount(PrepareFunctionData(FCMap, f), f)
          /\ stack # <<>> /\ Top.pc <= Len(Body) /\ Len(stack') = Depth + 1
          /\ SameBelow(stack', Depth) /\ SameFrame(stack'[Depth], Top)
          /\ stack'[Depth].rets = Top.rets
          /\ stack'[Depth].RMap = Retrieve(Top.RMap, Current.id)
          /\ stack'[Depth + 1].f = f /\ stack'[Depth + 1].rets = NoErr
          /\ stack'[Depth + 1].Args = Actuals(stack'[Depth].RMap, Current)
    BY <1>10, CallFunctionStack
  <2>2. ClonesKept(FCMap, FCMap') /\ FCMap'[f].present
    BY <1>0, <2>1, EnterKeepsClones
  <2>3. RetOK(stack'[Depth], FCMap')
    BY <1>8, <2>1, <2>2
  <2>4. RetOK(stack'[Depth + 1], FCMap')
    <3>1. \A k \in DOMAIN stack'[Depth + 1].Args, g \in Functions : stack'[Depth + 1].Args[k] # CopyOf[g]
      BY <2>1, CurrentIsFresh
    <3>2. Covers(stack'[Depth + 1])
      BY <2>1, ConstantsAssumption DEF Covers, Known
    <3> QED
      BY <2>1, <2>2, <3>1, <3>2 DEF RetOK
  <2>5. \A d \in 1..Depth + 1 : d < Depth \/ d = Depth \/ d = Depth + 1
    BY <1>0
  <2> QED
    BY <1>0, <1>2, <2>1, <2>2, <2>3, <2>4, <2>5 DEF RetInv, Depth
<1>11. CASE LeaveCallee
  <2>1. /\ stack # <<>> /\ Depth > 1 /\ Len(stack') = Depth - 1
        /\ SameBelow(stack', Depth - 1) /\ SameFrame(stack'[Depth - 1], stack[Depth - 1])
        /\ stack'[Depth - 1].rets = stack[Depth - 1].rets
        /\ stack'[Depth - 1].RMap = Merge(stack[Depth - 1].RMap)
        /\ FCMap' = [FCMap EXCEPT ![Top.f].RecCount = Top.OldRecCount]
    BY <1>11, LeaveCalleeStack
  <2> DEFINE below == stack[Depth - 1]
  <2>2. /\ Depth - 1 \in 1..Depth /\ Depth - 1 \in Nat /\ Depth \in 1..Depth
        /\ below.f \in Functions /\ below.RMap \in RMaps /\ Top \in Activations
        /\ Top.OldRecCount \in Nat /\ Top.f \in Functions
    BY <1>0, <1>1, <2>1, TopType DEF Activations
  <2>3. ClonesKept(FCMap, FCMap')
    BY <1>0, <2>1, <2>2, CountsKeepClones DEF ClonesKept
  <2>4. RetOK(Top, FCMap) /\ RetOK(below, FCMap)
    BY <1>1, <2>1, <2>2 DEF RetInv
  <2>5. Merge(below.RMap).re[CopyOf[below.f]] = below.RMap.re[CopyOf[below.f]]
    <3> HIDE DEF below
    <3> QED
      BY <1>0, <2>1, <2>2, <2>4, MergeOwn
  <2>6. Covers(below) => Covers(stack'[Depth - 1])
    BY <2>1, <2>5 DEF Covers, SameFrame
  <2>7. RetOK(stack'[Depth - 1], FCMap')
    <3> HIDE DEF below
    <3>1. SameFrame(stack'[Depth - 1], below)
      BY <2>1 DEF below
    <3> QED
      BY <2>2, <2>3, <2>4, <2>6, <3>1, RetOKKept DEF SameFrame
  <2>8. \A d \in 1..Depth - 1 : d < Depth - 1 => RetOK(stack'[d], FCMap')
    <3>1. Depth - 1 \in Nat /\ Depth - 1 <= Depth
      BY <2>2
    <3> QED
      BY <1>2, <2>1, <2>3, <3>1
  <2>9. \A d \in 1..Depth - 1 : d < Depth - 1 \/ d = Depth - 1
    BY <2>2
  <2>10. Depth' = Depth - 1
    BY <2>1 DEF Depth
  <2> QED
    BY <2>7, <2>8, <2>9, <2>10 DEF RetInv
<1>12. CASE LeaveFunction
  <2>1. Depth' = 0
    BY <1>12 DEF LeaveFunction, Depth
  <2> QED
    BY <2>1 DEF RetInv
<1>13. CASE RestoreMemSSA
  <2>1. /\ stack # <<>> /\ Len(stack') = Depth /\ FCMap' = FCMap
        /\ SameBelow(stack', Depth) /\ SameFrame(stack'[Depth], Top)
        /\ stack'[Depth].RMap = Top.RMap /\ stack'[Depth].rets = Top.rets
    BY <1>13, RestoreStack
  <2>2. RetOK(stack'[Depth], FCMap')
    <3>1. Covers(Top) => Covers(stack'[Depth])
      BY <2>1 DEF Covers, SameFrame
    <3> QED
      BY <1>1, <1>3, <2>1, <3>1, RetOKKept DEF RetInv, SameFrame
  <2> QED
    BY <1>0, <1>2, <1>3, <2>1, <2>2 DEF RetInv, Depth
<1> QED
  BY <1>4, <1>5, <1>6, <1>7, <1>9, <1>10, <1>11, <1>12, <1>13 DEF Next, Finishes

\* A function that is evaluated on its clone keeps, as its own error, the largest
\* it returned: results of inner activations come under the original function
\* (ClonedReturnErrorCovers).
THEOREM ClonedReturnsCovered ==
  ASSUME \A P \in Programs : ClonesAreFresh(P)
  PROVE  Spec => []ClonedReturnErrorCovers
<1>1. Init => RetInv
  <2>1. Init => Depth = 0
    BY DEF Init, Depth
  <2> QED
    BY <2>1 DEF RetInv
<1>2. TypeInv /\ M \in Programs /\ RetInv /\ [Next]_vars => RetInv'
  BY RetInvStep
<1>3. TypeInv /\ RetInv => ClonedReturnErrorCovers
  <2> SUFFICES ASSUME TypeInv, RetInv, NEW d \in DOMAIN stack, FCMap[stack[d].f].copied
               PROVE  ReturnErrorCovers(d)
    BY DEF ClonedReturnErrorCovers
  <2>1. d \in 1..Depth
    BY DEF TypeInv, TypeOK, Depth
  <2> QED
    BY <2>1 DEF RetInv, RetOK, Covers, ReturnErrorCovers, FCopy
<1> QED
  BY <1>1, <1>2, <1>3, TypeInvariant, ModuleFixed, PTL DEF Spec

-----------------------------------------------------------------------------
(* What a call leaves of the errors of pointers.                           *)

\* LLVM values of different kinds are different: functions and their clones,
\* global variables, arguments, and instructions.
KindsAreDistinct(P) ==
  /\ Globals \cap Functions = {}
  /\ \A f, g \in Functions : \A m \in DOMAIN P.fn[f].formals :
       P.fn[f].formals[m] \notin Functions \cup Globals \cup {CopyOf[g]}
  /\ \A g \in Functions : \A n \in DOMAIN P.fn[g].body :
       /\ P.fn[g].body[n].id \notin Functions \cup Globals
       /\ \A f \in Functions : \A m \in DOMAIN P.fn[f].formals :
            P.fn[g].body[n].id # P.fn[f].formals[m]

\* An error that one map has for v, another has for w, and not lower.
Risen(before, v, after, w) ==
  Known(before.re[v]) => Known(after.re[w]) /\ before.re[v] <= after.re[w]

\* What the caller of t, with the map below, knows for a global or an actual
\* argument, t knows for the global or the formal argument.
ActualsKept(below, t) ==
  /\ \A g \in Globals : Risen(below, g, t.RMap, g)
  /\ \A k \in DOMAIN t.Args :
       k \in DOMAIN M.fn[t.f].formals /\ t.Args[k] \notin Functions =>
         Risen(below, t.Args[k], t.RMap, M.fn[t.f].formals[k])

KeptInv == ~PassesOwnArguments => \A d \in 2..Depth : ActualsKept(stack[d - 1].RMap, stack[d])

\* The values whose errors an activation of f must not lower.
Shared(f) == Globals \cup {M.fn[f].formals[k] : k \in DOMAIN M.fn[f].formals}

\* Errors that rise twice rise.
LEMMA RisenTrans ==
  ASSUME NEW a1 \in RMaps, NEW a2 \in RMaps, NEW a3 \in RMaps,
         NEW v \in Keys, NEW w \in Keys, NEW x \in Keys,
         Risen(a1, v, a2, w), Risen(a2, w, a3, x)
  PROVE  Risen(a1, v, a3, x)
BY DEF Risen, Known

\* The values an activation shares have keys.
LEMMA SharedKeys ==
  ASSUME M \in Modules, NEW f \in Functions
  PROVE  Shared(f) \subseteq Keys
<1>1. M.fn[f].formals \in Seq(Values)
  BY DEF Modules, FunctionData
<1> QED
  BY <1>1, ConstantsAssumption DEF Shared, Keys

\* An activation that raises what it shares still knows what its caller does.
LEMMA ActualsStayKept ==
  ASSUME M \in Modules, NEW below \in RMaps,
         NEW t \in Activations, NEW u \in Activations, u.f = t.f, u.Args = t.Args,
         ActualsKept(below, t), \A w \in Shared(t.f) : Risen(t.RMap, w, u.RMap, w)
  PROVE  ActualsKept(below, u)
<1>1. t.RMap \in RMaps /\ u.RMap \in RMaps /\ t.f \in Functions /\ t.Args \in Seq(Keys)
  BY DEF Activations
<1>2. Shared(t.f) \subseteq Keys
  BY <1>1, SharedKeys
<1>3. ASSUME NEW g \in Globals PROVE Risen(below, g, u.RMap, g)
  <2>1. g \in Shared(t.f) /\ g \in Keys /\ Risen(below, g, t.RMap, g)
    BY <1>2 DEF ActualsKept, Shared
  <2> QED
    BY <1>1, <2>1, RisenTrans
<1>4. ASSUME NEW k \in DOMAIN t.Args, k \in DOMAIN M.fn[t.f].formals, t.Args[k] \notin Functions
      PROVE  Risen(below, t.Args[k], u.RMap, M.fn[t.f].formals[k])
  <2> DEFINE v == t.Args[k]
             w == M.fn[t.f].formals[k]
  <2>1. v \in Keys /\ w \in Shared(t.f) /\ w \in Keys /\ Risen(below, v, t.RMap, w)
    BY <1>1, <1>2, <1>4 DEF ActualsKept, Shared
  <2>2. Risen(t.RMap, w, u.RMap, w)
    BY <2>1
  <2> HIDE DEF v, w
  <2>3. Risen(below, v, u.RMap, w)
    BY <1>1, <2>1, <2>2, RisenTrans
  <2> QED
    BY <2>3 DEF v, w
<1> QED
  BY <1>3, <1>4 DEF ActualsKept

\* An instruction replaces the entries of itself and of its function, and may
\* raise that of the origin pointer.
LEMMA ComputeRises ==
  ASSUME M \in Modules, NEW rm \in RMaps, NEW ranges, NEW i \in Instructions, NEW fk \in Keys,
         NEW w \in Keys, i.id # w, fk # w
  PROVE  Risen(rm, w, Compute(rm, ranges, i, fk), w)
<1>1. i.id \in Keys /\ i.a \in Keys /\ i.b \in Keys /\ M.origin[i.b] \in Keys
  BY InstructionType DEF Modules
<1>2. \A r \in RMaps, v \in Keys, e \in Nat :
        SetError(r, v, e) \in RMaps /\ (v # w => SetError(r, v, e).re[w] = r.re[w])
  BY SetErrorProgress DEF Progress
<1>3. \A r \in RMaps, e \in Nat : SetError(r, w, e).re[w] = e
  BY SetErrorProgress
<1>4. Dispatch(rm, i, fk) \in RMaps /\ rm.re[w] \in RangeErrors
  BY <1>1, DispatchProgress DEF Progress, RMaps
<1>5. Compute(rm, ranges, i, fk).re[w] = Dispatch(rm, i, fk).re[w]
  <2>1. CASE ~Computed(rm.re, ranges, i) /\ Known(M.info[i.id])
    <3>1. M.info[i.id] \in Nat
      BY <2>1 DEF Known
    <3> QED
      BY <1>1, <1>2, <1>4, <2>1, <3>1 DEF Compute
  <2>2. CASE ~(~Computed(rm.re, ranges, i) /\ Known(M.info[i.id]))
    BY <2>2 DEF Compute
  <2> QED
    BY <2>1, <2>2
<1>6. CASE i.op = "store"
  <2> DEFINE e == StoredError(rm.re, i)
             stored == SetError(rm, i.id, e)
             origin == M.origin[i.b]
  <2>1. Dispatch(rm, i, fk) = PropagateStore(rm, i)
    BY <1>6 DEF Dispatch
  <2>2. CASE ~Known(e)
    <3>1. Compute(rm, ranges, i, fk).re[w] = rm.re[w]
      BY <1>5, <2>1, <2>2 DEF PropagateStore
    <3> QED
      BY <1>4, <3>1 DEF Risen, Known
  <2>3. CASE Known(e)
    <3>1. /\ e \in Nat
          /\ PropagateStore(rm, i) =
               IF origin # Null /\ (~Known(stored.re[origin]) \/ stored.re[origin] < e)
               THEN SetError(stored, origin, e) ELSE stored
      BY <2>3 DEF PropagateStore, RaisesOrigin, Known
    <3> HIDE DEF e
    <3>2. stored \in RMaps /\ stored.re[w] = rm.re[w]
      BY <1>1, <1>2, <3>1
    <3> HIDE DEF stored
    <3>3. CASE origin = w /\ PropagateStore(rm, i) # stored
      <4>1. Dispatch(rm, i, fk).re[w] = e /\ (~Known(rm.re[w]) \/ rm.re[w] < e)
        BY <1>3, <2>1, <3>1, <3>2, <3>3
      <4> QED
        BY <1>5, <3>1, <4>1 DEF Risen, Known
    <3>4. CASE origin # w \/ PropagateStore(rm, i) = stored
      <4>1. Compute(rm, ranges, i, fk).re[w] = rm.re[w]
        BY <1>1, <1>2, <1>5, <2>1, <3>1, <3>2, <3>4
      <4> QED
        BY <1>4, <4>1 DEF Risen, Known
    <3> QED
      BY <3>3, <3>4
  <2> QED
    BY <2>2, <2>3
<1>7. CASE i.op # "store"
  <2>1. Dispatch(rm, i, fk).re[w] = rm.re[w]
    <3>1. CASE i.op = "ret"
      <4> DEFINE e == rm.re[i.a]
                 ret == SetError(rm, i.id, e)
      <4>1. Dispatch(rm, i, fk) = PropagateRet(rm, i, fk)
        BY <3>1 DEF Dispatch
      <4>2. CASE ~Known(e)
        BY <4>1, <4>2 DEF PropagateRet
      <4>3. CASE Known(e)
        <5>1. e \in Nat /\ PropagateRet(rm, i, fk) \in {ret, SetError(ret, fk, e)}
          BY <4>3 DEF PropagateRet, Known
        <5> HIDE DEF e
        <5>2. ret \in RMaps /\ ret.re[w] = rm.re[w]
          BY <1>1, <1>2, <5>1
        <5> HIDE DEF ret
        <5>3. SetError(ret, fk, e).re[w] = rm.re[w]
          BY <1>2, <5>1, <5>2
        <5> QED
          BY <4>1, <5>1, <5>2, <5>3
      <4> QED
        BY <4>2, <4>3
    <3>2. CASE i.op \in {"cmp", "none"}
      BY <3>2 DEF Dispatch
    <3>3. CASE i.op \notin {"ret", "store", "cmp", "none"}
      <4> DEFINE e == Result(rm.re, i)
      <4>1. Dispatch(rm, i, fk) = CASE Known(e) -> SetError(rm, i.id, e)
                                    [] e = NoErr -> [rm EXCEPT !.re[i.id] = NoErr]
                                    [] OTHER -> rm
        BY <3>3 DEF Dispatch
      <4>2. e \in RangeErrors
        BY ResultType DEF RMaps
      <4> HIDE DEF e
      <4>3. CASE Known(e)
        <5>1. Dispatch(rm, i, fk) = SetError(rm, i.id, e) /\ e \in Nat
          BY <4>1, <4>3, ConstantsAssumption DEF Known
        <5> QED
          BY <1>1, <1>2, <5>1
      <4>4. CASE e = NoErr
        <5>1. Dispatch(rm, i, fk) = [rm EXCEPT !.re[i.id] = NoErr]
          BY <4>1, <4>4, ConstantsAssumption DEF Known
        <5>2. [rm EXCEPT !.re[i.id] = NoErr].re[w] = rm.re[w]
          BY DEF RMaps
        <5> QED
          BY <5>1, <5>2
      <4>5. CASE e = Absent
        BY <4>1, <4>5, ConstantsAssumption DEF Known
      <4> QED
        BY <4>2, <4>3, <4>4, <4>5 DEF RangeErrors, Known
    <3> QED
      BY <1>7, <3>1, <3>2, <3>3
  <2> QED
    BY <1>4, <1>5, <2>1 DEF Risen, Known
<1> QED
  BY <1>6, <1>7

\* What an activation leaves in its caller's map lowers nothing, if it knows
\* what the caller did.
LEMMA MergeRises ==
  ASSUME M \in Modules, NEW rm \in RMaps, stack # <<>>, Top \in Activations,
         ActualsKept(rm, Top), NEW w \in Keys, w \notin Functions
  PROVE  Risen(rm, w, Merge(rm), w)
<1> DEFINE first == WriteBackArgument(rm, Top, 1)
           second == WriteBackArgument(first, Top, 2)
           e(n) == Top.RMap.re[M.fn[Top.f].formals[n]]
           here(n) == Written(n) /\ w = Top.Args[n]
<1>1. /\ \A n \in 1..2 : here(n) => Known(e(n)) /\ (Known(rm.re[w]) => rm.re[w] <= e(n))
      /\ w \in Globals => Risen(rm, w, Top.RMap, w)
  BY DEF Written, ActualsKept, Risen
<1>2. rm.re[w] \in RangeErrors /\ Top.f \in Functions
  BY DEF RMaps, Activations
<1>3. /\ first \in RMaps
      /\ first.re[w] = IF here(1) THEN e(1) ELSE rm.re[w]
  BY WriteBackIs
<1> HIDE DEF first
<1>4. second.re[w] = IF here(2) THEN e(2) ELSE first.re[w]
  <2>1. 2 \in 1..2
    OBVIOUS
  <2> QED
    BY <1>3, <2>1, WriteBackIs
<1> HIDE DEF second, e, here
<1>5. Risen(rm, w, second, w)
  <2>1. /\ here(1) => Known(e(1)) /\ (Known(rm.re[w]) => rm.re[w] <= e(1))
        /\ here(2) => Known(e(2)) /\ (Known(rm.re[w]) => rm.re[w] <= e(2))
    BY <1>1
  <2> QED
    BY <1>2, <1>3, <1>4, <2>1 DEF Risen, Known
<1>6. second = ApplyActualParametersErrors(rm, Top)
  BY DEF ApplyActualParametersErrors, MaxArity, second, first
<1>7. Merge(rm).re[w] = IF w \in Globals /\ Known(Top.RMap.re[w]) THEN Top.RMap.re[w] ELSE second.re[w]
  BY <1>2, <1>6, MergeIs
<1> QED
  BY <1>1, <1>5, <1>7 DEF Risen

\* Globals and arguments are no functions, clones or instructions.
LEMMA SharedAreApart ==
  ASSUME M \in Modules, ClonesAreFresh(M), KindsAreDistinct(M), NEW f \in Functions, NEW w \in Shared(f)
  PROVE  /\ w \in Keys /\ w \notin Functions
         /\ \A g \in Functions : w # CopyOf[g]
         /\ \A g \in Functions : \A n \in DOMAIN M.fn[g].body : w # M.fn[g].body[n].id
<1>1. w \in Keys
  BY SharedKeys
<1>2. CASE w \in Globals
  BY <1>1, <1>2 DEF KindsAreDistinct, ClonesAreFresh
<1>3. CASE w \notin Globals
  <2>1. PICK m \in DOMAIN M.fn[f].formals : w = M.fn[f].formals[m]
    BY <1>3 DEF Shared
  <2> QED
    BY <1>1, <2>1 DEF KindsAreDistinct
<1> QED
  BY <1>2, <1>3

\* Nor does an instruction read the metadata of one of them.
LEMMA CurrentIsApart ==
  ASSUME TypeInv, ClonesAreFresh(M), KindsAreDistinct(M), stack # <<>>, Top.pc <= Len(Body),
         NEW w \in Shared(Top.f)
  PROVE  /\ w \in Keys /\ w # Current.id /\ w # Self
         /\ Retrieve(Top.RMap, Current.id).re[w] = Top.RMap.re[w]
<1>1. /\ Current \in Instructions /\ Top.pc \in DOMAIN Body /\ Top.f \in Functions
      /\ Top.RMap \in RMaps /\ M \in Modules
  BY TopType DEF TypeInv, TypeOK
<1>2. w \in Keys /\ w # Current.id /\ w # Self
  <2>1. Current = M.fn[Top.f].body[Top.pc] /\ Top.pc \in DOMAIN M.fn[Top.f].body
    BY <1>1 DEF Current, Body
  <2> QED
    BY <1>1, <2>1, SharedAreApart DEF Self, FCopy
<1>3. Current.id \in Values
  BY <1>1, InstructionType
<1> QED
  BY <1>1, <1>2, <1>3, RetrieveType

\* A callee that is passed none of its own arguments starts with the errors its
\* caller knows.
LEMMA StartedKept ==
  ASSUME M \in Programs, ClonesAreFresh(M), KindsAreDistinct(M),
         NEW below \in RMaps, NEW fcm, NEW f \in Functions, NEW args \in Seq(Keys),
         \A j \in DOMAIN args : args[j] # CopyOf[f],
         \A j \in DOMAIN args : \A m \in DOMAIN M.fn[f].formals : args[j] # M.fn[f].formals[m],
         NEW t, t.f = f, t.Args = args, t.RMap = Started(below, fcm, f, args)
  PROVE  ActualsKept(below, t)
<1>1. M \in Modules
  BY ProgramsAssumption
<1>2. \A v \in Keys : below.re[v] \in RangeErrors
  BY DEF RMaps
<1>3. ASSUME NEW g \in Globals PROVE Risen(below, g, t.RMap, g)
  <2>1. g \in Shared(f)
    BY DEF Shared
  <2>2. g \in Keys /\ g # FCopy(fcm, f)
    BY <1>1, <2>1, SharedAreApart DEF FCopy
  <2>3. \A m \in DOMAIN M.fn[f].formals : g # M.fn[f].formals[m]
    BY DEF KindsAreDistinct
  <2>4. t.RMap.re[g] = below.re[g]
    BY <2>2, <2>3, StartedKeeps
  <2> QED
    BY <1>2, <2>2, <2>4 DEF Risen, Known
<1>4. ASSUME NEW k \in DOMAIN args, k \in DOMAIN M.fn[f].formals, args[k] \notin Functions
      PROVE  Risen(below, args[k], t.RMap, M.fn[f].formals[k])
  <2>1. args[k] # FCopy(fcm, f)
    BY <1>4 DEF FCopy
  <2>2. Known(below.re[args[k]]) => t.RMap.re[M.fn[f].formals[k]] = below.re[args[k]]
    <3>1. \A j \in DOMAIN M.fn[f].formals :
            args[k] = M.fn[f].formals[j] => j >= k /\ M.info[args[k]] = Absent
      BY <1>4
    <3> QED
      BY <1>4, <2>1, <3>1, StartedBinds
  <2>3. args[k] \in Keys
    OBVIOUS
  <2> QED
    BY <1>2, <2>2, <2>3 DEF Risen, Known
<1> QED
  BY <1>3, <1>4 DEF ActualsKept

\* The arguments of a call are not those of the callee, or their origins are.
LEMMA ActualsAreForeign ==
  ASSUME TypeInv, ~PassesOwnArguments, stack # <<>>, Top.pc <= Len(Body), NEW rm,
         Current.callee \in Functions
  PROVE  \A j \in DOMAIN Actuals(rm, Current) : \A m \in DOMAIN M.fn[Current.callee].formals :
           Actuals(rm, Current)[j] # M.fn[Current.callee].formals[m]
<1>1. /\ Current = M.fn[Top.f].body[Top.pc] /\ Top.pc \in DOMAIN M.fn[Top.f].body
      /\ Top.f \in Functions
  BY TopType DEF Current, Body
<1>2. ~OwnArguments(M, Current) /\ Current.callee # Null
  BY <1>1, ConstantsAssumption DEF PassesOwnArguments
<1> SUFFICES ASSUME NEW j \in DOMAIN Actuals(rm, Current),
                    NEW m \in DOMAIN M.fn[Current.callee].formals
             PROVE  Actuals(rm, Current)[j] # M.fn[Current.callee].formals[m]
  OBVIOUS
<1>3. j \in DOMAIN Current.args
  BY DEF Actuals
<1>4. Actuals(rm, Current)[j] \in {Current.args[j], M.origin[Current.args[j]]}
  BY <1>3 DEF Actuals
<1> QED
  BY <1>2, <1>3, <1>4 DEF OwnArguments

\* Every step keeps what the activations know of each other's arguments.
LEMMA KeptInvStep ==
  ASSUME TypeInv, TypeInv', M \in Programs, ClonesAreFresh(M), KindsAreDistinct(M), KeptInv, [Next]_vars
  PROVE  KeptInv'
<1>0. /\ Depth \in Nat /\ stack \in Seq(Activations) /\ M \in Modules
      /\ \A d \in 1..Depth : stack[d] \in Activations /\ stack[d].RMap \in RMaps
                             /\ stack[d].f \in Functions
  <2>1. Depth \in Nat /\ stack \in Seq(Activations) /\ M \in Modules
    BY DEF TypeInv, TypeOK, Depth
  <2>2. \A d \in 1..Depth : stack[d] \in Activations
    BY <2>1 DEF Depth
  <2> QED
    BY <2>1, <2>2 DEF Activations
<1>1. M' = M
  BY DEF Next, vars, SkipFunction, VisitDeclaration, VisitFunction, RestoreMemSSA, Instruction,
         CallDeclaration, CallFunction, AfterCall, LeaveCallee, LeaveFunction, PrintTargetErrors
<1> DEFINE KeptAt(st, d) == ActualsKept(st[d - 1].RMap, st[d])
<1>2. ASSUME ~PassesOwnArguments => \A d \in 2..Len(stack') : KeptAt(stack', d) PROVE KeptInv'
  BY <1>1, <1>2 DEF KeptInv, Depth, ActualsKept, PassesOwnArguments, OwnArguments
<1>3. KeptInv => (~PassesOwnArguments => \A d \in 2..Depth : KeptAt(stack, d))
  BY DEF KeptInv
<1>4. CASE Len(stack') \in {0, 1}
  <2>1. \A d \in 2..Len(stack') : FALSE
    <3>1. CASE Len(stack') = 0
      BY <3>1
    <3>2. CASE Len(stack') = 1
      BY <3>2
    <3> QED
      BY <1>4, <3>1, <3>2
  <2> QED
    BY <1>2, <2>1
<1>5. CASE ~PassesOwnArguments
  <2>0. \A d \in 2..Depth : KeptAt(stack, d)
    BY <1>3, <1>5
  <2>1. ASSUME NEW n \in Nat, n <= Depth, SameBelow(stack', n)
        PROVE  \A d \in 2..n : d < n => KeptAt(stack', d)
    <3> SUFFICES ASSUME NEW d \in 2..n, d < n PROVE KeptAt(stack', d)
      OBVIOUS
    <3>1. /\ d \in 2..Depth /\ d \in 1..n /\ d - 1 \in 1..n /\ d - 1 < n
      BY <1>0, <2>1
    <3>2. stack'[d] = stack[d] /\ stack'[d - 1] = stack[d - 1]
      BY <2>1, <3>1 DEF SameBelow
    <3> QED
      BY <2>0, <3>1, <3>2
  <2>2. ASSUME NEW n \in 2..Depth, SameBelow(stack', n), stack'[n] \in Activations,
               SameFrame(stack'[n], stack[n]),
               \A w \in Shared(stack[n].f) : Risen(stack[n].RMap, w, stack'[n].RMap, w)
        PROVE  KeptAt(stack', n)
    <3>1. n \in 1..Depth /\ n - 1 \in 1..Depth /\ n - 1 \in 1..n /\ n - 1 < n
      BY <1>0
    <3>2. stack'[n - 1] = stack[n - 1]
      BY <2>2, <3>1 DEF SameBelow
    <3>3. ActualsKept(stack[n - 1].RMap, stack[n])
      BY <2>0
    <3> QED
      BY <1>0, <2>2, <3>1, <3>2, <3>3, ActualsStayKept DEF SameFrame
  <2>3. ASSUME stack # <<>>, Top.pc <= Len(Body), SameBelow(stack', Depth),
               stack'[Depth] \in Activations, SameFrame(stack'[Depth], Top),
               stack'[Depth].RMap = Retrieve(Top.RMap, Current.id)
        PROVE  \A d \in 2..Depth : KeptAt(stack', d)
    <3>1. Top = stack[Depth] /\ Top.RMap \in RMaps
      BY <2>3, TopType DEF Top
    <3>2. \A w \in Shared(Top.f) : Risen(Top.RMap, w, stack'[Depth].RMap, w)
      <4> TAKE w \in Shared(Top.f)
      <4>1. w \in Keys /\ stack'[Depth].RMap.re[w] = Top.RMap.re[w]
        BY <2>3, CurrentIsApart
      <4>2. Top.RMap.re[w] \in RangeErrors
        BY <3>1, <4>1 DEF RMaps
      <4> QED
        BY <4>1, <4>2 DEF Risen, Known
    <3>3. ASSUME NEW d \in 2..Depth, d = Depth PROVE KeptAt(stack', d)
      BY <2>2, <2>3, <3>1, <3>2, <3>3
    <3> HIDE DEF KeptAt
    <3> QED
      BY <1>0, <2>1, <2>3, <3>3
  <2>4. CASE SkipFunction \/ UNCHANGED vars
    <3>1. stack' = stack
      BY <2>4 DEF SkipFunction, vars
    <3> QED
      BY <1>2, <2>0, <3>1 DEF Depth
  <2>5. CASE VisitDeclaration \/ PrintTargetErrors
    <3>1. Len(stack') = 0
      BY <2>5 DEF VisitDeclaration, NextFunction, PrintTargetErrors
    <3> QED
      BY <1>4, <3>1
  <2>6. CASE VisitFunction
    BY <1>4, <2>6, VisitFunctionStack
  <2>7. CASE Finishes
    <3>1. /\ stack # <<>> /\ Top.pc <= Len(Body) /\ Len(stack') = Depth
          /\ stack' \in Seq(Activations)
          /\ SameBelow(stack', Depth) /\ SameFrame(stack'[Depth], Top)
      BY <2>7, FinishesStack
    <3>2. PICK rm \in RMaps : /\ rm = Top.RMap \/ rm = Retrieve(Top.RMap, Current.id)
                              /\ stack'[Depth].RMap = Compute(rm, Described(Current), Current, Self)
      BY <2>7, FinishesStack
    <3>3. /\ Top = stack[Depth] /\ Current \in Instructions /\ Self \in Keys
          /\ Depth \in 1..Len(stack')
      BY <1>0, <3>1, TopType DEF Top
    <3>4. \A w \in Shared(Top.f) : Risen(Top.RMap, w, stack'[Depth].RMap, w)
      <4> TAKE w \in Shared(Top.f)
      <4>1. w \in Keys /\ w # Current.id /\ w # Self /\ rm.re[w] = Top.RMap.re[w]
        BY <3>1, <3>2, CurrentIsApart
      <4>2. Risen(rm, w, Compute(rm, Described(Current), Current, Self), w)
        BY <1>0, <3>3, <4>1, ComputeRises
      <4> QED
        BY <3>2, <4>1, <4>2 DEF Risen
    <3>5. ASSUME NEW d \in 2..Depth, d = Depth PROVE KeptAt(stack', d)
      BY <2>2, <3>1, <3>3, <3>4, <3>5
    <3>6. \A d \in 2..Depth : KeptAt(stack', d)
      <4> HIDE DEF KeptAt
      <4> QED
        BY <1>0, <2>1, <3>1, <3>5
    <3> QED
      BY <1>2, <3>1, <3>6
  <2>8. CASE CallDeclaration
    <3>1. /\ stack # <<>> /\ Top.pc <= Len(Body) /\ Len(stack') = Depth
          /\ stack' \in Seq(Activations)
          /\ SameBelow(stack', Depth) /\ SameFrame(stack'[Depth], Top)
          /\ stack'[Depth].RMap = Retrieve(Top.RMap, Current.id)
      BY <2>8, CallDeclarationStack
    <3>2. stack'[Depth] \in Activations
      BY <3>1, TopType
    <3> QED
      BY <1>2, <2>3, <3>1, <3>2
  <2>9. CASE CallFunction
    <3> DEFINE new == stack'[Depth + 1]
               below == stack'[Depth].RMap
    <3>1. PICK f \in Functions :
            /\ f = Current.callee
            /\ stack # <<>> /\ Top.pc <= Len(Body) /\ Len(stack') = Depth + 1
            /\ stack' \in Seq(Activations)
            /\ SameBelow(stack', Depth) /\ SameFrame(stack'[Depth], Top)
            /\ below \in RMaps /\ below = Retrieve(Top.RMap, Current.id)
            /\ new.f = f /\ new.Args \in Seq(Keys) /\ new.Args = Actuals(below, Current)
            /\ new.RMap = Started(below, PrepareFunctionData(FCMap, f), f, new.Args)
      BY <2>9, CallFunctionStack
    <3>2. stack'[Depth] \in Activations
      BY <3>1, TopType
    <3>3. \A d \in 2..Depth : KeptAt(stack', d)
      BY <2>3, <3>1, <3>2
    <3>4. ASSUME NEW d \in 2..Depth + 1, d = Depth + 1 PROVE KeptAt(stack', d)
      <4>1. \A j \in DOMAIN new.Args : new.Args[j] # CopyOf[f]
        BY <3>1, CurrentIsFresh
      <4>2. \A j \in DOMAIN new.Args : \A m \in DOMAIN M.fn[f].formals :
              new.Args[j] # M.fn[f].formals[m]
        BY <1>5, <3>1, ActualsAreForeign
      <4> HIDE DEF new, below
      <4>3. ActualsKept(below, new)
        BY <3>1, <4>1, <4>2, StartedKept
      <4>4. d - 1 = Depth
        BY <1>0, <3>4
      <4>5. stack'[d - 1].RMap = below /\ stack'[d] = new
        BY <3>4, <4>4 DEF new, below
      <4> QED
        BY <4>3, <4>5
    <3>5. \A d \in 2..Depth + 1 : d \in 2..Depth \/ d = Depth + 1
      BY <1>0
    <3> HIDE DEF KeptAt
    <3> QED
      BY <1>2, <3>1, <3>3, <3>4, <3>5
  <2>10. CASE LeaveCallee
    <3>1. /\ stack # <<>> /\ Depth > 1 /\ Len(stack') = Depth - 1
          /\ stack' \in Seq(Activations)
          /\ SameBelow(stack', Depth - 1) /\ SameFrame(stack'[Depth - 1], stack[Depth - 1])
          /\ stack'[Depth - 1].RMap = Merge(stack[Depth - 1].RMap)
      BY <2>10, LeaveCalleeStack
    <3> DEFINE n == Depth - 1
    <3>2. /\ n \in Nat /\ n \in 1..Depth /\ n <= Depth /\ n \in 1..Len(stack') /\ Depth \in 2..Depth
          /\ Top = stack[Depth] /\ Top \in Activations
      BY <1>0, <3>1, TopType DEF Top
    <3>3. stack[n].RMap \in RMaps /\ stack[n].f \in Functions /\ stack'[n] \in Activations
      BY <1>0, <3>1, <3>2
    <3>4. ActualsKept(stack[n].RMap, Top)
      BY <2>0, <3>2
    <3> HIDE DEF n
    <3>5. \A w \in Shared(stack[n].f) : Risen(stack[n].RMap, w, stack'[n].RMap, w)
      <4> TAKE w \in Shared(stack[n].f)
      <4>1. w \in Keys /\ w \notin Functions
        BY <1>0, <3>3, SharedAreApart
      <4>2. Risen(stack[n].RMap, w, Merge(stack[n].RMap), w)
        BY <1>0, <3>1, <3>2, <3>3, <3>4, <4>1, MergeRises
      <4> QED
        BY <3>1, <4>2 DEF n
    <3>6. ASSUME NEW d \in 2..n, d = n PROVE KeptAt(stack', d)
      <4>1. d \in 2..Depth
        BY <1>0, <3>2
      <4> QED
        BY <2>2, <3>1, <3>3, <3>5, <3>6, <4>1 DEF n
    <3>7. \A d \in 2..n : KeptAt(stack', d)
      <4>1. SameBelow(stack', n)
        BY <3>1 DEF n
      <4> HIDE DEF KeptAt
      <4> QED
        BY <2>1, <3>2, <3>6, <4>1
    <3> QED
      BY <1>2, <3>1, <3>7 DEF n
  <2>11. CASE LeaveFunction
    <3>1. Len(stack') = 0
      BY <2>11 DEF LeaveFunction
    <3> QED
      BY <1>4, <3>1
  <2>12. CASE RestoreMemSSA
    <3>1. /\ stack # <<>> /\ Len(stack') = Depth /\ stack' \in Seq(Activations)
          /\ SameBelow(stack', Depth) /\ SameFrame(stack'[Depth], Top)
          /\ stack'[Depth].RMap = Top.RMap
      BY <2>12, RestoreStack
    <3>2. Top = stack[Depth] /\ Top.RMap \in RMaps /\ Depth \in 1..Len(stack')
      BY <1>0, <3>1, TopType DEF Top
    <3>3. \A w \in Shared(Top.f) : Risen(Top.RMap, w, stack'[Depth].RMap, w)
      <4> TAKE w \in Shared(Top.f)
      <4>1. w \in Keys
        BY <1>0, <3>1, <3>2, TopType, SharedKeys
      <4>2. Top.RMap.re[w] \in RangeErrors
        BY <3>2, <4>1 DEF RMaps
      <4> QED
        BY <3>1, <4>2 DEF Risen, Known
    <3>4. ASSUME NEW d \in 2..Depth, d = Depth PROVE KeptAt(stack', d)
      BY <2>2, <3>1, <3>2, <3>3, <3>4
    <3>5. \A d \in 2..Depth : KeptAt(stack', d)
      <4> HIDE DEF KeptAt
      <4> QED
        BY <1>0, <2>1, <3>1, <3>4
    <3> QED
      BY <1>2, <3>1, <3>5
  <2> QED
    BY <2>4, <2>5, <2>6, <2>7, <2>8, <2>9, <2>10, <2>11, <2>12 DEF Next, Finishes
<1> QED
  BY <1>2, <1>5

\* A call lowers no error that the caller knows for a pointer or a global, unless
\* a function is somewhere passed its own arguments (PointerErrorKept).
THEOREM PointersKeepErrors ==
  ASSUME \A P \in Programs : ClonesAreFresh(P) /\ KindsAreDistinct(P)
  PROVE  Spec => PointerErrorKept
<1> DEFINE Kept == \A v \in M.pointers \ Functions :
                     Known(MapBelow(Depth).re[v]) =>
                       /\ Known(Innermost'.re[v])
                       /\ MapBelow(Depth).re[v] <= Innermost'.re[v]
<1>1. Init => KeptInv
  BY DEF Init, KeptInv, Depth
<1>2. TypeInv /\ TypeInv' /\ M \in Programs /\ KeptInv /\ [Next]_vars => KeptInv'
  BY KeptInvStep
<1>3. ASSUME TypeInv, KeptInv, LeaveCallee, ~PassesOwnArguments PROVE Kept
  <2>1. /\ stack # <<>> /\ Depth > 1 /\ Len(stack') = Depth - 1
        /\ stack'[Depth - 1].RMap = Merge(stack[Depth - 1].RMap)
    BY <1>3, LeaveCalleeStack
  <2>2. /\ Depth \in Nat \ {0} /\ Top = stack[Depth] /\ Top \in Activations /\ M \in Modules
        /\ \A d \in 1..Depth : stack[d].RMap \in RMaps
    BY <1>3, <2>1, TopType DEF Top, TypeInv, TypeOK
  <2>3. Depth - 1 \in 1..Depth /\ Depth \in 2..Depth /\ Depth # 1 /\ Depth - 1 # 0
    BY <2>1, <2>2
  <2> DEFINE below == stack[Depth - 1].RMap
  <2>4. below \in RMaps /\ ActualsKept(below, Top)
    BY <1>3, <2>2, <2>3 DEF KeptInv
  <2>5. MapBelow(Depth) = below /\ Innermost' = Merge(below)
    <3>1. stack' # <<>>
      BY <2>1, <2>3
    <3> QED
      BY <2>1, <2>3, <3>1 DEF MapBelow, Innermost, Top, Depth
  <2> HIDE DEF below
  <2>6. ASSUME NEW v \in M.pointers \ Functions PROVE Risen(below, v, Merge(below), v)
    <3>1. v \in Keys /\ v \notin Functions
      BY <2>2 DEF Modules, Keys
    <3> QED
      BY <2>1, <2>2, <2>4, <3>1, MergeRises
  <2> QED
    BY <2>5, <2>6 DEF Risen
<1>4. TypeInv /\ KeptInv /\ [Next]_vars => [LeaveCallee /\ ~PassesOwnArguments => Kept]_vars
  BY <1>3
<1> QED
  BY <1>1, <1>2, <1>4, TypeInvariant, ModuleFixed, PTL DEF Spec, PointerErrorKept
=============================================================================
