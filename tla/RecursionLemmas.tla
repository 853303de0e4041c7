--------------------------- MODULE RecursionLemmas ---------------------------
(***************************************************************************)
(* What the proofs about recursive functions rest on: induction over a set *)
(* of numbers, and the functions that recursions over 0 .. N and Nat define.*)
(* The step of a recursion is a function here, not an operator, so that    *)
(* these facts can be instantiated by every prover.                        *)
(***************************************************************************)
EXTENDS Integers, WellFoundedInduction, TLAPS

\* A nonempty set of natural numbers has a least element.
LEMMA LeastNumber ==
  ASSUME NEW T, T \subseteq Nat, T # {}
  PROVE  \E x \in T : \A y \in T : x <= y
<1> DEFINE Less == {ss \in Nat \X Nat : ss[1] < ss[2]}
<1>1. IsWellFoundedOn(Less, Nat)
  BY NatLessThanWellFounded, Zenon DEF OpToRel
<1> HIDE DEF Less
<1>2. \E x \in T : \A y \in T : ~ (<<y, x>> \in Less)
  BY <1>1, WFMin, Zenon
<1>3. PICK x \in T : \A y \in T : ~ (<<y, x>> \in Less)
  BY <1>2
<1>4. ASSUME NEW y \in T PROVE x <= y
  <2>1. x \in Nat /\ y \in Nat
    OBVIOUS
  <2>2. ~ (y < x)
    BY <2>1, <1>3 DEF Less
  <2> QED
    BY <2>1, <2>2
<1> QED
  BY <1>4

\* A nonempty set of numbers up to a bound has a greatest element.
LEMMA GreatestNumber ==
  ASSUME NEW n \in Nat, NEW T, T \subseteq 0 .. n, T # {}
  PROVE  \E x \in T : \A y \in T : y <= x
<1> DEFINE Mirror == {n - k : k \in T}
<1>1. \A k \in T : k \in Int /\ n - k \in Nat
  OBVIOUS
<1>2. Mirror \subseteq Nat /\ Mirror # {}
  BY <1>1
<1>3. PICK x \in Mirror : \A y \in Mirror : x <= y
  BY <1>2, LeastNumber
<1>4. PICK k \in T : x = n - k
  BY <1>3
<1>5. ASSUME NEW j \in T PROVE j <= k
  <2>1. n - j \in Mirror
    OBVIOUS
  <2> HIDE DEF Mirror
  <2> QED
    BY <2>1, <1>1, <1>3, <1>4
<1> QED
  BY <1>5

\* Induction up to a bound.
LEMMA InductionUpTo ==
  ASSUME NEW N \in Nat, NEW T, 0 \in T, \A n \in 0 .. N : n + 1 \in 0 .. N /\ n \in T => n + 1 \in T
  PROVE  \A n \in 0 .. N : n \in T
<1> SUFFICES ASSUME ~ \A n \in 0 .. N : n \in T PROVE FALSE
  OBVIOUS
<1> DEFINE Missed == {n \in 0 .. N : n \notin T}
<1>1. Missed \subseteq Nat /\ Missed # {}
  OBVIOUS
<1>2. PICK x \in Missed : \A y \in Missed : x <= y
  BY <1>1, LeastNumber
<1>3. x # 0 /\ x \in 0 .. N /\ x - 1 \in 0 .. N /\ (x - 1) + 1 = x
  BY <1>2
<1>4. x - 1 \notin Missed
  BY <1>2, <1>3
<1>5. (x - 1) + 1 \in T
  BY <1>3, <1>4
<1> QED
  BY <1>3, <1>5

\* Induction over the natural numbers.
LEMMA InductionOverNat ==
  ASSUME NEW T, 0 \in T, \A n \in Nat : n \in T => n + 1 \in T
  PROVE  \A n \in Nat : n \in T
<1> SUFFICES ASSUME NEW m \in Nat PROVE m \in T
  OBVIOUS
<1>1. \A n \in 0 .. m : n + 1 \in 0 .. m /\ n \in T => n + 1 \in T
  OBVIOUS
<1>2. \A n \in 0 .. m : n \in T
  BY <1>1, InductionUpTo
<1> QED
  BY <1>2

\* f is computed from base by step, N times.
Computes(f, base, step, N) ==
  /\ f[0] = base
  /\ \A n \in 1 .. N : f[n] = step[n][f[n - 1]]

\* The function a recursion defines: it exists, whatever the step.
LEMMA RecursiveFunction ==
  ASSUME NEW N \in Nat, NEW X, NEW base \in X, NEW step \in [1 .. N -> [X -> X]]
  PROVE  \E f \in [0 .. N -> X] : Computes(f, base, step, N)
<1> DEFINE T == {m \in 0 .. N : \E f \in [0 .. m -> X] : Computes(f, base, step, m)}
<1>1. 0 \in T
  <2> DEFINE g == [n \in 0 .. 0 |-> base]
  <2>1. g \in [0 .. 0 -> X] /\ g[0] = base
    OBVIOUS
  <2>2. \A n \in 1 .. 0 : g[n] = step[n][g[n - 1]]
    OBVIOUS
  <2> HIDE DEF g
  <2>3. \E f \in [0 .. 0 -> X] : Computes(f, base, step, 0)
    BY <2>1, <2>2 DEF Computes
  <2>4. 0 \in 0 .. N
    OBVIOUS
  <2> QED
    BY <2>3, <2>4
<1>2. ASSUME NEW m \in 0 .. N, m + 1 \in 0 .. N, m \in T PROVE m + 1 \in T
  <2>1. PICK f \in [0 .. m -> X] : Computes(f, base, step, m)
    BY <1>2
  <2> DEFINE g == [n \in 0 .. (m + 1) |-> IF n = m + 1 THEN step[m + 1][f[m]] ELSE f[n]]
  <2>2. f[m] \in X /\ step[m + 1] \in [X -> X]
    BY <1>2
  <2>3. step[m + 1][f[m]] \in X
    BY <2>2
  <2>4. g \in [0 .. (m + 1) -> X]
    BY <2>3
  <2>5. g[0] = base
    BY <2>1 DEF Computes
  <2>6. ASSUME NEW n \in 1 .. (m + 1) PROVE g[n] = step[n][g[n - 1]]
    <3>1. n - 1 \in 0 .. m /\ n - 1 # m + 1 /\ g[n - 1] = f[n - 1]
      OBVIOUS
    <3>2. CASE n = m + 1
      BY <3>1, <3>2
    <3>3. CASE n # m + 1
      BY <3>1, <3>3, <2>1 DEF Computes
    <3> QED
      BY <3>2, <3>3
  <2> HIDE DEF g
  <2> QED
    BY <2>4, <2>5, <2>6, <1>2 DEF Computes
<1> HIDE DEF T
<1>3. \A m \in 0 .. N : m \in T
  BY <1>1, <1>2, InductionUpTo
<1> QED
  BY <1>3 DEF T

\* Functions that compute by the same recursion agree.
LEMMA ComputationsAgree ==
  ASSUME NEW M \in Nat, NEW N \in Nat, M <= N, NEW base, NEW s, NEW t, NEW f, NEW g,
         Computes(f, base, s, M), Computes(g, base, t, N), \A n \in 1 .. M : s[n] = t[n]
  PROVE  \A n \in 0 .. M : f[n] = g[n]
<1> DEFINE T == {n \in 0 .. M : f[n] = g[n]}
<1>1. 0 \in T
  BY DEF Computes
<1>2. ASSUME NEW n \in 0 .. M, n + 1 \in 0 .. M, n \in T PROVE n + 1 \in T
  <2>1. n + 1 \in 1 .. M /\ n + 1 \in 1 .. N /\ (n + 1) - 1 = n
    BY <1>2
  <2>2. f[n + 1] = s[n + 1][f[n]] /\ g[n + 1] = t[n + 1][g[n]]
    BY <2>1 DEF Computes
  <2> QED
    BY <1>2, <2>1, <2>2
<1> HIDE DEF T
<1>3. \A n \in 0 .. M : n \in T
  BY <1>1, <1>2, InductionUpTo
<1> QED
  BY <1>3 DEF T

ComputesOnNat(f, base, step) ==
  /\ f[0] = base
  /\ \A n \in Nat : f[n + 1] = step[n + 1][f[n]]

\* A recursion over all natural numbers defines a function too.
LEMMA RecursiveFunctionOnNat ==
  ASSUME NEW X, NEW base \in X, NEW step \in [Nat \ {0} -> [X -> X]]
  PROVE  \E f \in [Nat -> X] : ComputesOnNat(f, base, step)
<1> DEFINE Upto(m) == [n \in 1 .. m |-> step[n]]
           part == [m \in Nat |-> CHOOSE f \in [0 .. m -> X] : Computes(f, base, Upto(m), m)]
           g == [m \in Nat |-> part[m][m]]
<1>1. ASSUME NEW m \in Nat PROVE part[m] \in [0 .. m -> X] /\ Computes(part[m], base, Upto(m), m)
  <2>1. Upto(m) \in [1 .. m -> [X -> X]]
    OBVIOUS
  <2> DEFINE u == Upto(m)
  <2>2. u \in [1 .. m -> [X -> X]]
    BY <2>1
  <2> HIDE DEF u
  <2>3. \E f \in [0 .. m -> X] : Computes(f, base, u, m)
    BY <2>2, RecursiveFunction, Zenon
  <2>4. \E f \in [0 .. m -> X] : Computes(f, base, Upto(m), m)
    BY <2>3 DEF u
  <2>5. part[m] = CHOOSE f \in [0 .. m -> X] : Computes(f, base, Upto(m), m)
    OBVIOUS
  <2> QED
    BY <2>4, <2>5, Zenon
<1> HIDE DEF part
<1>2. ASSUME NEW m \in Nat PROVE g[m + 1] = step[m + 1][g[m]]
  <2> DEFINE p == part[m]
             q == part[m + 1]
             s == Upto(m)
             t == Upto(m + 1)
  <2>1. Computes(p, base, s, m) /\ Computes(q, base, t, m + 1)
    <3>1. Computes(p, base, s, m)
      BY <1>1, Zenon
    <3>2. m + 1 \in Nat
      OBVIOUS
    <3>3. Computes(q, base, t, m + 1)
      BY <1>1, <3>2, Zenon
    <3> QED
      BY <3>1, <3>3
  <2>2. \A n \in 1 .. m : s[n] = t[n]
    OBVIOUS
  <2>3. t[m + 1] = step[m + 1] /\ g[m] = p[m] /\ g[m + 1] = q[m + 1]
    <3>1. m + 1 \in 1 .. (m + 1) /\ m + 1 \in Nat
      OBVIOUS
    <3> QED
      BY <3>1
  <2> HIDE DEF p, q, s, t, g
  <2>4. m + 1 \in Nat /\ m <= m + 1 /\ m \in 0 .. m
    OBVIOUS
  <2>5. \A n \in 0 .. m : p[n] = q[n]
    BY <2>1, <2>2, <2>4, ComputationsAgree
  <2>6. q[m + 1] = t[m + 1][q[m]]
    <3>1. m + 1 \in 1 .. (m + 1) /\ (m + 1) - 1 = m
      OBVIOUS
    <3> QED
      BY <2>1, <3>1 DEF Computes
  <2> QED
    BY <2>3, <2>4, <2>5, <2>6
<1>3. g[0] = base
  <2>1. Computes(part[0], base, Upto(0), 0)
    BY <1>1
  <2> QED
    BY <2>1 DEF Computes
<1>4. g \in [Nat -> X]
  <2>1. ASSUME NEW m \in Nat PROVE part[m][m] \in X
    <3>1. m \in 0 .. m
      OBVIOUS
    <3>2. part[m] \in [0 .. m -> X]
      BY <1>1, Zenon
    <3> QED
      BY <3>1, <3>2
  <2> QED
    BY <2>1
<1> HIDE DEF g
<1> QED
  BY <1>2, <1>3, <1>4 DEF ComputesOnNat

\* No set of elements is led back into itself.
Acyclic(D, next) == \A U \in SUBSET D : (\A x \in U : next[x] \in U) => U = {}

\* Induction along chains that end.
LEMMA ChainInduction ==
  ASSUME NEW S, NEW D \in SUBSET S, NEW next \in [D -> S], Acyclic(D, next),
         NEW T, S \ D \subseteq T, \A x \in D : next[x] \in T => x \in T
  PROVE  S \subseteq T
<1> DEFINE U == S \ T
<1>1. U \in SUBSET D
  OBVIOUS
<1>2. \A x \in U : next[x] \in U
  BY <1>1
<1> HIDE DEF U
<1>3. U = {}
  BY <1>1, <1>2 DEF Acyclic
<1> QED
  BY <1>3 DEF U

\* A function of S computed along chains.
RecursesAlong(f, S, D, next, step, out) ==
  \A x \in S : f[x] = IF x \in D THEN step[x][f[next[x]]] ELSE out[x]

\* Recursion along chains that end defines a function.
LEMMA ChainRecursion ==
  ASSUME NEW S, NEW D \in SUBSET S, NEW next \in [D -> S], Acyclic(D, next),
         NEW R, NEW step \in [D -> [R -> R]], NEW out \in [S -> R]
  PROVE  \E f \in [S -> R] : RecursesAlong(f, S, D, next, step, out)
<1> DEFINE Closed(U) == U \in SUBSET S /\ \A x \in U : x \in D => next[x] \in U
           Good(U, g) == Closed(U) /\ g \in [U -> R] /\ RecursesAlong(g, U, D, next, step, out)
           T == {x \in S : \E U \in SUBSET S : x \in U /\ \E g \in [U -> R] : Good(U, g)}
<1>1. ASSUME NEW U, NEW g, Good(U, g), NEW V, NEW h, Good(V, h)
      PROVE  \A x \in U \cap V : g[x] = h[x]
  <2> DEFINE W == {x \in U \cap V : g[x] # h[x]}
  <2>1. W \in SUBSET D
    BY <1>1 DEF RecursesAlong
  <2>2. ASSUME NEW x \in W PROVE next[x] \in W
    <3>1. x \in D /\ x \in U /\ x \in V /\ g[x] # h[x]
      BY <2>1
    <3>2. next[x] \in U /\ next[x] \in V
      BY <1>1, <3>1
    <3>3. g[x] = step[x][g[next[x]]] /\ h[x] = step[x][h[next[x]]]
      BY <1>1, <3>1 DEF RecursesAlong
    <3>4. g[next[x]] # h[next[x]]
      BY <3>1, <3>3
    <3> QED
      BY <3>2, <3>4
  <2> HIDE DEF W
  <2>3. W = {}
    BY <2>1, <2>2 DEF Acyclic
  <2> QED
    BY <2>3 DEF W
<1>2. ASSUME NEW x \in S \ D PROVE x \in T
  <2> DEFINE g == [y \in {x} |-> out[x]]
  <2>1. Good({x}, g)
    BY <1>2 DEF RecursesAlong
  <2> QED
    BY <2>1
<1>3. ASSUME NEW x \in D, next[x] \in T PROVE x \in T
  <2>1. PICK U \in SUBSET S : next[x] \in U /\ \E g \in [U -> R] : Good(U, g)
    BY <1>3
  <2>2. PICK g \in [U -> R] : Good(U, g)
    BY <2>1
  <2>3. CASE x \in U
    BY <2>2, <2>3
  <2>4. CASE x \notin U
    <3> DEFINE V == U \cup {x}
               h == [y \in V |-> IF y = x THEN step[x][g[next[x]]] ELSE g[y]]
    <3>1. V \in SUBSET S /\ x \in V /\ Closed(V)
      BY <2>1, <2>2
    <3>2. step[x][g[next[x]]] \in R
      BY <2>1, <2>2
    <3>3. h \in [V -> R]
      BY <2>2, <3>2
    <3>4. \A y \in U : h[y] = g[y]
      BY <2>4
    <3>5. h[x] = step[x][h[next[x]]]
      BY <2>1, <3>4
    <3>6. ASSUME NEW y \in U PROVE h[y] = IF y \in D THEN step[y][h[next[y]]] ELSE out[y]
      <4>1. g[y] = IF y \in D THEN step[y][g[next[y]]] ELSE out[y]
        BY <2>2 DEF RecursesAlong
      <4>2. y \in D => next[y] \in U
        BY <2>2
      <4> HIDE DEF h, V
      <4> QED
        BY <3>4, <4>1, <4>2
    <3>7. RecursesAlong(h, V, D, next, step, out)
      <4>1. \A y \in V : h[y] = IF y \in D THEN step[y][h[next[y]]] ELSE out[y]
        <5> HIDE DEF h
        <5> QED
          BY <3>5, <3>6
      <4> HIDE DEF h, V
      <4> QED
        BY <4>1 DEF RecursesAlong
    <3>8. Good(V, h)
      BY <3>1, <3>3, <3>7
    <3> HIDE DEF V, h, Good
    <3> QED
      BY <3>1, <3>3, <3>8
  <2> QED
    BY <2>3, <2>4
<1>4. S \subseteq T
  <2> HIDE DEF T
  <2> QED
    BY <1>2, <1>3, ChainInduction
<1> DEFINE Any(x) == CHOOSE ug \in {ug \in (SUBSET S) \X UNION {[U -> R] : U \in SUBSET S} :
                                      x \in ug[1] /\ Good(ug[1], ug[2])} : TRUE
           f == [x \in S |-> Any(x)[2][x]]
<1>5. ASSUME NEW x \in S
      PROVE  x \in Any(x)[1] /\ Good(Any(x)[1], Any(x)[2])
  <2>1. PICK U \in SUBSET S : x \in U /\ \E g \in [U -> R] : Good(U, g)
    BY <1>4
  <2>2. PICK g \in [U -> R] : Good(U, g)
    BY <2>1
  <2>3. <<U, g>> \in {ug \in (SUBSET S) \X UNION {[V -> R] : V \in SUBSET S} :
                        x \in ug[1] /\ Good(ug[1], ug[2])}
    <3>1. <<U, g>> \in (SUBSET S) \X UNION {[V -> R] : V \in SUBSET S}
      OBVIOUS
    <3> HIDE DEF Good
    <3> QED
      BY <2>1, <2>2, <3>1
  <2> HIDE DEF Good
  <2> QED
    BY <2>3
<1> HIDE DEF Any
<1>6. \A x \in S : \A y \in Any(x)[1] : f[y] = Any(x)[2][y]
  <2> TAKE x \in S
  <2> TAKE y \in Any(x)[1]
  <2>1. y \in S
    BY <1>5
  <2>2. f[y] = Any(y)[2][y] /\ y \in Any(y)[1]
    BY <1>5, <2>1
  <2>3. Good(Any(x)[1], Any(x)[2]) /\ Good(Any(y)[1], Any(y)[2])
    BY <1>5, <2>1
  <2> HIDE DEF Good, f
  <2> QED
    BY <1>1, <2>2, <2>3
<1>7. f \in [S -> R]
  BY <1>5
<1>8. ASSUME NEW x \in S PROVE f[x] = IF x \in D THEN step[x][f[next[x]]] ELSE out[x]
  <2> DEFINE U == Any(x)[1]
             g == Any(x)[2]
  <2>1. x \in U /\ Good(U, g) /\ \A y \in U : f[y] = g[y]
    BY <1>5, <1>6
  <2> HIDE DEF U, g, f
  <2>2. g[x] = IF x \in D THEN step[x][g[next[x]]] ELSE out[x]
    BY <2>1 DEF RecursesAlong
  <2>3. x \in D => next[x] \in U
    BY <2>1
  <2> QED
    BY <2>1, <2>2, <2>3
<1> HIDE DEF f
<1> QED
  BY <1>7, <1>8 DEF RecursesAlong
=============================================================================
