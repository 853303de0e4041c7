-------------------------- MODULE Propagators_proofs --------------------------
(***************************************************************************)
(* Theorems about the arithmetic of errors: for all programs, ranges,      *)
(* initial errors and rounding errors, the errors claimed by the pass      *)
(* cover those of every execution.                                         *)
(***************************************************************************)
EXTENDS Propagators, RecursionLemmas

-----------------------------------------------------------------------------
(* Products of integers.                                                   *)

LEMMA MagnitudeIs ==
  ASSUME NEW a \in Int
  PROVE  /\ Magnitude(a) \in Nat /\ a <= Magnitude(a) /\ -a <= Magnitude(a)
         /\ Magnitude(a) = a \/ Magnitude(a) = -a
         /\ Magnitude(-a) = Magnitude(a)
BY DEF Magnitude

LEMMA ProductNotNegative ==
  ASSUME NEW a \in Int, NEW b \in Int, a >= 0, b >= 0
  PROVE  a * b \in Int /\ a * b >= 0
<1>1. a \in Nat /\ b \in Nat
  OBVIOUS
<1> HIDE <1>1
<1> QED
  BY <1>1

LEMMA ProductGrows ==
  ASSUME NEW a \in Int, NEW b \in Int, NEW c \in Int, a <= b, 0 <= c
  PROVE  c * a <= c * b
<1>1. c * (b - a) >= 0
  BY ProductNotNegative
<1>2. c * (b - a) = c * b - c * a
  OBVIOUS
<1> QED
  BY <1>1, <1>2

LEMMA ProductOfPositives ==
  ASSUME NEW a \in Int, NEW b \in Int, a > 0, b > 0
  PROVE  a * b \in Int /\ a * b > 0
<1>1. a * (b - 1) >= 0
  BY ProductNotNegative
<1>2. a * (b - 1) = a * b - a
  OBVIOUS
<1> QED
  BY <1>1, <1>2

\* A positive factor cancels.
LEMMA FactorCancels ==
  ASSUME NEW a \in Int, NEW b \in Int, NEW c \in Int, c > 0, c * a <= c * b
  PROVE  a <= b
<1> SUFFICES ASSUME a > b PROVE FALSE
  OBVIOUS
<1>1. c * (a - b) > 0
  BY ProductOfPositives
<1>2. c * (a - b) = c * a - c * b
  OBVIOUS
<1> QED
  BY <1>1, <1>2

\* The magnitude of a product, from bounds on those of its factors.
LEMMA MagnitudeOfProduct ==
  ASSUME NEW a \in Int, NEW b \in Int, NEW A \in Int, NEW B \in Int,
         Magnitude(a) <= A, Magnitude(b) <= B
  PROVE  Magnitude(a * b) <= A * B
<1>1. /\ -A <= a /\ a <= A /\ -B <= b /\ b <= B
      /\ A >= 0 /\ B >= 0
  BY MagnitudeIs
<1>2. (A - a) * (B + b) >= 0 /\ (A + a) * (B - b) >= 0
  BY <1>1, ProductNotNegative
<1>3. (A - a) * (B - b) >= 0 /\ (A + a) * (B + b) >= 0
  BY <1>1, ProductNotNegative
<1>4. /\ (A - a) * (B + b) = A * B + A * b - a * B - a * b
      /\ (A + a) * (B - b) = A * B - A * b + a * B - a * b
      /\ (A - a) * (B - b) = A * B - A * b - a * B + a * b
      /\ (A + a) * (B + b) = A * B + A * b + a * B + a * b
  OBVIOUS
<1> DEFINE w == A * B  x == A * b  y == a * B  z == a * b
<1>5. w \in Int /\ x \in Int /\ y \in Int /\ z \in Int
  OBVIOUS
<1>6. /\ w + x - y - z >= 0 /\ w - x + y - z >= 0
      /\ w - x - y + z >= 0 /\ w + x + y + z >= 0
  BY <1>2, <1>3, <1>4
<1> HIDE DEF w, x, y, z
<1>7. z <= w /\ -z <= w
  BY <1>5, <1>6
<1>8. Magnitude(z) <= w
  BY <1>5, <1>7, MagnitudeIs
<1> QED
  BY <1>8 DEF w, z

\* The magnitude of a product is the product of the magnitudes.
LEMMA MagnitudeMultiplies ==
  ASSUME NEW a \in Int, NEW b \in Int
  PROVE  Magnitude(a * b) = Magnitude(a) * Magnitude(b)
<1> DEFINE A == Magnitude(a)  B == Magnitude(b)  z == a * b
<1>1. A \in Int /\ B \in Int /\ A >= 0 /\ B >= 0 /\ z \in Int
  BY MagnitudeIs
<1>2. (A = a \/ A = -a) /\ (B = b \/ B = -b)
  BY MagnitudeIs
<1>3. A * B >= 0
  BY <1>1, ProductNotNegative
<1> HIDE DEF A, B
<1>4. A * B = z \/ A * B = -z
  BY <1>2
<1>5. A * B \in Int
  BY <1>1
<1> DEFINE w == A * B
<1> HIDE DEF w, z
<1>6. Magnitude(z) = w
  BY <1>1, <1>3, <1>4, <1>5 DEF Magnitude, w
<1> QED
  BY <1>6 DEF w, z, A, B

-----------------------------------------------------------------------------
(* Sums of sequences.                                                      *)

Sums(a, sum) ==
  /\ sum \in [0 .. Len(a) -> Int]
  /\ sum[0] = 0
  /\ \A n \in 1 .. Len(a) : sum[n] = sum[n - 1] + a[n]
  /\ Total(a) = sum[Len(a)]

\* The recursion of Total, unfolded.
LEMMA TotalSums ==
  ASSUME NEW a \in Seq(Int)
  PROVE  \E sum : Sums(a, sum)
<1> DEFINE N == Len(a)
           step == [n \in 1 .. N |-> [x \in Int |-> x + a[n]]]
           Rec(r) == r = [n \in 0 .. N |-> IF n = 0 THEN 0 ELSE r[n - 1] + a[n]]
<1>1. N \in Nat /\ \A n \in 1 .. N : a[n] \in Int
  OBVIOUS
<1>2. Total(a) = (CHOOSE r : Rec(r))[N]
  BY DEF Total
<1> HIDE DEF N
<1>3. step \in [1 .. N -> [Int -> Int]]
  BY <1>1
<1>4. 0 \in Int
  OBVIOUS
<1>5. \A n \in 1 .. N : \A x \in Int : step[n][x] = x + a[n]
  OBVIOUS
<1> HIDE DEF step
<1>6. PICK f \in [0 .. N -> Int] : Computes(f, 0, step, N)
  BY <1>1, <1>3, <1>4, RecursiveFunction, Zenon
<1>7. \A n \in 1 .. N : f[n] = f[n - 1] + a[n]
  <2> SUFFICES ASSUME NEW n \in 1 .. N PROVE f[n] = f[n - 1] + a[n]
    OBVIOUS
  <2>1. f[n - 1] \in Int
    BY <1>1
  <2> QED
    BY <1>5, <1>6, <2>1 DEF Computes
<1>8. Rec(f)
  <2>1. \A n \in 0 .. N : n # 0 => n \in 1 .. N
    BY <1>1
  <2>2. f[0] = 0
    BY <1>6 DEF Computes
  <2> QED
    BY <2>1, <2>2, <1>6, <1>7
<1> DEFINE g == CHOOSE r : Rec(r)
<1>9. Rec(g)
  BY <1>8
<1>10. Total(a) = g[N]
  BY <1>2
<1> HIDE DEF g
<1>11. g[0] = 0 /\ \A n \in 1 .. N : g[n] = g[n - 1] + a[n]
  <2>1. 0 \in 0 .. N /\ \A n \in 1 .. N : n \in 0 .. N /\ n # 0
    BY <1>1
  <2> QED
    BY <1>9, <2>1
<1>12. DOMAIN g = 0 .. N /\ g = [n \in 0 .. N |-> g[n]]
  BY <1>9
<1>13. \A n \in 0 .. N : g[n] \in Int
  <2> DEFINE T == {n \in 0 .. N : g[n] \in Int}
  <2>1. 0 \in T
    BY <1>1, <1>11
  <2>2. \A n \in 0 .. N : n + 1 \in 0 .. N /\ n \in T => n + 1 \in T
    <3> SUFFICES ASSUME NEW n \in 0 .. N, n + 1 \in 0 .. N, g[n] \in Int PROVE g[n + 1] \in Int
      OBVIOUS
    <3>1. n + 1 \in 1 .. N /\ (n + 1) - 1 = n
      BY <1>1
    <3>2. a[n + 1] \in Int /\ g[n + 1] = g[n] + a[n + 1]
      BY <3>1, <1>1, <1>11
    <3> QED
      BY <3>2
  <2> HIDE DEF T
  <2>3. \A n \in 0 .. N : n \in T
    BY <1>1, <2>1, <2>2, InductionUpTo
  <2> QED
    BY <2>3 DEF T
<1> QED
  BY <1>10, <1>11, <1>12, <1>13 DEF Sums, N

LEMMA TotalType ==
  ASSUME NEW a \in Seq(Int)
  PROVE  Total(a) \in Int
<1>1. PICK u : Sums(a, u)
  BY TotalSums
<1>2. Len(a) \in 0 .. Len(a)
  OBVIOUS
<1> QED
  BY <1>1, <1>2 DEF Sums

\* Numbers that are at most others have a sum that is at most theirs.
LEMMA TotalGrows ==
  ASSUME NEW a \in Seq(Int), NEW b \in Seq(Int), Len(a) = Len(b),
         \A k \in 1 .. Len(a) : a[k] <= b[k]
  PROVE  Total(a) <= Total(b)
<1>1. PICK u : Sums(a, u)
  BY TotalSums
<1>2. PICK v : Sums(b, v)
  BY TotalSums
<1> DEFINE N == Len(a)
           T == {n \in 0 .. N : u[n] <= v[n]}
<1>3. N \in Nat /\ N \in 0 .. N /\ \A n \in 1 .. N : a[n] \in Int /\ b[n] \in Int /\ a[n] <= b[n]
  OBVIOUS
<1>4. /\ u[0] = 0 /\ v[0] = 0 /\ \A n \in 0 .. N : u[n] \in Int /\ v[n] \in Int
      /\ \A n \in 1 .. N : u[n] = u[n - 1] + a[n] /\ v[n] = v[n - 1] + b[n]
      /\ Total(a) = u[N] /\ Total(b) = v[N]
  BY <1>1, <1>2 DEF Sums
<1> HIDE DEF N
<1>5. 0 \in T
  BY <1>3, <1>4
<1>6. \A n \in 0 .. N : n + 1 \in 0 .. N /\ n \in T => n + 1 \in T
  <2> SUFFICES ASSUME NEW n \in 0 .. N, n + 1 \in 0 .. N, u[n] <= v[n]
               PROVE  u[n + 1] <= v[n + 1]
    OBVIOUS
  <2>1. n + 1 \in 1 .. N /\ (n + 1) - 1 = n
    BY <1>3
  <2>2. u[n + 1] = u[n] + a[n + 1] /\ v[n + 1] = v[n] + b[n + 1]
    BY <1>4, <2>1
  <2>3. u[n] \in Int /\ v[n] \in Int /\ a[n + 1] \in Int /\ b[n + 1] \in Int /\ a[n + 1] <= b[n + 1]
    BY <1>3, <1>4, <2>1
  <2> QED
    BY <2>2, <2>3
<1> HIDE DEF T
<1>7. \A n \in 0 .. N : n \in T
  BY <1>3, <1>5, <1>6, InductionUpTo
<1> QED
  BY <1>3, <1>4, <1>7 DEF T

\* A sum of multiples.
LEMMA TotalMultiplies ==
  ASSUME NEW a \in Seq(Int), NEW b \in Seq(Int), NEW c \in Int, Len(a) = Len(b),
         \A k \in 1 .. Len(a) : b[k] = c * a[k]
  PROVE  Total(b) = c * Total(a)
<1>1. PICK u : Sums(a, u)
  BY TotalSums
<1>2. PICK v : Sums(b, v)
  BY TotalSums
<1> DEFINE N == Len(a)
           T == {n \in 0 .. N : v[n] = c * u[n]}
<1>3. N \in Nat /\ N \in 0 .. N /\ \A n \in 1 .. N : a[n] \in Int /\ b[n] = c * a[n]
  OBVIOUS
<1>4. /\ u[0] = 0 /\ v[0] = 0 /\ \A n \in 0 .. N : u[n] \in Int /\ v[n] \in Int
      /\ \A n \in 1 .. N : u[n] = u[n - 1] + a[n] /\ v[n] = v[n - 1] + b[n]
      /\ Total(a) = u[N] /\ Total(b) = v[N]
  BY <1>1, <1>2 DEF Sums
<1> HIDE DEF N
<1>5. 0 \in T
  <2>1. c * 0 = 0
    OBVIOUS
  <2> QED
    BY <1>3, <1>4, <2>1
<1>6. \A n \in 0 .. N : n + 1 \in 0 .. N /\ n \in T => n + 1 \in T
  <2> SUFFICES ASSUME NEW n \in 0 .. N, n + 1 \in 0 .. N, v[n] = c * u[n]
               PROVE  v[n + 1] = c * u[n + 1]
    OBVIOUS
  <2>1. n + 1 \in 1 .. N /\ (n + 1) - 1 = n
    BY <1>3
  <2>2. u[n + 1] = u[n] + a[n + 1] /\ v[n + 1] = c * u[n] + c * a[n + 1]
    BY <1>3, <1>4, <2>1
  <2>3. u[n] \in Int /\ a[n + 1] \in Int
    BY <1>3, <1>4, <2>1
  <2>4. c * (u[n] + a[n + 1]) = c * u[n] + c * a[n + 1]
    BY <2>3
  <2> QED
    BY <2>2, <2>4
<1> HIDE DEF T
<1>7. \A n \in 0 .. N : n \in T
  BY <1>3, <1>5, <1>6, InductionUpTo
<1> QED
  BY <1>3, <1>4, <1>7 DEF T

\* Numbers that are all zero.
LEMMA TotalOfZeros ==
  ASSUME NEW a \in Seq(Int), \A k \in 1 .. Len(a) : a[k] = 0
  PROVE  Total(a) = 0
<1>1. \A k \in 1 .. Len(a) : a[k] = 0 * a[k]
  OBVIOUS
<1>2. Total(a) = 0 * Total(a)
  BY <1>1, TotalMultiplies
<1> QED
  BY <1>2, TotalType

\* One number more.
LEMMA TotalOfAppended ==
  ASSUME NEW a \in Seq(Int), NEW b \in Seq(Int), Len(b) = Len(a) + 1,
         \A k \in 1 .. Len(a) : b[k] = a[k]
  PROVE  Total(b) = Total(a) + b[Len(b)]
<1>1. PICK u : Sums(a, u)
  BY TotalSums
<1>2. PICK v : Sums(b, v)
  BY TotalSums
<1> DEFINE N == Len(a)
           T == {n \in 0 .. N : u[n] = v[n]}
<1>3. N \in Nat /\ N \in 0 .. N /\ \A n \in 1 .. N : a[n] = b[n] /\ n \in 1 .. Len(b)
  OBVIOUS
<1>4. /\ u[0] = 0 /\ v[0] = 0
      /\ \A n \in 1 .. N : u[n] = u[n - 1] + a[n] /\ v[n] = v[n - 1] + b[n]
      /\ Total(a) = u[N] /\ Total(b) = v[Len(b)] /\ v[Len(b)] = v[N] + b[Len(b)]
  <2>1. Len(b) \in 1 .. Len(b) /\ Len(b) - 1 = N
    OBVIOUS
  <2> QED
    BY <1>1, <1>2, <1>3, <2>1 DEF Sums
<1> HIDE DEF N
<1>5. 0 \in T
  BY <1>3, <1>4
<1>6. \A n \in 0 .. N : n + 1 \in 0 .. N /\ n \in T => n + 1 \in T
  <2> SUFFICES ASSUME NEW n \in 0 .. N, n + 1 \in 0 .. N, u[n] = v[n]
               PROVE  u[n + 1] = v[n + 1]
    OBVIOUS
  <2>1. n + 1 \in 1 .. N /\ (n + 1) - 1 = n
    BY <1>3
  <2> QED
    BY <1>3, <1>4, <2>1
<1> HIDE DEF T
<1>7. \A n \in 0 .. N : n \in T
  BY <1>3, <1>5, <1>6, InductionUpTo
<1> QED
  BY <1>3, <1>4, <1>7 DEF T

-----------------------------------------------------------------------------
(* Sequences of noise terms.  A symbol can occur more than once, because   *)
(* products give all terms of an error one symbol; the merge then matches  *)
(* the first occurrence with the first, the second with the second and so  *)
(* on.  What stands for an unknown is therefore a symbol and a place among *)
(* the terms with that symbol.                                             *)

NoiseTerms == [symbol : Nat, magnitude : Int]

Sorted(xi) == \A k \in 1 .. Len(xi) - 1 : xi[k].symbol <= xi[k + 1].symbol

Forms == {f \in [x0 : Int, xi : Seq(NoiseTerms)] : Sorted(f.xi)}

Below(xi, s) == \A k \in 1 .. Len(xi) : xi[k].symbol < s

\* How often every symbol occurs among the first terms.
Counting(xi) ==
  [n \in 1 .. Len(xi) |->
    [c \in [Nat -> Nat] |-> [t \in Nat |-> IF t = xi[n].symbol THEN c[t] + 1 ELSE c[t]]]]

Counts(xi) ==
  CHOOSE c \in [0 .. Len(xi) -> [Nat -> Nat]] :
    Computes(c, [t \in Nat |-> 0], Counting(xi), Len(xi))

Place(xi, k) == Counts(xi)[k - 1][xi[k].symbol]

IsCounts(c, xi) ==
  /\ c \in [0 .. Len(xi) -> [Nat -> Nat]]
  /\ \A t \in Nat : c[0][t] = 0
  /\ \A n \in 1 .. Len(xi) : \A t \in Nat :
       c[n][t] = IF t = xi[n].symbol THEN c[n - 1][t] + 1 ELSE c[n - 1][t]

LEMMA CountsComputed ==
  ASSUME NEW xi \in Seq(NoiseTerms)
  PROVE  /\ Counts(xi) \in [0 .. Len(xi) -> [Nat -> Nat]]
         /\ Computes(Counts(xi), [t \in Nat |-> 0], Counting(xi), Len(xi))
<1> DEFINE X == [Nat -> Nat]
           step == Counting(xi)
           base == [t \in Nat |-> 0]
           N == Len(xi)
<1>1. N \in Nat /\ base \in X
  OBVIOUS
<1>2. step \in [1 .. N -> [X -> X]]
  <2>1. ASSUME NEW n \in 1 .. N, NEW c \in X
        PROVE  [t \in Nat |-> IF t = xi[n].symbol THEN c[t] + 1 ELSE c[t]] \in X
    <3>1. \A t \in Nat : c[t] \in Nat
      OBVIOUS
    <3>2. ASSUME NEW t \in Nat
          PROVE  (IF t = xi[n].symbol THEN c[t] + 1 ELSE c[t]) \in Nat
      <4> DEFINE k == c[t]
      <4>1. k \in Nat
        BY <3>1
      <4> HIDE DEF k
      <4>2. k + 1 \in Nat
        BY <4>1
      <4> QED
        BY <4>1, <4>2, Zenon DEF k
    <3> QED
      BY <3>2
  <2> QED
    BY <2>1 DEF Counting
<1> HIDE DEF X, step, base, N
<1>3. \E c \in [0 .. N -> X] : Computes(c, base, step, N)
  BY <1>1, <1>2, RecursiveFunction, Zenon
<1>4. \E c \in [0 .. Len(xi) -> [Nat -> Nat]] :
        Computes(c, [t \in Nat |-> 0], Counting(xi), Len(xi))
  BY <1>3 DEF X, step, base, N
<1> QED
  BY <1>4, Zenon DEF Counts

LEMMA CountsIs ==
  ASSUME NEW xi \in Seq(NoiseTerms)
  PROVE  IsCounts(Counts(xi), xi)
<1> DEFINE c == Counts(xi)
<1>1. c \in [0 .. Len(xi) -> [Nat -> Nat]] /\ Len(xi) \in Nat
  BY CountsComputed
<1>2. Computes(c, [t \in Nat |-> 0], Counting(xi), Len(xi))
  BY CountsComputed
<1> HIDE DEF c
<1>3. \A t \in Nat : c[0][t] = 0
  BY <1>2 DEF Computes
<1>4. ASSUME NEW n \in 1 .. Len(xi), NEW t \in Nat
      PROVE  c[n][t] = IF t = xi[n].symbol THEN c[n - 1][t] + 1 ELSE c[n - 1][t]
  <2>1. n - 1 \in 0 .. Len(xi)
    BY <1>1
  <2>2. c[n - 1] \in [Nat -> Nat]
    BY <1>1, <2>1
  <2>3. c[n] = Counting(xi)[n][c[n - 1]]
    BY <1>2 DEF Computes
  <2> QED
    BY <2>2, <2>3 DEF Counting
<1> QED
  BY <1>1, <1>3, <1>4 DEF IsCounts, c

LEMMA PlaceType ==
  ASSUME NEW xi \in Seq(NoiseTerms), NEW k \in 1 .. Len(xi)
  PROVE  xi[k].symbol \in Nat /\ xi[k].magnitude \in Int /\ Place(xi, k) \in Nat
<1>1. xi[k] \in NoiseTerms /\ k - 1 \in 0 .. Len(xi)
  OBVIOUS
<1>2. xi[k].symbol \in Nat /\ xi[k].magnitude \in Int
  BY <1>1 DEF NoiseTerms
<1>3. Counts(xi)[k - 1] \in [Nat -> Nat]
  BY <1>1, CountsIs DEF IsCounts
<1> QED
  BY <1>2, <1>3 DEF Place

\* Terms of one sequence with the same symbol have different places.
LEMMA PlacesDiffer ==
  ASSUME NEW xi \in Seq(NoiseTerms), NEW k \in 1 .. Len(xi), NEW l \in 1 .. Len(xi), k < l,
         xi[k].symbol = xi[l].symbol
  PROVE  Place(xi, k) < Place(xi, l)
<1> DEFINE c == Counts(xi)
           t == xi[k].symbol
           N == Len(xi)
           T == {n \in 0 .. N : n >= k => c[k - 1][t] < c[n][t]}
<1>1. IsCounts(c, xi) /\ t \in Nat /\ N \in Nat /\ k \in 1 .. N /\ l \in 1 .. N
  BY CountsIs, PlaceType
<1>2. Place(xi, k) = c[k - 1][t] /\ Place(xi, l) = c[l - 1][t]
  BY DEF Place
<1> HIDE DEF c, t
<1>3. /\ \A n \in 0 .. N : c[n][t] \in Nat
      /\ \A n \in 1 .. N : c[n][t] = IF t = xi[n].symbol THEN c[n - 1][t] + 1 ELSE c[n - 1][t]
  <2>1. ASSUME NEW n \in 0 .. N PROVE c[n][t] \in Nat
    <3>1. c[n] \in [Nat -> Nat]
      BY <1>1 DEF IsCounts
    <3> QED
      BY <1>1, <3>1
  <2> QED
    BY <1>1, <2>1 DEF IsCounts
<1>4. t = xi[k].symbol
  BY DEF t
<1> HIDE DEF N
<1>5. 0 \in T
  BY <1>1
<1>6. \A n \in 0 .. N : n + 1 \in 0 .. N /\ n \in T => n + 1 \in T
  <2> SUFFICES ASSUME NEW n \in 0 .. N, n + 1 \in 0 .. N, n >= k => c[k - 1][t] < c[n][t],
                      n + 1 >= k
               PROVE  c[k - 1][t] < c[n + 1][t]
    OBVIOUS
  <2>1. n + 1 \in 1 .. N /\ (n + 1) - 1 = n /\ k - 1 \in 0 .. N
    BY <1>1
  <2>2. c[n + 1][t] = IF t = xi[n + 1].symbol THEN c[n][t] + 1 ELSE c[n][t]
    BY <1>3, <2>1
  <2>3. c[n][t] \in Nat /\ c[k - 1][t] \in Nat
    BY <1>3, <2>1
  <2>4. CASE n >= k
    BY <2>2, <2>3, <2>4
  <2>5. CASE n + 1 = k
    <3>1. n = k - 1 /\ xi[n + 1].symbol = t
      BY <1>1, <1>4, <2>5
    <3> QED
      BY <2>2, <2>3, <3>1
  <2> QED
    BY <1>1, <2>4, <2>5
<1> HIDE DEF T
<1>7. \A n \in 0 .. N : n \in T
  BY <1>1, <1>5, <1>6, InductionUpTo
<1>8. l - 1 \in 0 .. N /\ l - 1 >= k
  BY <1>1
<1> QED
  BY <1>2, <1>7, <1>8 DEF T

\* Places depend on symbols only.
LEMMA PlacesAgree ==
  ASSUME NEW xi \in Seq(NoiseTerms), NEW yi \in Seq(NoiseTerms), Len(xi) = Len(yi),
         \A k \in 1 .. Len(xi) : xi[k].symbol = yi[k].symbol
  PROVE  \A k \in 1 .. Len(xi) : Place(xi, k) = Place(yi, k)
<1> DEFINE c == Counts(xi)
           d == Counts(yi)
           u == Counting(xi)
           v == Counting(yi)
           base == [t \in Nat |-> 0]
           N == Len(xi)
<1>1. N \in Nat /\ N <= N /\ N = Len(yi)
  OBVIOUS
<1>2. Computes(c, base, u, N) /\ Computes(d, base, v, N)
  BY CountsComputed
<1>3. \A n \in 1 .. N : u[n] = v[n]
  BY DEF Counting
<1> HIDE DEF c, d, u, v, base, N
<1>4. \A n \in 0 .. N : c[n] = d[n]
  BY <1>1, <1>2, <1>3, ComputationsAgree
<1>5. \A k \in 1 .. N : k - 1 \in 0 .. N
  BY <1>1
<1> QED
  BY <1>4, <1>5 DEF Place, c, d, N

\* The value of a sum of noise terms, for an assignment to the unknowns.
Assignments == [Nat -> [Nat -> Int]]

ValueTerms(eps, xi) ==
  [k \in 1 .. Len(xi) |-> eps[xi[k].symbol][Place(xi, k)] * xi[k].magnitude]

Value(eps, xi) == Total(ValueTerms(eps, xi))

Magnitudes(xi) == [k \in 1 .. Len(xi) |-> Magnitude(xi[k].magnitude)]

LEMMA ValueTermsType ==
  ASSUME NEW eps \in Assignments, NEW xi \in Seq(NoiseTerms)
  PROVE  /\ ValueTerms(eps, xi) \in Seq(Int) /\ Len(ValueTerms(eps, xi)) = Len(xi)
         /\ Value(eps, xi) \in Int
         /\ \A k \in 1 .. Len(xi) : eps[xi[k].symbol][Place(xi, k)] \in Int
<1>1. ASSUME NEW k \in 1 .. Len(xi)
      PROVE  eps[xi[k].symbol][Place(xi, k)] \in Int /\ xi[k].magnitude \in Int
  <2>1. eps[xi[k].symbol] \in [Nat -> Int]
    BY PlaceType DEF Assignments
  <2> QED
    BY <2>1, PlaceType
<1>2. ASSUME NEW k \in 1 .. Len(xi)
      PROVE  eps[xi[k].symbol][Place(xi, k)] * xi[k].magnitude \in Int
  BY <1>1
<1>3. ValueTerms(eps, xi) \in Seq(Int) /\ Len(ValueTerms(eps, xi)) = Len(xi)
  <2>1. Len(xi) \in Nat
    OBVIOUS
  <2> QED
    BY <1>2, <2>1 DEF ValueTerms
<1> QED
  BY <1>1, <1>3, TotalType DEF Value

LEMMA AbsSumIs ==
  ASSUME NEW f, f.xi \in Seq(NoiseTerms)
  PROVE  /\ Magnitudes(f.xi) \in Seq(Int) /\ Len(Magnitudes(f.xi)) = Len(f.xi)
         /\ noiseTermsAbsSum(f) = Total(Magnitudes(f.xi))
         /\ noiseTermsAbsSum(f) \in Int /\ noiseTermsAbsSum(f) >= 0
<1> DEFINE xi == f.xi
<1>1. ASSUME NEW k \in 1 .. Len(xi) PROVE Magnitude(xi[k].magnitude) \in Nat
  BY PlaceType, MagnitudeIs
<1>2. DOMAIN xi = 1 .. Len(xi) /\ Len(xi) \in Nat
  OBVIOUS
<1>3. noiseTermsAbsSum(f) = Total(Magnitudes(xi))
  BY <1>2 DEF noiseTermsAbsSum, Magnitudes
<1>4. Magnitudes(xi) \in Seq(Int) /\ Len(Magnitudes(xi)) = Len(xi)
  BY <1>1, <1>2 DEF Magnitudes
<1> DEFINE a == Magnitudes(xi)
           z == [k \in 1 .. Len(xi) |-> 0]
<1>5. z \in Seq(Int) /\ Len(z) = Len(a) /\ \A k \in 1 .. Len(z) : z[k] = 0
  BY <1>2, <1>4
<1>6. \A k \in 1 .. Len(z) : z[k] <= a[k]
  BY <1>1, <1>4, <1>5 DEF Magnitudes
<1> HIDE DEF a, z
<1>7. Total(z) = 0
  BY <1>5, TotalOfZeros
<1>8. Total(z) <= Total(a)
  BY <1>4, <1>5, <1>6, TotalGrows DEF a
<1>9. Total(a) \in Int
  BY <1>4, TotalType DEF a
<1> QED
  BY <1>3, <1>4, <1>7, <1>8, <1>9 DEF a

-----------------------------------------------------------------------------
(* The walk of the merges.                                                 *)

Positions(xs, ys) == [this : 1 .. Len(xs) + 1, other : 1 .. Len(ys) + 1]
Start == [this |-> 1, other |-> 1]
End(xs, ys) == [this |-> Len(xs) + 1, other |-> Len(ys) + 1]

\* w holds the positions of a walk, of which the step after last is the end.
Walks(xs, ys, w, last) ==
  /\ last \in 0 .. Len(xs) + Len(ys)
  /\ w \in [0 .. Len(xs) + Len(ys) -> Positions(xs, ys)]
  /\ w[0] = Start /\ w[last] = End(xs, ys)
  /\ \A n \in 1 .. Len(xs) + Len(ys) : w[n] = Advance(xs, ys, w[n - 1])
  /\ \A n \in 0 .. last - 1 : w[n] # End(xs, ys)
  /\ Steps(xs, ys) = [n \in 1 .. last |-> w[n - 1]]

LEMMA AdvanceType ==
  ASSUME NEW xs \in Seq(NoiseTerms), NEW ys \in Seq(NoiseTerms), NEW at \in Positions(xs, ys)
  PROVE  /\ Advance(xs, ys, at) \in Positions(xs, ys)
         /\ Advance(xs, ys, at).this = IF TakesThis(xs, ys, at) THEN at.this + 1 ELSE at.this
         /\ Advance(xs, ys, at).other = IF TakesOther(xs, ys, at) THEN at.other + 1 ELSE at.other
<1>1. Len(xs) \in Nat /\ Len(ys) \in Nat
  OBVIOUS
<1>2. at.this \in 1 .. Len(xs) + 1 /\ at.other \in 1 .. Len(ys) + 1
  BY DEF Positions
<1> QED
  BY <1>1, <1>2 DEF Advance, TakesThis, TakesOther, Positions

\* A walk that has not ended takes a term.
LEMMA TakesATerm ==
  ASSUME NEW xs \in Seq(NoiseTerms), NEW ys \in Seq(NoiseTerms), NEW at \in Positions(xs, ys),
         at # End(xs, ys)
  PROVE  TakesThis(xs, ys, at) \/ TakesOther(xs, ys, at)
<1>1. Len(xs) \in Nat /\ Len(ys) \in Nat
  OBVIOUS
<1>2. at.this \in 1 .. Len(xs) + 1 /\ at.other \in 1 .. Len(ys) + 1
      /\ at = [this |-> at.this, other |-> at.other]
  BY DEF Positions
<1>3. at.this <= Len(xs) \/ at.other <= Len(ys)
  BY <1>1, <1>2 DEF End
<1>4. CASE at.this <= Len(xs) /\ at.other <= Len(ys)
  <2>1. at.this \in 1 .. Len(xs) /\ at.other \in 1 .. Len(ys)
    BY <1>1, <1>2, <1>4
  <2>2. xs[at.this].symbol \in Nat /\ ys[at.other].symbol \in Nat
    BY <2>1, PlaceType
  <2> QED
    BY <1>4, <2>2 DEF TakesThis, TakesOther
<1> QED
  BY <1>1, <1>2, <1>3, <1>4 DEF TakesThis, TakesOther

\* The recursion of Steps, unfolded: the walk ends.
LEMMA StepsWalk ==
  ASSUME NEW xs \in Seq(NoiseTerms), NEW ys \in Seq(NoiseTerms)
  PROVE  \E w, last : Walks(xs, ys, w, last)
<1> DEFINE N == Len(xs) + Len(ys)
           X == Positions(xs, ys)
           e == End(xs, ys)
           step == [n \in 1 .. N |-> [at \in X |-> Advance(xs, ys, at)]]
           Rec(r) == r = [n \in 0 .. N |-> IF n = 0 THEN Start ELSE Advance(xs, ys, r[n - 1])]
           g == CHOOSE r : Rec(r)
           Stops(n) == g[n] = e /\ \A m \in 0 .. n - 1 : g[m] # e
           last == CHOOSE n \in 0 .. N : Stops(n)
<1>1. N \in Nat /\ Start \in X /\ Len(xs) \in Nat /\ Len(ys) \in Nat
  BY DEF Start, Positions
<1>2. Steps(xs, ys) = [n \in 1 .. last |-> g[n - 1]]
  BY Zenon DEF Steps, Start, End
<1> HIDE DEF N
<1>3. step \in [1 .. N -> [X -> X]]
  BY AdvanceType
<1>4. \A n \in 1 .. N : \A at \in X : step[n][at] = Advance(xs, ys, at)
  OBVIOUS
<1> HIDE DEF step, X
<1>5. PICK f \in [0 .. N -> X] : Computes(f, Start, step, N)
  BY <1>1, <1>3, RecursiveFunction, Zenon
<1>6. \A n \in 1 .. N : f[n] = Advance(xs, ys, f[n - 1])
  <2> SUFFICES ASSUME NEW n \in 1 .. N PROVE f[n] = Advance(xs, ys, f[n - 1])
    OBVIOUS
  <2>1. f[n - 1] \in X
    <3>1. n - 1 \in 0 .. N
      BY <1>1
    <3> QED
      BY <3>1, <1>5
  <2> QED
    BY <1>4, <1>5, <2>1 DEF Computes
<1>7. Rec(f)
  <2>1. \A n \in 0 .. N : n # 0 => n \in 1 .. N
    BY <1>1
  <2>2. f[0] = Start
    BY <1>5 DEF Computes
  <2> QED
    BY <2>1, <2>2, <1>5, <1>6
<1>8. Rec(g)
  BY <1>7, Zenon
<1> HIDE DEF g
<1>9. g[0] = Start /\ \A n \in 1 .. N : g[n] = Advance(xs, ys, g[n - 1])
  <2>1. 0 \in 0 .. N /\ \A n \in 1 .. N : n \in 0 .. N /\ n # 0
    BY <1>1
  <2> QED
    BY <1>8, <2>1
<1>10. DOMAIN g = 0 .. N /\ g = [n \in 0 .. N |-> g[n]]
  BY <1>8
<1>11. \A n \in 0 .. N : g[n] \in X
  <2> DEFINE T == {n \in 0 .. N : g[n] \in X}
  <2>1. 0 \in T
    BY <1>1, <1>9
  <2>2. \A n \in 0 .. N : n + 1 \in 0 .. N /\ n \in T => n + 1 \in T
    <3> SUFFICES ASSUME NEW n \in 0 .. N, n + 1 \in 0 .. N, g[n] \in X PROVE g[n + 1] \in X
      OBVIOUS
    <3>1. n + 1 \in 1 .. N /\ (n + 1) - 1 = n
      BY <1>1
    <3>2. g[n + 1] = Advance(xs, ys, g[n])
      BY <1>9, <3>1
    <3> QED
      BY <3>2, AdvanceType DEF X
  <2> HIDE DEF T
  <2>3. \A n \in 0 .. N : n \in T
    BY <1>1, <2>1, <2>2, InductionUpTo
  <2> QED
    BY <2>3 DEF T
<1>12. \A n \in 0 .. N : g[n] = e \/ g[n].this + g[n].other >= n + 2
  <2> DEFINE T == {n \in 0 .. N : g[n] = e \/ g[n].this + g[n].other >= n + 2}
  <2>1. 0 \in T
    BY <1>1, <1>9 DEF Start
  <2>2. \A n \in 0 .. N : n + 1 \in 0 .. N /\ n \in T => n + 1 \in T
    <3> SUFFICES ASSUME NEW n \in 0 .. N, n + 1 \in 0 .. N,
                        g[n] = e \/ g[n].this + g[n].other >= n + 2
                 PROVE  g[n + 1] = e \/ g[n + 1].this + g[n + 1].other >= n + 3
      BY <1>1
    <3> DEFINE at == g[n]  to == g[n + 1]
    <3>1. n + 1 \in 1 .. N /\ (n + 1) - 1 = n
      BY <1>1
    <3>2. at \in Positions(xs, ys) /\ to = Advance(xs, ys, at)
      BY <1>9, <1>11, <3>1 DEF X
    <3>3. at = e \/ at.this + at.other >= n + 2
      OBVIOUS
    <3> HIDE DEF at, to
    <3>4. at.this \in Nat /\ at.other \in Nat
      BY <1>1, <3>2 DEF Positions
    <3>5. CASE at = e
      <4>1. ~ TakesThis(xs, ys, at) /\ ~ TakesOther(xs, ys, at)
        BY <1>1, <3>5 DEF TakesThis, TakesOther, End
      <4>2. to = e
        BY <3>2, <3>5, <4>1 DEF Advance, End
      <4> QED
        BY <4>2 DEF to
    <3>6. CASE at # e
      <4>1. TakesThis(xs, ys, at) \/ TakesOther(xs, ys, at)
        BY <3>2, <3>6, TakesATerm
      <4>2. /\ to.this = IF TakesThis(xs, ys, at) THEN at.this + 1 ELSE at.this
            /\ to.other = IF TakesOther(xs, ys, at) THEN at.other + 1 ELSE at.other
        BY <3>2, AdvanceType
      <4>3. to.this + to.other >= n + 3
        BY <3>3, <3>4, <3>6, <4>1, <4>2
      <4> QED
        BY <4>3 DEF to
    <3> QED
      BY <3>5, <3>6
  <2> HIDE DEF T
  <2>3. \A n \in 0 .. N : n \in T
    BY <1>1, <2>1, <2>2, InductionUpTo
  <2> QED
    BY <2>3 DEF T
<1>13. g[N] = e
  <2>1. N \in 0 .. N /\ g[N] \in Positions(xs, ys)
    BY <1>1, <1>11 DEF X
  <2>2. /\ g[N].this \in 1 .. Len(xs) + 1 /\ g[N].other \in 1 .. Len(ys) + 1
        /\ g[N] = [this |-> g[N].this, other |-> g[N].other]
    BY <2>1 DEF Positions
  <2>3. g[N] = e \/ (g[N].this = Len(xs) + 1 /\ g[N].other = Len(ys) + 1)
    BY <1>1, <1>12, <2>1, <2>2 DEF N
  <2> QED
    BY <2>2, <2>3 DEF End
<1>14. \E n \in 0 .. N : Stops(n)
  <2> DEFINE T == {n \in 0 .. N : g[n] = e}
  <2>1. T \subseteq Nat /\ T # {}
    BY <1>1, <1>13
  <2>2. PICK n \in T : \A m \in T : n <= m
    BY <2>1, LeastNumber
  <2>3. \A m \in 0 .. n - 1 : m \in 0 .. N /\ m < n
    BY <1>1, <2>1
  <2>4. \A m \in 0 .. n - 1 : g[m] # e
    BY <1>1, <2>2, <2>3
  <2> QED
    BY <2>4
<1>15. last \in 0 .. N /\ Stops(last)
  BY <1>14, Zenon
<1> HIDE DEF last, e
<1> QED
  BY <1>2, <1>9, <1>10, <1>11, <1>15, Zenon DEF Walks, N, X, e

\* What a step of a walk takes.
StepOf(xs, ys, w, last, n) ==
  /\ n - 1 \in 0 .. last /\ n \in 1 .. Len(xs) + Len(ys)
  /\ w[n - 1] \in Positions(xs, ys) /\ w[n] = Advance(xs, ys, w[n - 1])
  /\ TakesThis(xs, ys, w[n - 1]) \/ TakesOther(xs, ys, w[n - 1])
  /\ TakesThis(xs, ys, w[n - 1]) => w[n - 1].this \in 1 .. Len(xs)
  /\ TakesOther(xs, ys, w[n - 1]) => w[n - 1].other \in 1 .. Len(ys)

LEMMA StepTakes ==
  ASSUME NEW xs \in Seq(NoiseTerms), NEW ys \in Seq(NoiseTerms), NEW w, NEW last,
         Walks(xs, ys, w, last), NEW n \in 1 .. last
  PROVE  StepOf(xs, ys, w, last, n)
<1>1. Len(xs) \in Nat /\ Len(ys) \in Nat /\ last \in 0 .. Len(xs) + Len(ys)
  BY DEF Walks
<1>2. /\ n - 1 \in 0 .. last /\ n - 1 \in 0 .. last - 1
      /\ n \in 1 .. Len(xs) + Len(ys) /\ n - 1 \in 0 .. Len(xs) + Len(ys)
  BY <1>1
<1>3. w[n - 1] \in Positions(xs, ys) /\ w[n - 1] # End(xs, ys) /\ w[n] = Advance(xs, ys, w[n - 1])
  BY <1>2 DEF Walks
<1> DEFINE at == w[n - 1]
<1>4. at \in Positions(xs, ys) /\ at # End(xs, ys)
  BY <1>3
<1> HIDE DEF at
<1>5. at.this \in 1 .. Len(xs) + 1 /\ at.other \in 1 .. Len(ys) + 1
  BY <1>4 DEF Positions
<1>6. /\ TakesThis(xs, ys, at) \/ TakesOther(xs, ys, at)
      /\ TakesThis(xs, ys, at) => at.this \in 1 .. Len(xs)
      /\ TakesOther(xs, ys, at) => at.other \in 1 .. Len(ys)
  <2>1. TakesThis(xs, ys, at) \/ TakesOther(xs, ys, at)
    BY <1>4, TakesATerm
  <2> QED
    BY <1>1, <1>5, <2>1 DEF TakesThis, TakesOther
<1> QED
  BY <1>2, <1>3, <1>6 DEF at, StepOf

\* zs is what the walk w pushes when sums are formed.
SumsAlong(xs, ys, zs, w, last) ==
  /\ Walks(xs, ys, w, last)
  /\ zs = [n \in 1 .. last |-> SumTerm(xs, ys, w[n - 1])]

LEMMA SumTerms ==
  ASSUME NEW xs \in Seq(NoiseTerms), NEW ys \in Seq(NoiseTerms), NEW zs, NEW w, NEW last,
         SumsAlong(xs, ys, zs, w, last)
  PROVE  /\ zs \in Seq(NoiseTerms) /\ Len(zs) = last /\ last \in Nat
         /\ \A n \in 1 .. last :
              /\ TakesThis(xs, ys, w[n - 1]) => zs[n].symbol = xs[w[n - 1].this].symbol
              /\ TakesOther(xs, ys, w[n - 1]) => zs[n].symbol = ys[w[n - 1].other].symbol
              /\ zs[n].magnitude =
                   (IF TakesThis(xs, ys, w[n - 1]) THEN xs[w[n - 1].this].magnitude ELSE 0)
                     + (IF TakesOther(xs, ys, w[n - 1]) THEN ys[w[n - 1].other].magnitude ELSE 0)
<1>1. Walks(xs, ys, w, last) /\ last \in Nat
  BY DEF SumsAlong, Walks
<1>2. ASSUME NEW n \in 1 .. last
      PROVE  /\ zs[n] \in NoiseTerms
             /\ TakesThis(xs, ys, w[n - 1]) => zs[n].symbol = xs[w[n - 1].this].symbol
             /\ TakesOther(xs, ys, w[n - 1]) => zs[n].symbol = ys[w[n - 1].other].symbol
             /\ zs[n].magnitude =
                  (IF TakesThis(xs, ys, w[n - 1]) THEN xs[w[n - 1].this].magnitude ELSE 0)
                    + (IF TakesOther(xs, ys, w[n - 1]) THEN ys[w[n - 1].other].magnitude ELSE 0)
  <2> DEFINE at == w[n - 1]  i == at.this  j == at.other
             takes == TakesThis(xs, ys, at)  other == TakesOther(xs, ys, at)
  <2>1. /\ takes \/ other
        /\ takes => i \in 1 .. Len(xs)
        /\ other => j \in 1 .. Len(ys)
    BY <1>1, StepTakes DEF StepOf
  <2>2. zs[n] = SumTerm(xs, ys, at)
    BY DEF SumsAlong
  <2>3. SumTerm(xs, ys, at) = [symbol |-> IF takes THEN xs[i].symbol ELSE ys[j].symbol,
                               magnitude |-> (IF takes THEN 1 * xs[i].magnitude ELSE 0)
                                               + (IF other THEN 1 * ys[j].magnitude ELSE 0)]
    BY DEF SumTerm, NoiseTerm, Weighted
  <2>4. /\ takes => xs[i].symbol \in Nat /\ xs[i].magnitude \in Int
        /\ other => ys[j].symbol \in Nat /\ ys[j].magnitude \in Int
    BY <2>1, PlaceType
  <2>5. takes /\ other => xs[i].symbol = ys[j].symbol
    <3> SUFFICES ASSUME takes, other PROVE xs[i].symbol = ys[j].symbol
      OBVIOUS
    <3>1. i <= Len(xs) /\ j <= Len(ys)
      BY DEF TakesThis, TakesOther
    <3>2. xs[i].symbol <= ys[j].symbol /\ ys[j].symbol <= xs[i].symbol
      BY <3>1 DEF TakesThis, TakesOther
    <3> QED
      BY <2>4, <3>2
  <2> HIDE DEF takes, other, i, j, at
  <2>6. /\ zs[n].symbol = IF takes THEN xs[i].symbol ELSE ys[j].symbol
        /\ zs[n].magnitude = (IF takes THEN xs[i].magnitude ELSE 0)
                               + (IF other THEN ys[j].magnitude ELSE 0)
    BY <2>2, <2>3, <2>4
  <2>7. zs[n] \in NoiseTerms
    <3>1. zs[n] = [symbol |-> zs[n].symbol, magnitude |-> zs[n].magnitude]
      BY <2>2, <2>3
    <3>2. zs[n].symbol \in Nat /\ zs[n].magnitude \in Int
      BY <2>1, <2>4, <2>6
    <3> HIDE <2>2, <2>3, <2>6
    <3> QED
      BY <3>1, <3>2 DEF NoiseTerms
  <2>8. other => zs[n].symbol = ys[j].symbol
    BY <2>5, <2>6
  <2> QED
    BY <2>6, <2>7, <2>8 DEF takes, other, i, j, at
<1>3. zs \in Seq(NoiseTerms) /\ Len(zs) = last
  <2>1. zs = [n \in 1 .. last |-> zs[n]]
    BY DEF SumsAlong
  <2>2. \A n \in 1 .. last : zs[n] \in NoiseTerms
    BY <1>2
  <2> QED
    BY <1>1, <2>1, <2>2
<1> QED
  BY <1>1, <1>2, <1>3

\* Before the next term of xs, no fewer terms of xs with its symbol have been
\* taken than of the other sequence, and none with a greater one of the other.
AheadAt(cx, cy, u) == cx[u] >= cy[u] /\ \A t \in Nat : t > u => cy[t] = 0

Ahead(cx, cy, xs, i) == i <= Len(xs) => AheadAt(cx, cy, xs[i].symbol)

More(c, s, d) == \A t \in Nat : d[t] = IF t = s THEN c[t] + 1 ELSE c[t]

MoreOrSame(c, s, d) == d = c \/ More(c, s, d)

LEMMA NatOrder ==
  ASSUME NEW s \in Nat, NEW u \in Nat, NEW t \in Nat, s <= u, t > u
  PROVE  t > s /\ t # s
OBVIOUS

LEMMA OneMoreEach ==
  ASSUME NEW x \in Nat, NEW y \in Nat, NEW m, NEW n, x >= y, m = x + 1, n = y \/ n = y + 1
  PROVE  m >= n
OBVIOUS

LEMMA BothWays ==
  ASSUME NEW x \in Nat, NEW y \in Nat, x >= y, y >= x
  PROVE  x = y
OBVIOUS

LEMMA CountsAhead ==
  ASSUME NEW s \in Nat, NEW u \in Nat, s <= u,
         NEW cx \in [Nat -> Nat], NEW cy \in [Nat -> Nat], AheadAt(cx, cy, s),
         NEW dx \in [Nat -> Nat], NEW dy, More(cx, s, dx), MoreOrSame(cy, s, dy)
  PROVE  AheadAt(dx, dy, u)
<1>1. ASSUME NEW t \in Nat, t > s PROVE dy[t] = 0
  <2>1. t # s /\ cy[t] = 0
    BY <1>1 DEF AheadAt
  <2> QED
    BY <2>1 DEF More, MoreOrSame
<1>2. ASSUME NEW t \in Nat, t > u PROVE dy[t] = 0
  <2>1. t > s
    BY <1>2, NatOrder
  <2> QED
    BY <1>1, <2>1
<1>3. CASE u = s
  <2>1. cx[s] \in Nat /\ cy[s] \in Nat /\ dx[s] = cx[s] + 1
    BY DEF More
  <2>2. dy[s] = cy[s] \/ dy[s] = cy[s] + 1
    BY DEF More, MoreOrSame
  <2>3. dx[s] >= dy[s]
    BY <2>1, <2>2, OneMoreEach DEF AheadAt
  <2> QED
    BY <1>2, <1>3, <2>3 DEF AheadAt
<1>4. CASE u # s
  <2>1. u > s
    BY <1>4
  <2>2. dy[u] = 0
    BY <1>1, <2>1
  <2>3. dx[u] \in Nat
    OBVIOUS
  <2> DEFINE m == dx[u]
  <2>4. m >= 0
    <3> HIDE DEF m
    <3> HIDE <1>1, <1>2
    <3>1. m \in Nat
      BY <2>3 DEF m
    <3> QED
      BY <3>1
  <2> QED
    BY <1>2, <2>2, <2>4 DEF AheadAt
<1> QED
  BY <1>3, <1>4

\* The sequence stays ahead when its term is taken, alone or with one of the other;
\* the lemma is about the next term.
LEMMA StaysAheadTaking ==
  ASSUME NEW xs \in Seq(NoiseTerms), Sorted(xs), NEW i \in 1 .. Len(xs),
         NEW cx \in [Nat -> Nat], NEW cy \in [Nat -> Nat], Ahead(cx, cy, xs, i),
         NEW dx \in [Nat -> Nat], NEW dy,
         More(cx, xs[i].symbol, dx), MoreOrSame(cy, xs[i].symbol, dy)
  PROVE  Ahead(dx, dy, xs, i + 1)
<1> SUFFICES ASSUME i + 1 <= Len(xs)
             PROVE  AheadAt(dx, dy, xs[i + 1].symbol)
  BY DEF Ahead
<1>1. i \in 1 .. Len(xs) - 1 /\ i + 1 \in 1 .. Len(xs)
  OBVIOUS
<1> DEFINE s == xs[i].symbol  u == xs[i + 1].symbol
<1>2. s \in Nat /\ u \in Nat /\ s <= u
  BY <1>1, PlaceType DEF Sorted
<1>3. AheadAt(cx, cy, s)
  BY DEF Ahead
<1>4. More(cx, s, dx) /\ MoreOrSame(cy, s, dy)
  OBVIOUS
<1> HIDE DEF s, u
<1>5. AheadAt(dx, dy, u)
  BY <1>2, <1>3, <1>4, CountsAhead, Zenon
<1> QED
  BY <1>5 DEF s, u

\* It stays ahead when only the other sequence gives a term.
LEMMA StaysAheadWaiting ==
  ASSUME NEW xs \in Seq(NoiseTerms), NEW i \in 1 .. Len(xs) + 1,
         NEW cx \in [Nat -> Nat], NEW cy \in [Nat -> Nat], Ahead(cx, cy, xs, i),
         NEW s \in Nat, i <= Len(xs) => s < xs[i].symbol,
         NEW dy \in [Nat -> Nat], More(cy, s, dy)
  PROVE  Ahead(cx, dy, xs, i)
<1> SUFFICES ASSUME i <= Len(xs)
             PROVE  AheadAt(cx, dy, xs[i].symbol)
  BY DEF Ahead
<1> DEFINE u == xs[i].symbol
<1>1. u \in Nat /\ s < u
  <2>1. i \in 1 .. Len(xs)
    OBVIOUS
  <2> QED
    BY <2>1, PlaceType
<1>2. cx[u] >= cy[u] /\ \A t \in Nat : t > u => cy[t] = 0
  BY DEF Ahead, AheadAt
<1> HIDE DEF u
<1>3. dy[u] = cy[u]
  <2>1. u \in Nat /\ u # s
    BY <1>1
  <2>2. dy[u] = IF u = s THEN cy[u] + 1 ELSE cy[u]
    BY <2>1, Zenon DEF More
  <2> QED
    BY <2>1, <2>2
<1>4. ASSUME NEW t \in Nat, t > u PROVE dy[t] = 0
  <2>1. t # s
    BY <1>1, <1>4
  <2>2. cy[t] = 0
    BY <1>2, <1>4
  <2> QED
    BY <2>1, <2>2 DEF More
<1>5. cx[u] >= dy[u]
  BY <1>2, <1>3
<1> QED
  BY <1>4, <1>5 DEF u, AheadAt

\* As many terms with a symbol have been pushed as were taken of the sequence
\* of which more were taken.
Joined(cx, cy, cz) == \A t \in Nat : cz[t] = IF cx[t] >= cy[t] THEN cx[t] ELSE cy[t]

LEMMA JoinedCommutes ==
  ASSUME NEW cx \in [Nat -> Nat], NEW cy \in [Nat -> Nat], NEW cz, Joined(cx, cy, cz)
  PROVE  Joined(cy, cx, cz)
<1> SUFFICES ASSUME NEW t \in Nat PROVE cz[t] = IF cy[t] >= cx[t] THEN cy[t] ELSE cx[t]
  BY DEF Joined
<1>1. cx[t] \in Nat /\ cy[t] \in Nat /\ cz[t] = IF cx[t] >= cy[t] THEN cx[t] ELSE cy[t]
  BY DEF Joined
<1> QED
  BY <1>1

LEMMA JoinedTaking ==
  ASSUME NEW s \in Nat, NEW cx \in [Nat -> Nat], NEW cy \in [Nat -> Nat], NEW cz,
         Joined(cx, cy, cz), cx[s] >= cy[s],
         NEW dx, NEW dy, NEW dz, More(cx, s, dx), MoreOrSame(cy, s, dy), More(cz, s, dz)
  PROVE  Joined(dx, dy, dz) /\ cz[s] = cx[s]
<1>1. cz[s] = cx[s]
  BY DEF Joined
<1>2. ASSUME NEW t \in Nat PROVE dz[t] = IF dx[t] >= dy[t] THEN dx[t] ELSE dy[t]
  <2>1. CASE t = s
    <3>1. cx[s] \in Nat /\ cy[s] \in Nat /\ dx[s] = cx[s] + 1 /\ dz[s] = cx[s] + 1
      BY <1>1 DEF More
    <3>2. dy[s] = cy[s] \/ dy[s] = cy[s] + 1
      BY DEF More, MoreOrSame
    <3>3. dx[s] >= dy[s]
      BY <3>1, <3>2, OneMoreEach
    <3> QED
      BY <2>1, <3>1, <3>3
  <2>2. CASE t # s
    <3>1. dx[t] = cx[t] /\ dy[t] = cy[t] /\ dz[t] = cz[t]
      BY <2>2 DEF More, MoreOrSame
    <3> QED
      BY <3>1 DEF Joined
  <2> QED
    BY <2>1, <2>2
<1> QED
  BY <1>1, <1>2 DEF Joined

\* The other sequence when a term with symbol s is taken of the one.
Follows(ys, j, to, cy, dy, s) ==
  \/ dy = cy /\ to = j /\ (j <= Len(ys) => s < ys[j].symbol)
  \/ /\ More(cy, s, dy) /\ to = j + 1
     /\ j <= Len(ys) /\ ys[j].symbol = s

Taken(xs, ys, i, j, to, cx, cy, cz, dx, dy, dz) ==
  /\ Ahead(dx, dy, xs, i + 1) /\ Ahead(dy, dx, ys, to) /\ Joined(dx, dy, dz)
  /\ cz[xs[i].symbol] = cx[xs[i].symbol]
  /\ to = j + 1 => cz[ys[j].symbol] = cy[ys[j].symbol]

\* A step that takes the next term of xs, and that of ys if it has the same symbol.
LEMMA TakingKeeps ==
  ASSUME NEW xs \in Seq(NoiseTerms), NEW ys \in Seq(NoiseTerms), Sorted(xs), Sorted(ys),
         NEW i \in 1 .. Len(xs), NEW j \in 1 .. Len(ys) + 1, NEW to,
         NEW cx \in [Nat -> Nat], NEW cy \in [Nat -> Nat], NEW cz,
         Ahead(cx, cy, xs, i), Ahead(cy, cx, ys, j), Joined(cx, cy, cz),
         NEW dx \in [Nat -> Nat], NEW dy \in [Nat -> Nat], NEW dz,
         More(cx, xs[i].symbol, dx), More(cz, xs[i].symbol, dz),
         Follows(ys, j, to, cy, dy, xs[i].symbol)
  PROVE  Taken(xs, ys, i, j, to, cx, cy, cz, dx, dy, dz)
<1> DEFINE s == xs[i].symbol
<1>1. s \in Nat
  BY PlaceType
<1>2. MoreOrSame(cy, s, dy)
  BY DEF MoreOrSame, Follows
<1>3. i <= Len(xs)
  OBVIOUS
<1>4. cx[s] >= cy[s]
  BY <1>3 DEF Ahead, AheadAt
<1>5. Ahead(dx, dy, xs, i + 1)
  BY <1>2, StaysAheadTaking
<1>6. Joined(dx, dy, dz) /\ cz[s] = cx[s]
  <2> HIDE DEF s
  <2>1. More(cx, s, dx) /\ More(cz, s, dz)
    BY DEF s
  <2> QED
    BY <1>1, <1>2, <1>4, <2>1, JoinedTaking, Zenon
<1>7. CASE dy = cy /\ to = j /\ (j <= Len(ys) => s < ys[j].symbol)
  <2>1. Ahead(dy, dx, ys, to)
    BY <1>1, <1>7, StaysAheadWaiting
  <2>2. to # j + 1
    BY <1>7
  <2> QED
    BY <1>5, <1>6, <2>1, <2>2 DEF Taken
<1>8. CASE /\ More(cy, s, dy) /\ to = j + 1
           /\ j <= Len(ys) /\ ys[j].symbol = s
  <2>1. j \in 1 .. Len(ys)
    BY <1>8
  <2>2. MoreOrSame(cx, ys[j].symbol, dx) /\ More(cy, ys[j].symbol, dy)
    BY <1>8 DEF MoreOrSame
  <2>3. Ahead(dy, dx, ys, j + 1)
    BY <2>1, <2>2, StaysAheadTaking
  <2>4. cy[s] >= cx[s]
    BY <1>8 DEF Ahead, AheadAt
  <2>5. cy[s] = cx[s]
    <3>1. cx[s] \in Nat /\ cy[s] \in Nat
      BY <1>1
    <3> QED
      BY <1>4, <2>4, <3>1, BothWays
  <2> QED
    BY <1>5, <1>6, <1>8, <2>3, <2>5 DEF Taken
<1> QED
  BY <1>7, <1>8 DEF Follows

\* What has been taken and pushed after n steps.
Matched(xs, ys, zs, w, n) ==
  LET cx == Counts(xs)[w[n].this - 1]
      cy == Counts(ys)[w[n].other - 1]
  IN  /\ Ahead(cx, cy, xs, w[n].this) /\ Ahead(cy, cx, ys, w[n].other)
      /\ Joined(cx, cy, Counts(zs)[n])

\* The counts after one term more.
LEMMA OneMore ==
  ASSUME NEW xi \in Seq(NoiseTerms), NEW k \in 1 .. Len(xi)
  PROVE  /\ Counts(xi)[k - 1] \in [Nat -> Nat] /\ Counts(xi)[(k + 1) - 1] \in [Nat -> Nat]
         /\ More(Counts(xi)[k - 1], xi[k].symbol, Counts(xi)[(k + 1) - 1])
         /\ Counts(xi)[k] = Counts(xi)[(k + 1) - 1]
<1>1. k - 1 \in 0 .. Len(xi) /\ (k + 1) - 1 = k /\ k \in 0 .. Len(xi)
  OBVIOUS
<1> DEFINE c == Counts(xi)
<1>2. IsCounts(c, xi)
  BY CountsIs
<1> HIDE DEF c
<1>3. c[k - 1] \in [Nat -> Nat] /\ c[k] \in [Nat -> Nat]
  BY <1>1, <1>2 DEF IsCounts
<1>4. More(c[k - 1], xi[k].symbol, c[k])
  BY <1>2 DEF IsCounts, More
<1> QED
  BY <1>1, <1>3, <1>4 DEF c

LEMMA CountsType ==
  ASSUME NEW xi \in Seq(NoiseTerms), NEW k \in 1 .. Len(xi) + 1
  PROVE  Counts(xi)[k - 1] \in [Nat -> Nat]
<1>1. k - 1 \in 0 .. Len(xi)
  OBVIOUS
<1> QED
  BY <1>1, CountsIs DEF IsCounts

\* One step of the walk: the term pushed has the place of the terms taken.
PlacesOfStep(xs, ys, zs, w, n) ==
  /\ TakesThis(xs, ys, w[n - 1]) => Place(zs, n) = Place(xs, w[n - 1].this)
  /\ TakesOther(xs, ys, w[n - 1]) => Place(zs, n) = Place(ys, w[n - 1].other)

LEMMA MatchedStep ==
  ASSUME NEW xs \in Seq(NoiseTerms), NEW ys \in Seq(NoiseTerms), Sorted(xs), Sorted(ys),
         NEW zs, NEW w, NEW last, SumsAlong(xs, ys, zs, w, last),
         NEW n \in 1 .. last, Matched(xs, ys, zs, w, n - 1)
  PROVE  Matched(xs, ys, zs, w, n) /\ PlacesOfStep(xs, ys, zs, w, n)
<1> DEFINE at == w[n - 1]
           i == at.this  j == at.other  ii == w[n].this  jj == w[n].other
           takes == TakesThis(xs, ys, at)  other == TakesOther(xs, ys, at)
           cx == Counts(xs)[i - 1]  cy == Counts(ys)[j - 1]  cz == Counts(zs)[n - 1]
           dx == Counts(xs)[ii - 1] dy == Counts(ys)[jj - 1] dz == Counts(zs)[n]
<1>1. Walks(xs, ys, w, last)
  BY DEF SumsAlong
<1>2. /\ at \in Positions(xs, ys) /\ w[n] = Advance(xs, ys, at)
      /\ takes \/ other
      /\ takes => i \in 1 .. Len(xs)
      /\ other => j \in 1 .. Len(ys)
  BY <1>1, StepTakes DEF StepOf
<1>3. ii = (IF takes THEN i + 1 ELSE i) /\ jj = (IF other THEN j + 1 ELSE j)
  BY <1>2, AdvanceType
<1>4. i \in 1 .. Len(xs) + 1 /\ j \in 1 .. Len(ys) + 1
  <2> HIDE DEF at
  <2> QED
    BY <1>2 DEF Positions
<1>5. /\ zs \in Seq(NoiseTerms) /\ n \in 1 .. Len(zs)
      /\ takes => zs[n].symbol = xs[i].symbol
      /\ other => zs[n].symbol = ys[j].symbol
  <2>1. zs \in Seq(NoiseTerms) /\ Len(zs) = last
    BY SumTerms
  <2> QED
    BY <2>1, SumTerms
<1>6. Ahead(cx, cy, xs, i) /\ Ahead(cy, cx, ys, j) /\ Joined(cx, cy, cz)
  BY DEF Matched
<1>7. cx \in [Nat -> Nat] /\ cy \in [Nat -> Nat] /\ cz \in [Nat -> Nat]
  <2>1. n \in 1 .. Len(zs) + 1
    BY <1>5
  <2> QED
    BY <1>4, <1>5, <2>1, CountsType
<1>8. /\ takes => dx \in [Nat -> Nat] /\ More(cx, xs[i].symbol, dx)
      /\ other => dy \in [Nat -> Nat] /\ More(cy, ys[j].symbol, dy)
      /\ ~ takes => dx = cx /\ ii = i
      /\ ~ other => dy = cy /\ jj = j
      /\ More(cz, zs[n].symbol, dz)
  <2> HIDE DEF takes, other, i, j
  <2> QED
    BY <1>2, <1>3, <1>5, OneMore
<1>9. /\ takes => i <= Len(xs) /\ (j <= Len(ys) => xs[i].symbol <= ys[j].symbol)
      /\ other => j <= Len(ys) /\ (i <= Len(xs) => ys[j].symbol <= xs[i].symbol)
      /\ i <= Len(xs) /\ (j <= Len(ys) => xs[i].symbol <= ys[j].symbol) => takes
      /\ j <= Len(ys) /\ (i <= Len(xs) => ys[j].symbol <= xs[i].symbol) => other
  BY DEF TakesThis, TakesOther
<1>10. /\ i <= Len(xs) => xs[i].symbol \in Nat
       /\ j <= Len(ys) => ys[j].symbol \in Nat
  <2> HIDE DEF i, j
  <2>1. /\ i <= Len(xs) => i \in 1 .. Len(xs)
        /\ j <= Len(ys) => j \in 1 .. Len(ys)
    BY <1>4
  <2> QED
    BY <2>1, PlaceType
<1> HIDE DEF at, i, j, ii, jj, takes, other, cx, cy, cz, dx, dy, dz
<1>11. /\ Ahead(dx, dy, xs, ii) /\ Ahead(dy, dx, ys, jj) /\ Joined(dx, dy, dz)
       /\ takes => cz[zs[n].symbol] = cx[xs[i].symbol]
       /\ other => cz[zs[n].symbol] = cy[ys[j].symbol]
  <2>1. CASE takes /\ other
    <3>1. xs[i].symbol = ys[j].symbol
      BY <1>9, <1>10, <2>1
    <3>2. jj = j + 1 /\ ii = i + 1 /\ j <= Len(ys) /\ i \in 1 .. Len(xs)
      BY <1>2, <1>3, <1>9, <2>1
    <3>3. More(cz, xs[i].symbol, dz) /\ More(cy, xs[i].symbol, dy) /\ More(cx, xs[i].symbol, dx)
      BY <1>5, <1>8, <2>1, <3>1
    <3>4. dx \in [Nat -> Nat] /\ dy \in [Nat -> Nat]
      BY <1>8, <2>1
    <3>6. Follows(ys, j, jj, cy, dy, xs[i].symbol)
      BY <3>1, <3>2, <3>3 DEF Follows
    <3>5. Taken(xs, ys, i, j, jj, cx, cy, cz, dx, dy, dz)
      BY <1>4, <1>6, <1>7, <3>2, <3>3, <3>4, <3>6, TakingKeeps, Zenon
    <3> QED
      BY <1>5, <2>1, <3>1, <3>2, <3>5 DEF Taken
  <2>2. CASE takes /\ ~ other
    <3>1. j <= Len(ys) => xs[i].symbol < ys[j].symbol
      BY <1>9, <1>10, <2>2
    <3>2. jj = j /\ ii = i + 1 /\ i \in 1 .. Len(xs)
      BY <1>2, <1>3, <2>2
    <3>3. More(cz, xs[i].symbol, dz) /\ dy = cy /\ More(cx, xs[i].symbol, dx)
      BY <1>5, <1>8, <2>2
    <3>4. dx \in [Nat -> Nat] /\ dy \in [Nat -> Nat]
      BY <1>7, <1>8, <2>2
    <3>6. Follows(ys, j, jj, cy, dy, xs[i].symbol)
      BY <3>1, <3>2, <3>3 DEF Follows
    <3>5. Taken(xs, ys, i, j, jj, cx, cy, cz, dx, dy, dz)
      BY <1>4, <1>6, <1>7, <3>2, <3>3, <3>4, <3>6, TakingKeeps, Zenon
    <3> QED
      BY <1>5, <2>2, <3>2, <3>5 DEF Taken
  <2>3. CASE other /\ ~ takes
    <3>1. i <= Len(xs) => ys[j].symbol < xs[i].symbol
      BY <1>9, <1>10, <2>3
    <3>2. ii = i /\ jj = j + 1 /\ j \in 1 .. Len(ys)
      BY <1>2, <1>3, <2>3
    <3>3. More(cz, ys[j].symbol, dz) /\ dx = cx /\ More(cy, ys[j].symbol, dy)
      BY <1>5, <1>8, <2>3
    <3>4. dx \in [Nat -> Nat] /\ dy \in [Nat -> Nat]
      BY <1>7, <1>8, <2>3
    <3>5. Joined(cy, cx, cz)
      BY <1>6, <1>7, JoinedCommutes
    <3>8. Follows(xs, i, ii, cx, dx, ys[j].symbol)
      BY <3>1, <3>2, <3>3 DEF Follows
    <3>6. Taken(ys, xs, j, i, ii, cy, cx, cz, dy, dx, dz)
      BY <1>4, <1>6, <1>7, <3>2, <3>3, <3>4, <3>5, <3>8, TakingKeeps, Zenon
    <3>7. Joined(dx, dy, dz)
      BY <3>4, <3>6, JoinedCommutes DEF Taken
    <3> QED
      BY <1>5, <2>3, <3>2, <3>6, <3>7 DEF Taken
  <2> QED
    BY <1>2, <2>1, <2>2, <2>3
<1>12. Matched(xs, ys, zs, w, n)
  BY <1>11 DEF Matched, ii, jj, dx, dy, dz
<1>13. PlacesOfStep(xs, ys, zs, w, n)
  <2>1. /\ Place(zs, n) = cz[zs[n].symbol]
        /\ Place(xs, i) = cx[xs[i].symbol]
        /\ Place(ys, j) = cy[ys[j].symbol]
    BY DEF Place, cx, cy, cz
  <2>2. /\ takes => Place(zs, n) = Place(xs, i)
        /\ other => Place(zs, n) = Place(ys, j)
    BY <1>11, <2>1
  <2> QED
    BY <2>2 DEF PlacesOfStep, takes, other, i, j, at
<1> QED
  BY <1>12, <1>13

LEMMA AllMatched ==
  ASSUME NEW xs \in Seq(NoiseTerms), NEW ys \in Seq(NoiseTerms), Sorted(xs), Sorted(ys),
         NEW zs, NEW w, NEW last, SumsAlong(xs, ys, zs, w, last)
  PROVE  \A n \in 1 .. last : PlacesOfStep(xs, ys, zs, w, n)
<1> DEFINE T == {n \in 0 .. last : Matched(xs, ys, zs, w, n)}
<1>1. last \in Nat /\ w[0] = Start /\ zs \in Seq(NoiseTerms)
  <2>1. Walks(xs, ys, w, last)
    BY DEF SumsAlong
  <2> QED
    BY <2>1, SumTerms DEF Walks
<1>2. 0 \in T
  <2> DEFINE cx == Counts(xs)[0]  cy == Counts(ys)[0]  cz == Counts(zs)[0]
  <2>1. \A t \in Nat : cx[t] = 0 /\ cy[t] = 0 /\ cz[t] = 0
    BY <1>1, CountsIs DEF IsCounts
  <2> HIDE DEF cx, cy, cz
  <2>2. 1 <= Len(xs) => xs[1].symbol \in Nat
    <3>1. 1 <= Len(xs) => 1 \in 1 .. Len(xs)
      OBVIOUS
    <3> QED
      BY <3>1, PlaceType
  <2>3. 1 <= Len(ys) => ys[1].symbol \in Nat
    <3>1. 1 <= Len(ys) => 1 \in 1 .. Len(ys)
      OBVIOUS
    <3> QED
      BY <3>1, PlaceType
  <2>4. Ahead(cx, cy, xs, 1) /\ Ahead(cy, cx, ys, 1)
    BY <2>1, <2>2, <2>3 DEF Ahead, AheadAt
  <2>5. Joined(cx, cy, cz)
    BY <2>1 DEF Joined
  <2>6. w[0].this = 1 /\ w[0].other = 1 /\ 1 - 1 = 0
    BY <1>1 DEF Start
  <2>7. Matched(xs, ys, zs, w, 0)
    BY <2>4, <2>5, <2>6 DEF Matched, cx, cy, cz
  <2> QED
    BY <1>1, <2>7
<1>3. ASSUME NEW n \in 0 .. last, n + 1 \in 0 .. last, n \in T PROVE n + 1 \in T
  <2>1. n + 1 \in 1 .. last /\ (n + 1) - 1 = n
    BY <1>1, <1>3
  <2>2. Matched(xs, ys, zs, w, (n + 1) - 1)
    BY <1>3, <2>1
  <2>3. Matched(xs, ys, zs, w, n + 1)
    BY <2>1, <2>2, MatchedStep
  <2> QED
    BY <1>3, <2>3
<1> HIDE DEF T
<1>4. \A n \in 0 .. last : n \in T
  BY <1>1, <1>2, <1>3, InductionUpTo
<1>5. ASSUME NEW n \in 1 .. last PROVE PlacesOfStep(xs, ys, zs, w, n)
  <2>1. n - 1 \in 0 .. last
    BY <1>1
  <2>2. Matched(xs, ys, zs, w, n - 1)
    BY <1>4, <2>1 DEF T
  <2> QED
    BY <2>2, MatchedStep
<1> QED
  BY <1>5

\* az holds, for every step of the walk, the sum of the numbers in ax and ay that
\* belong to the terms it takes.
AddsAlong(xs, ys, w, last, ax, ay, az) ==
  /\ ax \in Seq(Int) /\ Len(ax) = Len(xs)
  /\ ay \in Seq(Int) /\ Len(ay) = Len(ys)
  /\ az \in Seq(Int) /\ Len(az) = last
  /\ \A n \in 1 .. last :
       az[n] = (IF TakesThis(xs, ys, w[n - 1]) THEN ax[w[n - 1].this] ELSE 0)
                 + (IF TakesOther(xs, ys, w[n - 1]) THEN ay[w[n - 1].other] ELSE 0)

\* The walk takes every term once.
LEMMA TotalsAdd ==
  ASSUME NEW xs \in Seq(NoiseTerms), NEW ys \in Seq(NoiseTerms), NEW w, NEW last,
         Walks(xs, ys, w, last),
         NEW ax, NEW ay, NEW az, AddsAlong(xs, ys, w, last, ax, ay, az)
  PROVE  Total(az) = Total(ax) + Total(ay)
<1> DEFINE takes(n) == TakesThis(xs, ys, w[n - 1])
           other(n) == TakesOther(xs, ys, w[n - 1])
<1>1. last \in Nat /\ Walks(xs, ys, w, last) /\ Len(xs) \in Nat /\ Len(ys) \in Nat
  BY DEF Walks
<1>2. /\ ax \in Seq(Int) /\ Len(ax) = Len(xs)
      /\ ay \in Seq(Int) /\ Len(ay) = Len(ys)
      /\ az \in Seq(Int) /\ Len(az) = last
  BY DEF AddsAlong
<1>3. PICK u : Sums(ax, u)
  BY <1>2, TotalSums
<1>4. PICK v : Sums(ay, v)
  BY <1>2, TotalSums
<1>5. PICK z : Sums(az, z)
  BY <1>2, TotalSums
<1>6. ASSUME NEW n \in 1 .. last
      PROVE  az[n] = (IF takes(n) THEN ax[w[n - 1].this] ELSE 0)
                       + (IF other(n) THEN ay[w[n - 1].other] ELSE 0)
  BY DEF AddsAlong
<1> DEFINE T == {n \in 0 .. last : z[n] = u[w[n].this - 1] + v[w[n].other - 1]}
<1>7. /\ u \in [0 .. Len(xs) -> Int] /\ v \in [0 .. Len(ys) -> Int]
      /\ u[0] = 0 /\ v[0] = 0 /\ z[0] = 0
      /\ \A n \in 1 .. Len(xs) : u[n] = u[n - 1] + ax[n] /\ ax[n] \in Int
      /\ \A n \in 1 .. Len(ys) : v[n] = v[n - 1] + ay[n] /\ ay[n] \in Int
      /\ \A n \in 1 .. last : z[n] = z[n - 1] + az[n]
      /\ Total(ax) = u[Len(xs)] /\ Total(ay) = v[Len(ys)] /\ Total(az) = z[last]
  <2>1. /\ \A n \in 1 .. Len(xs) : ax[n] \in Int
        /\ \A n \in 1 .. Len(ys) : ay[n] \in Int
    BY <1>2
  <2> QED
    BY <1>2, <1>3, <1>4, <1>5, <2>1 DEF Sums
<1>8. 0 \in T
  <2>1. w[0].this - 1 = 0 /\ w[0].other - 1 = 0
    BY <1>1 DEF Walks, Start
  <2> QED
    BY <1>1, <1>7, <2>1
<1>9. ASSUME NEW n \in 0 .. last, n + 1 \in 0 .. last, n \in T PROVE n + 1 \in T
  <2> DEFINE m == n + 1
             i == w[n].this  j == w[n].other
  <2>1. m \in 1 .. last /\ m - 1 = n
    BY <1>1, <1>9
  <2> HIDE DEF m
  <2>2. /\ w[n] \in Positions(xs, ys) /\ w[m] = Advance(xs, ys, w[n])
        /\ takes(m) => i \in 1 .. Len(xs)
        /\ other(m) => j \in 1 .. Len(ys)
    <3>1. /\ w[m - 1] \in Positions(xs, ys) /\ w[m] = Advance(xs, ys, w[m - 1])
          /\ TakesThis(xs, ys, w[m - 1]) => w[m - 1].this \in 1 .. Len(xs)
          /\ TakesOther(xs, ys, w[m - 1]) => w[m - 1].other \in 1 .. Len(ys)
      <4>1. StepOf(xs, ys, w, last, m)
        BY <1>1, <2>1, StepTakes, Zenon
      <4> QED
        BY <4>1 DEF StepOf
    <3> QED
      BY <2>1, <3>1
  <2>3. /\ w[m].this = IF takes(m) THEN i + 1 ELSE i
        /\ w[m].other = IF other(m) THEN j + 1 ELSE j
    BY <2>1, <2>2, AdvanceType
  <2>4. i \in 1 .. Len(xs) + 1 /\ j \in 1 .. Len(ys) + 1
    BY <2>2 DEF Positions
  <2>5. /\ z[m] = z[n] + az[m] /\ z[n] = u[i - 1] + v[j - 1]
        /\ az[m] = (IF takes(m) THEN ax[i] ELSE 0) + (IF other(m) THEN ay[j] ELSE 0)
    BY <1>6, <1>7, <1>9, <2>1
  <2> HIDE DEF i, j, takes, other
  <2>6. /\ takes(m) => u[i] = u[i - 1] + ax[i] /\ ax[i] \in Int
        /\ other(m) => v[j] = v[j - 1] + ay[j] /\ ay[j] \in Int
    BY <1>7, <2>2
  <2>7. u[i - 1] \in Int /\ v[j - 1] \in Int
    <3>1. i - 1 \in 0 .. Len(xs) /\ j - 1 \in 0 .. Len(ys)
      BY <1>1, <2>4
    <3> QED
      BY <1>7, <3>1
  <2>8. (i + 1) - 1 = i /\ (j + 1) - 1 = j
    BY <2>4
  <2>9. u[w[m].this - 1] = u[i - 1] + (IF takes(m) THEN ax[i] ELSE 0)
    BY <2>3, <2>6, <2>7, <2>8
  <2>10. v[w[m].other - 1] = v[j - 1] + (IF other(m) THEN ay[j] ELSE 0)
    BY <2>3, <2>6, <2>7, <2>8
  <2>11. z[m] = u[w[m].this - 1] + v[w[m].other - 1]
    <3> DEFINE p == IF takes(m) THEN ax[i] ELSE 0
               q == IF other(m) THEN ay[j] ELSE 0
    <3>1. p \in Int /\ q \in Int
      BY <2>6
    <3>2. z[m] = (u[i - 1] + v[j - 1]) + (p + q)
      BY <2>5
    <3>3. u[w[m].this - 1] = u[i - 1] + p /\ v[w[m].other - 1] = v[j - 1] + q
      BY <2>9, <2>10
    <3> HIDE DEF p, q
    <3> QED
      BY <2>7, <3>1, <3>2, <3>3
  <2> QED
    BY <1>9, <2>11 DEF m
<1> HIDE DEF T
<1>10. \A n \in 0 .. last : n \in T
  BY <1>1, <1>8, <1>9, InductionUpTo
<1>11. z[last] = u[w[last].this - 1] + v[w[last].other - 1]
  <2>1. last \in 0 .. last
    BY <1>1
  <2> QED
    BY <1>10, <2>1 DEF T
<1>12. w[last].this - 1 = Len(xs) /\ w[last].other - 1 = Len(ys)
  BY <1>1 DEF Walks, End
<1> QED
  BY <1>7, <1>11, <1>12

\* The value of a sum is the sum of the values.
LEMMA ValuesAdd ==
  ASSUME NEW xs \in Seq(NoiseTerms), NEW ys \in Seq(NoiseTerms), Sorted(xs), Sorted(ys),
         NEW zs, NEW w, NEW last, SumsAlong(xs, ys, zs, w, last),
         NEW eps \in Assignments
  PROVE  Value(eps, zs) = Value(eps, xs) + Value(eps, ys)
<1> DEFINE ax == ValueTerms(eps, xs)
           ay == ValueTerms(eps, ys)
           az == ValueTerms(eps, zs)
           takes(n) == TakesThis(xs, ys, w[n - 1])
           other(n) == TakesOther(xs, ys, w[n - 1])
<1>1. /\ zs \in Seq(NoiseTerms) /\ Len(zs) = last /\ last \in Nat
      /\ Walks(xs, ys, w, last) /\ Len(xs) \in Nat /\ Len(ys) \in Nat
  BY SumTerms DEF SumsAlong
<1>2. /\ ax \in Seq(Int) /\ Len(ax) = Len(xs)
      /\ ay \in Seq(Int) /\ Len(ay) = Len(ys)
      /\ az \in Seq(Int) /\ Len(az) = last
  BY <1>1, ValueTermsType
<1>6. ASSUME NEW n \in 1 .. last
      PROVE  az[n] = (IF takes(n) THEN ax[w[n - 1].this] ELSE 0)
                       + (IF other(n) THEN ay[w[n - 1].other] ELSE 0)
  <2> DEFINE i == w[n - 1].this  j == w[n - 1].other
             s == zs[n].symbol  p == Place(zs, n)  e == eps[s][p]
             mx == xs[i].magnitude  my == ys[j].magnitude  mz == zs[n].magnitude
  <2>1. n \in 1 .. Len(zs) /\ (takes(n) => i \in 1 .. Len(xs)) /\ (other(n) => j \in 1 .. Len(ys))
    BY <1>1, StepTakes DEF StepOf
  <2>2. /\ takes(n) => s = xs[i].symbol
        /\ other(n) => s = ys[j].symbol
        /\ mz = (IF takes(n) THEN mx ELSE 0) + (IF other(n) THEN my ELSE 0)
    BY SumTerms
  <2>3. /\ takes(n) => p = Place(xs, i)
        /\ other(n) => p = Place(ys, j)
    BY AllMatched DEF PlacesOfStep
  <2>4. e \in Int /\ (takes(n) => mx \in Int) /\ (other(n) => my \in Int)
    BY <1>1, <2>1, PlaceType, ValueTermsType
  <2>5. az[n] = e * mz
    BY <2>1 DEF ValueTerms
  <2>6. takes(n) => ax[i] = eps[xs[i].symbol][Place(xs, i)] * mx
    BY <2>1 DEF ValueTerms
  <2>7. other(n) => ay[j] = eps[ys[j].symbol][Place(ys, j)] * my
    BY <2>1 DEF ValueTerms
  <2>8. (takes(n) => ax[i] = e * mx) /\ (other(n) => ay[j] = e * my)
    BY <2>2, <2>3, <2>6, <2>7
  <2> HIDE DEF i, j, s, p, e, mx, my, mz, ax, ay, az, takes, other
  <2>9. CASE takes(n) /\ other(n)
    <3>1. e * (mx + my) = e * mx + e * my
      BY <2>4, <2>9
    <3> QED
      BY <2>2, <2>5, <2>8, <2>9, <3>1 DEF i, j
  <2>10. CASE takes(n) /\ ~ other(n)
    <3>1. mz = mx /\ e * mx \in Int
      BY <2>2, <2>4, <2>10
    <3> QED
      BY <2>5, <2>8, <2>10, <3>1 DEF i, j
  <2>11. CASE ~ takes(n) /\ other(n)
    <3>1. mz = my /\ e * my \in Int
      BY <2>2, <2>4, <2>11
    <3> QED
      BY <2>5, <2>8, <2>11, <3>1 DEF i, j
  <2>12. CASE ~ takes(n) /\ ~ other(n)
    <3>1. mz = 0 /\ e * 0 = 0
      BY <2>2, <2>4, <2>12
    <3> QED
      BY <2>5, <2>12, <3>1
  <2> QED
    BY <2>9, <2>10, <2>11, <2>12
<1>7. AddsAlong(xs, ys, w, last, ax, ay, az)
  BY <1>2, <1>6 DEF AddsAlong
<1> HIDE DEF ax, ay, az
<1>8. Total(az) = Total(ax) + Total(ay)
  BY <1>1, <1>7, TotalsAdd
<1> QED
  BY <1>8 DEF Value, ax, ay, az

\* The terms of a sum stay in order.
LEMMA SumIsSorted ==
  ASSUME NEW xs \in Seq(NoiseTerms), NEW ys \in Seq(NoiseTerms), Sorted(xs), Sorted(ys),
         NEW zs, NEW w, NEW last, SumsAlong(xs, ys, zs, w, last)
  PROVE  Sorted(zs)
<1>1. /\ zs \in Seq(NoiseTerms) /\ Len(zs) = last /\ last \in Nat
      /\ Walks(xs, ys, w, last) /\ Len(xs) \in Nat /\ Len(ys) \in Nat
  BY SumTerms DEF SumsAlong
<1> SUFFICES ASSUME NEW n \in 1 .. last - 1 PROVE zs[n].symbol <= zs[n + 1].symbol
  BY <1>1 DEF Sorted
<1> DEFINE m == n + 1
           at == w[n - 1]  to == w[n]
           i == at.this  j == at.other
           takes == TakesThis(xs, ys, at)  other == TakesOther(xs, ys, at)
<1>2. n \in 1 .. last /\ m \in 1 .. last /\ m - 1 = n
  BY <1>1
<1>3. /\ at \in Positions(xs, ys) /\ to = Advance(xs, ys, at)
      /\ takes \/ other
      /\ takes => i \in 1 .. Len(xs) /\ zs[n].symbol = xs[i].symbol
      /\ other => j \in 1 .. Len(ys) /\ zs[n].symbol = ys[j].symbol
  <2>1. StepOf(xs, ys, w, last, n)
    BY <1>1, <1>2, StepTakes, Zenon
  <2>2. /\ TakesThis(xs, ys, w[n - 1]) => zs[n].symbol = xs[w[n - 1].this].symbol
        /\ TakesOther(xs, ys, w[n - 1]) => zs[n].symbol = ys[w[n - 1].other].symbol
    BY <1>2, SumTerms
  <2> QED
    BY <2>1, <2>2 DEF StepOf
<1>4. /\ TakesThis(xs, ys, to) \/ TakesOther(xs, ys, to)
      /\ TakesThis(xs, ys, to) => to.this \in 1 .. Len(xs) /\ zs[m].symbol = xs[to.this].symbol
      /\ TakesOther(xs, ys, to) => to.other \in 1 .. Len(ys) /\ zs[m].symbol = ys[to.other].symbol
  <2> HIDE DEF m
  <2>2. StepOf(xs, ys, w, last, m)
    BY <1>1, <1>2, StepTakes, Zenon
  <2>3. /\ TakesThis(xs, ys, w[m - 1]) => zs[m].symbol = xs[w[m - 1].this].symbol
        /\ TakesOther(xs, ys, w[m - 1]) => zs[m].symbol = ys[w[m - 1].other].symbol
    <3>1. \A k \in 1 .. last :
            /\ TakesThis(xs, ys, w[k - 1]) => zs[k].symbol = xs[w[k - 1].this].symbol
            /\ TakesOther(xs, ys, w[k - 1]) => zs[k].symbol = ys[w[k - 1].other].symbol
      BY SumTerms
    <3> QED
      BY <1>2, <3>1, Zenon
  <2>1. /\ TakesThis(xs, ys, w[m - 1]) \/ TakesOther(xs, ys, w[m - 1])
        /\ TakesThis(xs, ys, w[m - 1]) => /\ w[m - 1].this \in 1 .. Len(xs)
                                          /\ zs[m].symbol = xs[w[m - 1].this].symbol
        /\ TakesOther(xs, ys, w[m - 1]) => /\ w[m - 1].other \in 1 .. Len(ys)
                                           /\ zs[m].symbol = ys[w[m - 1].other].symbol
    BY <2>2, <2>3 DEF StepOf
  <2> QED
    BY <1>2, <2>1
<1>5. /\ to.this = IF takes THEN i + 1 ELSE i
      /\ to.other = IF other THEN j + 1 ELSE j
  BY <1>3, AdvanceType
<1>6. /\ other => (i <= Len(xs) => ys[j].symbol <= xs[i].symbol)
      /\ takes => (j <= Len(ys) => xs[i].symbol <= ys[j].symbol)
  BY DEF TakesThis, TakesOther
<1>7. zs[n].symbol \in Nat
  BY <1>1, <1>2, PlaceType
<1> HIDE DEF m, at, to, takes, other, i, j
<1>8. to.this \in 1 .. Len(xs) => zs[n].symbol <= xs[to.this].symbol
  <2> SUFFICES ASSUME to.this \in 1 .. Len(xs) PROVE zs[n].symbol <= xs[to.this].symbol
    OBVIOUS
  <2>1. CASE takes
    <3>1. i \in 1 .. Len(xs) - 1 /\ to.this = i + 1
      BY <1>1, <1>3, <1>5, <2>1
    <3> QED
      BY <1>3, <2>1, <3>1 DEF Sorted
  <2>2. CASE ~ takes
    <3>1. to.this = i /\ i <= Len(xs)
      BY <1>1, <1>5, <2>2
    <3> QED
      BY <1>3, <1>6, <2>2, <3>1
  <2> QED
    BY <2>1, <2>2
<1>9. to.other \in 1 .. Len(ys) => zs[n].symbol <= ys[to.other].symbol
  <2> SUFFICES ASSUME to.other \in 1 .. Len(ys) PROVE zs[n].symbol <= ys[to.other].symbol
    OBVIOUS
  <2>1. CASE other
    <3>1. j \in 1 .. Len(ys) - 1 /\ to.other = j + 1
      BY <1>1, <1>3, <1>5, <2>1
    <3> QED
      BY <1>3, <2>1, <3>1 DEF Sorted
  <2>2. CASE ~ other
    <3>1. to.other = j /\ j <= Len(ys)
      BY <1>1, <1>5, <2>2
    <3> QED
      BY <1>3, <1>6, <2>2, <3>1
  <2> QED
    BY <2>1, <2>2
<1> QED
  BY <1>4, <1>8, <1>9 DEF m

\* What holds of the sum of two forms.
LEMMA SumIs ==
  ASSUME NEW f \in Forms, NEW g \in Forms
  PROVE  /\ Sum(f, g) \in Forms /\ Sum(f, g).x0 = f.x0 + g.x0
         /\ \A eps \in Assignments :
              Value(eps, Sum(f, g).xi) = Value(eps, f.xi) + Value(eps, g.xi)
         /\ \A s \in Nat : Below(f.xi, s) /\ Below(g.xi, s) => Below(Sum(f, g).xi, s)
<1> DEFINE xs == f.xi  ys == g.xi  zs == mergeSumNoiseTerms(f, g)
<1>1. /\ xs \in Seq(NoiseTerms) /\ ys \in Seq(NoiseTerms) /\ Sorted(xs) /\ Sorted(ys)
      /\ f.x0 \in Int /\ g.x0 \in Int
  BY DEF Forms
<1>2. PICK w, last : Walks(xs, ys, w, last)
  BY <1>1, StepsWalk
<1>3. SumsAlong(xs, ys, zs, w, last)
  <2>1. Steps(xs, ys) = [n \in 1 .. last |-> w[n - 1]]
    BY <1>2 DEF Walks
  <2>2. zs = [n \in 1 .. last |-> SumTerm(xs, ys, w[n - 1])]
    BY <2>1 DEF mergeSumNoiseTerms
  <2> QED
    BY <1>2, <2>2 DEF SumsAlong
<1>4. Sum(f, g) = [x0 |-> f.x0 + g.x0, xi |-> zs]
  BY DEF Sum
<1> HIDE DEF xs, ys, zs
<1>5. zs \in Seq(NoiseTerms) /\ Len(zs) = last
  BY <1>1, <1>3, SumTerms
<1>6. Sorted(zs)
  BY <1>1, <1>3, SumIsSorted
<1>7. \A eps \in Assignments : Value(eps, zs) = Value(eps, xs) + Value(eps, ys)
  BY <1>1, <1>3, ValuesAdd
<1>8. ASSUME NEW s \in Nat, Below(xs, s), Below(ys, s) PROVE Below(zs, s)
  <2> SUFFICES ASSUME NEW n \in 1 .. last PROVE zs[n].symbol < s
    BY <1>5 DEF Below
  <2>1. /\ TakesThis(xs, ys, w[n - 1]) \/ TakesOther(xs, ys, w[n - 1])
        /\ TakesThis(xs, ys, w[n - 1]) => w[n - 1].this \in 1 .. Len(xs)
        /\ TakesOther(xs, ys, w[n - 1]) => w[n - 1].other \in 1 .. Len(ys)
    BY <1>1, <1>2, StepTakes DEF StepOf
  <2>2. /\ TakesThis(xs, ys, w[n - 1]) => zs[n].symbol = xs[w[n - 1].this].symbol
        /\ TakesOther(xs, ys, w[n - 1]) => zs[n].symbol = ys[w[n - 1].other].symbol
    BY <1>1, <1>3, SumTerms
  <2> QED
    BY <1>8, <2>1, <2>2 DEF Below
<1>9. f.x0 + g.x0 \in Int
  BY <1>1
<1>10. Sum(f, g) \in Forms
  BY <1>4, <1>5, <1>6, <1>9 DEF Forms
<1> QED
  BY <1>4, <1>7, <1>8, <1>10 DEF xs, ys

LEMMA NegatedIs ==
  ASSUME NEW g \in Forms
  PROVE  /\ Negated(g) \in Forms /\ Negated(g).x0 = -g.x0
         /\ \A eps \in Assignments : Value(eps, Negated(g).xi) = -Value(eps, g.xi)
         /\ \A s \in Nat : Below(g.xi, s) => Below(Negated(g).xi, s)
<1> DEFINE xs == g.xi  zs == ScaledTerms(xs, -1)
<1>1. xs \in Seq(NoiseTerms) /\ Sorted(xs) /\ g.x0 \in Int
  BY DEF Forms
<1>2. Negated(g) = [x0 |-> (-1) * g.x0, xi |-> zs]
  BY DEF Negated, scalarMultiply
<1> HIDE DEF xs
<1>3. DOMAIN xs = 1 .. Len(xs) /\ Len(xs) \in Nat
  BY <1>1
<1>4. ASSUME NEW k \in 1 .. Len(xs)
      PROVE  /\ zs[k].symbol = xs[k].symbol /\ zs[k].magnitude = -xs[k].magnitude
             /\ zs[k] \in NoiseTerms
  <2>1. zs[k] = [symbol |-> xs[k].symbol, magnitude |-> (-1) * xs[k].magnitude]
    BY <1>3 DEF ScaledTerms, NoiseTerm
  <2>2. xs[k].symbol \in Nat /\ xs[k].magnitude \in Int
    BY <1>1, PlaceType
  <2>3. (-1) * xs[k].magnitude = -xs[k].magnitude /\ -xs[k].magnitude \in Int
    BY <2>2
  <2> QED
    BY <2>1, <2>2, <2>3 DEF NoiseTerms
<1>5. zs \in Seq(NoiseTerms) /\ Len(zs) = Len(xs)
  <2>1. zs = [k \in 1 .. Len(xs) |-> zs[k]]
    BY <1>3 DEF ScaledTerms
  <2> HIDE DEF zs
  <2> QED
    BY <1>3, <1>4, <2>1
<1> HIDE DEF zs
<1>6. Sorted(zs)
  <2> SUFFICES ASSUME NEW k \in 1 .. Len(xs) - 1 PROVE zs[k].symbol <= zs[k + 1].symbol
    BY <1>5 DEF Sorted
  <2>1. k \in 1 .. Len(xs) /\ k + 1 \in 1 .. Len(xs)
    BY <1>3
  <2>2. zs[k].symbol = xs[k].symbol /\ zs[k + 1].symbol = xs[k + 1].symbol
    BY <1>4, <2>1
  <2> QED
    BY <1>1, <2>2 DEF Sorted
<1>7. ASSUME NEW eps \in Assignments PROVE Value(eps, zs) = -Value(eps, xs)
  <2> DEFINE a == ValueTerms(eps, xs)  b == ValueTerms(eps, zs)
  <2>1. /\ a \in Seq(Int) /\ Len(a) = Len(xs) /\ Value(eps, xs) = Total(a)
        /\ b \in Seq(Int) /\ Len(b) = Len(xs) /\ Value(eps, zs) = Total(b)
    BY <1>1, <1>5, ValueTermsType DEF Value
  <2>2. ASSUME NEW k \in 1 .. Len(xs) PROVE b[k] = (-1) * a[k]
    <3> DEFINE e == eps[xs[k].symbol][Place(xs, k)]  m == xs[k].magnitude
    <3>1. e \in Int /\ m \in Int
      BY <1>1, PlaceType, ValueTermsType
    <3>2. Place(zs, k) = Place(xs, k)
      BY <1>1, <1>4, <1>5, PlacesAgree
    <3>3. a[k] = e * m
      BY DEF ValueTerms
    <3>4. b[k] = e * (-m)
      BY <1>4, <1>5, <3>2 DEF ValueTerms
    <3> HIDE DEF e, m
    <3>5. e * (-m) = (-1) * (e * m)
      BY <3>1
    <3> QED
      BY <3>3, <3>4, <3>5
  <2> HIDE DEF a, b
  <2>3. Total(b) = (-1) * Total(a)
    <3>1. -1 \in Int
      OBVIOUS
    <3> QED
      BY <2>1, <2>2, <3>1, TotalMultiplies
  <2>4. Total(a) \in Int
    BY <2>1, TotalType
  <2> QED
    BY <2>1, <2>3, <2>4
<1>8. ASSUME NEW s \in Nat, Below(xs, s) PROVE Below(zs, s)
  BY <1>4, <1>5, <1>8 DEF Below
<1>9. (-1) * g.x0 = -g.x0 /\ -g.x0 \in Int
  BY <1>1
<1>10. Negated(g) \in Forms
  BY <1>2, <1>5, <1>6, <1>9 DEF Forms
<1> QED
  BY <1>2, <1>7, <1>8, <1>9, <1>10 DEF xs

LEMMA DifferenceIs ==
  ASSUME NEW f \in Forms, NEW g \in Forms
  PROVE  /\ Difference(f, g) \in Forms /\ Difference(f, g).x0 = f.x0 - g.x0
         /\ \A eps \in Assignments :
              Value(eps, Difference(f, g).xi) = Value(eps, f.xi) - Value(eps, g.xi)
         /\ \A s \in Nat : Below(f.xi, s) /\ Below(g.xi, s) => Below(Difference(f, g).xi, s)
<1> DEFINE h == Negated(g)
<1>1. /\ h \in Forms /\ h.x0 = -g.x0
      /\ \A eps \in Assignments : Value(eps, h.xi) = -Value(eps, g.xi)
      /\ \A s \in Nat : Below(g.xi, s) => Below(h.xi, s)
  BY NegatedIs
<1>2. Difference(f, g) = Sum(f, h)
  BY DEF Difference
<1> HIDE DEF h
<1>3. /\ Sum(f, h) \in Forms /\ Sum(f, h).x0 = f.x0 + h.x0
      /\ \A eps \in Assignments : Value(eps, Sum(f, h).xi) = Value(eps, f.xi) + Value(eps, h.xi)
      /\ \A s \in Nat : Below(f.xi, s) /\ Below(h.xi, s) => Below(Sum(f, h).xi, s)
  BY <1>1, SumIs
<1>4. f.x0 \in Int /\ g.x0 \in Int /\ f.xi \in Seq(NoiseTerms) /\ g.xi \in Seq(NoiseTerms)
  BY DEF Forms
<1>5. ASSUME NEW eps \in Assignments
      PROVE  Value(eps, Difference(f, g).xi) = Value(eps, f.xi) - Value(eps, g.xi)
  <2>1. Value(eps, f.xi) \in Int /\ Value(eps, g.xi) \in Int
    BY <1>4, ValueTermsType
  <2>2. Value(eps, Sum(f, h).xi) = Value(eps, f.xi) + (-Value(eps, g.xi))
    BY <1>1, <1>3
  <2> QED
    BY <1>2, <2>1, <2>2
<1>6. f.x0 + (-g.x0) = f.x0 - g.x0
  BY <1>4
<1> QED
  BY <1>1, <1>2, <1>3, <1>5, <1>6

-----------------------------------------------------------------------------
(* Forms and the errors they stand for.                                    *)

\* The assignment under which a sum of noise terms is the sum of its magnitudes.
NegativeAt(xi, t, p) ==
  \E k \in 1 .. Len(xi) : xi[k].symbol = t /\ Place(xi, k) = p /\ xi[k].magnitude < 0

Signs(xi) == [t \in Nat |-> [p \in Nat |-> IF NegativeAt(xi, t, p) THEN -1 ELSE 1]]

LEMMA SignsMatch ==
  ASSUME NEW xi \in Seq(NoiseTerms)
  PROVE  /\ Signs(xi) \in Assignments
         /\ \A t, p \in Nat : Signs(xi)[t][p] \in {-1, 1}
         /\ \A k \in 1 .. Len(xi) :
              Signs(xi)[xi[k].symbol][Place(xi, k)] * xi[k].magnitude
                = Magnitude(xi[k].magnitude)
<1>1. ASSUME NEW k \in 1 .. Len(xi)
      PROVE  Signs(xi)[xi[k].symbol][Place(xi, k)] * xi[k].magnitude = Magnitude(xi[k].magnitude)
  <2> DEFINE t == xi[k].symbol  p == Place(xi, k)  m == xi[k].magnitude
  <2>1. t \in Nat /\ p \in Nat /\ m \in Int
    BY PlaceType
  <2>2. NegativeAt(xi, t, p) <=> m < 0
    <3>1. m < 0 => NegativeAt(xi, t, p)
      BY DEF NegativeAt
    <3>2. ASSUME NEW l \in 1 .. Len(xi), xi[l].symbol = t, Place(xi, l) = p PROVE l = k
      <4>1. Place(xi, l) \in Nat /\ l \in Int /\ k \in Int
        BY PlaceType
      <4>2. ~ (l < k)
        BY <3>2, <4>1, PlacesDiffer
      <4>3. ~ (k < l)
        BY <3>2, <4>1, PlacesDiffer
      <4> QED
        BY <4>1, <4>2, <4>3
    <3> QED
      BY <3>1, <3>2 DEF NegativeAt
  <2>3. Signs(xi)[t][p] = IF m < 0 THEN -1 ELSE 1
    BY <2>1, <2>2 DEF Signs
  <2> HIDE DEF t, p, m
  <2>4. Signs(xi)[t][p] * m = Magnitude(m)
    BY <2>1, <2>3 DEF Magnitude
  <2> QED
    BY <2>4 DEF t, p, m
<1>2. ASSUME NEW t \in Nat, NEW p \in Nat
      PROVE  Signs(xi)[t][p] \in {-1, 1} /\ Signs(xi)[t][p] \in Int
  BY DEF Signs
<1>3. Signs(xi) \in Assignments
  BY DEF Signs, Assignments
<1> QED
  BY <1>1, <1>2, <1>3

\* The absolute sum is a value.
LEMMA AbsSumAttained ==
  ASSUME NEW f \in Forms
  PROVE  Value(Signs(f.xi), f.xi) = noiseTermsAbsSum(f)
<1> DEFINE xi == f.xi
<1>1. xi \in Seq(NoiseTerms)
  BY DEF Forms
<1>2. noiseTermsAbsSum(f) = Total(Magnitudes(xi))
  BY <1>1, AbsSumIs
<1>3. ValueTerms(Signs(xi), xi) = Magnitudes(xi)
  <2>1. \A k \in 1 .. Len(xi) : Signs(xi)[xi[k].symbol][Place(xi, k)] * xi[k].magnitude
                                  = Magnitude(xi[k].magnitude)
    BY <1>1, SignsMatch
  <2> QED
    BY <2>1 DEF ValueTerms, Magnitudes
<1> QED
  BY <1>2, <1>3 DEF Value

\* Under an assignment bounded by d, no value exceeds d times the absolute sum.
BoundedBy(eps, d) == \A t, p \in Nat : Magnitude(eps[t][p]) <= d

LEMMA ValueBounded ==
  ASSUME NEW f \in Forms, NEW eps \in Assignments, NEW d \in Nat, BoundedBy(eps, d)
  PROVE  Magnitude(Value(eps, f.xi)) <= d * noiseTermsAbsSum(f)
<1> DEFINE xi == f.xi
           a == ValueTerms(eps, xi)
           m == Magnitudes(xi)
           b == [k \in 1 .. Len(xi) |-> d * m[k]]
           c == [k \in 1 .. Len(xi) |-> (-1) * a[k]]
<1>1. xi \in Seq(NoiseTerms)
  BY DEF Forms
<1> HIDE DEF xi
<1>2. /\ a \in Seq(Int) /\ Len(a) = Len(xi) /\ Value(eps, xi) = Total(a)
      /\ m \in Seq(Int) /\ Len(m) = Len(xi) /\ noiseTermsAbsSum(f) = Total(m)
      /\ Len(xi) \in Nat
  BY <1>1, ValueTermsType, AbsSumIs DEF Value, xi
<1>3. ASSUME NEW k \in 1 .. Len(xi) PROVE a[k] <= d * m[k] /\ -a[k] <= d * m[k]
  <2> DEFINE e == eps[xi[k].symbol][Place(xi, k)]  x == xi[k].magnitude
  <2>1. e \in Int /\ x \in Int /\ xi[k].symbol \in Nat /\ Place(xi, k) \in Nat
    BY <1>1, PlaceType, ValueTermsType
  <2>2. Magnitude(e) <= d
    BY <2>1 DEF BoundedBy
  <2>3. a[k] = e * x /\ m[k] = Magnitude(x)
    BY DEF ValueTerms, Magnitudes
  <2> HIDE DEF e, x, a, m
  <2>4. Magnitude(e * x) <= d * Magnitude(x)
    <3>1. Magnitude(x) \in Int
      BY <2>1, MagnitudeIs
    <3>2. Magnitude(x) <= Magnitude(x)
      BY <3>1
    <3> QED
      BY <2>1, <2>2, <3>1, <3>2, MagnitudeOfProduct
  <2>5. e * x \in Int
    BY <2>1
  <2>6. e * x <= Magnitude(e * x) /\ -(e * x) <= Magnitude(e * x) /\ Magnitude(e * x) \in Int
    BY <2>5, MagnitudeIs
  <2> DEFINE y == e * x  M == Magnitude(y)  D == d * Magnitude(x)
  <2>7. D \in Int
    <3>1. Magnitude(x) \in Int
      BY <2>1, MagnitudeIs
    <3> QED
      BY <3>1
  <2>8. y \in Int /\ M \in Int /\ M <= D /\ y <= M /\ -y <= M
    BY <2>4, <2>5, <2>6
  <2> HIDE DEF y, M, D
  <2>9. y <= D /\ -y <= D
    BY <2>7, <2>8
  <2> QED
    BY <2>3, <2>9 DEF y, D
<1>4. \A k \in 1 .. Len(xi) : a[k] \in Int /\ m[k] \in Int
  <2> HIDE DEF a, m
  <2> QED
    BY <1>2
<1>5. /\ b \in Seq(Int) /\ Len(b) = Len(xi) /\ \A k \in 1 .. Len(xi) : b[k] = d * m[k]
      /\ c \in Seq(Int) /\ Len(c) = Len(xi) /\ \A k \in 1 .. Len(xi) : c[k] = (-1) * a[k]
  <2> HIDE DEF a, m
  <2>1. \A k \in 1 .. Len(xi) : d * m[k] \in Int /\ (-1) * a[k] \in Int
    BY <1>4
  <2> QED
    BY <1>2, <2>1
<1> HIDE DEF a, b, c, m
<1>6. Total(b) = d * Total(m)
  BY <1>2, <1>5, TotalMultiplies
<1>7. Total(c) = (-1) * Total(a)
  <2>1. -1 \in Int
    OBVIOUS
  <2> QED
    BY <1>2, <1>5, <2>1, TotalMultiplies
<1>8. Total(a) <= Total(b)
  BY <1>2, <1>3, <1>5, TotalGrows
<1>9. Total(c) <= Total(b)
  <2>1. \A k \in 1 .. Len(c) : c[k] <= b[k]
    BY <1>3, <1>4, <1>5
  <2> QED
    BY <1>5, <2>1, TotalGrows
<1>10. Total(a) \in Int /\ Total(b) \in Int
  BY <1>2, <1>5, TotalType
<1>11. Magnitude(Total(a)) <= Total(b)
  BY <1>7, <1>8, <1>9, <1>10 DEF Magnitude
<1> QED
  BY <1>2, <1>6, <1>11 DEF xi

\* A form together with the error that it is claimed to cover in an execution.
Claim(form, error) == [form |-> form, error |-> error]
Claims == [form : Forms, error : Int]

\* One assignment to the unknowns, of numbers between -1 and 1, makes every form
\* the error that occurs.  The numbers are fractions with the denominator d.
Explains(eps, d, claims) ==
  /\ d \in Nat /\ d > 0 /\ eps \in Assignments /\ BoundedBy(eps, d)
  /\ \A m \in claims : d * m.error = Value(eps, m.form.xi)

Consistent(claims) == \E eps, d : Explains(eps, d, claims)

LEMMA ClaimsFields ==
  ASSUME NEW m \in Claims
  PROVE  m.form \in Forms /\ m.error \in Int /\ m.form.xi \in Seq(NoiseTerms)
BY DEF Claims, Forms

\* Forms that can be explained cover their errors.
LEMMA ConsistentCovers ==
  ASSUME NEW claims \in SUBSET Claims, Consistent(claims), NEW m \in claims
  PROVE  Magnitude(m.error) <= noiseTermsAbsSum(m.form)
<1>1. PICK eps, d : Explains(eps, d, claims)
  BY DEF Consistent
<1> DEFINE e == m.error  f == m.form  A == noiseTermsAbsSum(f)
<1>2. e \in Int /\ f \in Forms /\ f.xi \in Seq(NoiseTerms)
  BY ClaimsFields
<1>3. d \in Nat /\ d > 0 /\ eps \in Assignments /\ BoundedBy(eps, d) /\ d * e = Value(eps, f.xi)
  BY <1>1 DEF Explains
<1> HIDE DEF e, f
<1>4. Magnitude(d * e) <= d * A
  BY <1>2, <1>3, ValueBounded
<1>5. Magnitude(d * e) = d * Magnitude(e)
  <2>1. Magnitude(d * e) = Magnitude(d) * Magnitude(e)
    BY <1>2, <1>3, MagnitudeMultiplies
  <2>2. Magnitude(d) = d
    BY <1>3 DEF Magnitude
  <2> QED
    BY <2>1, <2>2
<1>6. A \in Int /\ Magnitude(e) \in Int
  BY <1>2, AbsSumIs, MagnitudeIs
<1> DEFINE M == Magnitude(e)
<1> HIDE DEF A, M
<1>7. d * M <= d * A
  BY <1>4, <1>5 DEF M
<1>8. M <= A
  BY <1>3, <1>6, <1>7, FactorCancels DEF M
<1> QED
  BY <1>8 DEF M, A, e, f

LEMMA ConsistentSubset ==
  ASSUME NEW claims, NEW others \in SUBSET claims, Consistent(claims)
  PROVE  Consistent(others)
<1>1. PICK eps, d : Explains(eps, d, claims)
  BY DEF Consistent
<1>2. Explains(eps, d, others)
  BY <1>1 DEF Explains
<1> QED
  BY <1>2 DEF Consistent

LEMMA NothingConsistent == Consistent({})
<1> DEFINE eps == [t \in Nat |-> [p \in Nat |-> 0]]
<1>1. eps \in Assignments
  BY DEF Assignments
<1>2. BoundedBy(eps, 1)
  BY DEF BoundedBy, Magnitude
<1>3. 1 \in Nat /\ 1 > 0
  OBVIOUS
<1> HIDE DEF eps
<1>4. Explains(eps, 1, {})
  BY <1>1, <1>2, <1>3 DEF Explains
<1> QED
  BY <1>4 DEF Consistent

\* The sum of two claims, and their difference, can be claimed too.
LEMMA ConsistentSum ==
  ASSUME NEW claims \in SUBSET Claims, Consistent(claims), NEW m \in claims, NEW n \in claims
  PROVE  /\ Consistent(claims \cup {Claim(Sum(m.form, n.form), m.error + n.error)})
         /\ Consistent(claims \cup {Claim(Difference(m.form, n.form), m.error - n.error)})
<1>1. PICK eps, d : Explains(eps, d, claims)
  BY DEF Consistent
<1> DEFINE e == m.error  k == n.error  f == m.form  g == n.form
           x == Value(eps, f.xi)  y == Value(eps, g.xi)
<1>2. /\ e \in Int /\ f \in Forms /\ f.xi \in Seq(NoiseTerms)
      /\ k \in Int /\ g \in Forms /\ g.xi \in Seq(NoiseTerms)
  BY ClaimsFields
<1>3. d \in Nat /\ eps \in Assignments /\ d * e = x /\ d * k = y
  BY <1>1 DEF Explains
<1> HIDE DEF e, k, f, g
<1>4. Value(eps, Sum(f, g).xi) = x + y /\ Value(eps, Difference(f, g).xi) = x - y
  BY <1>2, <1>3, SumIs, DifferenceIs
<1>5. d * (e + k) = d * e + d * k /\ d * (e - k) = d * e - d * k
  BY <1>2, <1>3
<1>6. d * (e + k) = Value(eps, Sum(f, g).xi) /\ d * (e - k) = Value(eps, Difference(f, g).xi)
  BY <1>3, <1>4, <1>5
<1>7. /\ Explains(eps, d, claims \cup {Claim(Sum(f, g), e + k)})
      /\ Explains(eps, d, claims \cup {Claim(Difference(f, g), e - k)})
  BY <1>1, <1>6 DEF Explains, Claim
<1> QED
  BY <1>7 DEF Consistent, e, k, f, g

\* A form whose terms all have new symbols can be claimed for any error that is at
\* most its absolute sum.  Terms of magnitude zero may have old symbols.
LEMMA ConsistentFresh ==
  ASSUME NEW claims \in SUBSET Claims, Consistent(claims), NEW s \in Nat,
         \A m \in claims : Below(m.form.xi, s),
         NEW form \in Forms, NEW error \in Int, Magnitude(error) <= noiseTermsAbsSum(form),
         \A k \in 1 .. Len(form.xi) : form.xi[k].symbol >= s \/ form.xi[k].magnitude = 0
  PROVE  Consistent(claims \cup {Claim(form, error)})
<1>1. PICK eps, d : Explains(eps, d, claims)
  BY DEF Consistent
<1> DEFINE A == noiseTermsAbsSum(form)
           sgn == Signs(form.xi)
<1>2. /\ d \in Nat /\ d > 0 /\ eps \in Assignments /\ BoundedBy(eps, d)
      /\ \A m \in claims : d * m.error = Value(eps, m.form.xi)
  BY <1>1 DEF Explains
<1>3. form.xi \in Seq(NoiseTerms) /\ A \in Int /\ A >= 0
  <2>1. form.xi \in Seq(NoiseTerms)
    BY DEF Forms
  <2> QED
    BY <2>1, AbsSumIs
<1>4. Magnitude(error) <= A /\ Magnitude(error) \in Nat
  BY MagnitudeIs
<1>5. CASE A = 0
  <2>1. error = 0
    BY <1>4, <1>5, MagnitudeIs DEF Magnitude
  <2>2. Magnitude(Value(eps, form.xi)) <= d * A
    BY <1>2, ValueBounded
  <2>3. d * A = 0 /\ d * error = 0
    BY <1>2, <1>5, <2>1
  <2>4. Value(eps, form.xi) \in Int
    BY <1>2, <1>3, ValueTermsType
  <2>5. Value(eps, form.xi) = 0
    <3> DEFINE v == Value(eps, form.xi)
    <3>1. v \in Int /\ Magnitude(v) <= 0
      BY <2>2, <2>3, <2>4
    <3> HIDE DEF v
    <3>2. v = 0
      BY <3>1 DEF Magnitude
    <3> QED
      BY <3>2 DEF v
  <2>6. Explains(eps, d, claims \cup {Claim(form, error)})
    BY <1>1, <2>3, <2>5 DEF Explains, Claim
  <2> QED
    BY <2>6 DEF Consistent
<1>6. CASE A > 0
  <2> DEFINE D == d * A
             c == d * error
             new == [t \in Nat |-> [p \in Nat |-> IF t < s THEN A * eps[t][p] ELSE c * sgn[t][p]]]
  <2>1. D \in Int /\ D > 0 /\ c \in Int
    BY <1>2, <1>3, <1>6, ProductOfPositives
  <2>2. /\ sgn \in Assignments
        /\ \A t, p \in Nat : sgn[t][p] \in {-1, 1}
        /\ \A k \in 1 .. Len(form.xi) :
             sgn[form.xi[k].symbol][Place(form.xi, k)] * form.xi[k].magnitude
               = Magnitude(form.xi[k].magnitude)
    BY <1>3, SignsMatch
  <2>3. Magnitude(c) <= D
    <3>1. Magnitude(d) <= d
      BY <1>2 DEF Magnitude
    <3> QED
      BY <1>2, <1>3, <1>4, <3>1, MagnitudeOfProduct
  <2> HIDE DEF A, sgn
  <2>4. ASSUME NEW t \in Nat, NEW p \in Nat
        PROVE  /\ new[t][p] = IF t < s THEN A * eps[t][p] ELSE c * sgn[t][p]
               /\ new[t][p] \in Int /\ Magnitude(new[t][p]) <= D
    <3>1. new[t][p] = IF t < s THEN A * eps[t][p] ELSE c * sgn[t][p]
      OBVIOUS
    <3>2. eps[t][p] \in Int /\ Magnitude(eps[t][p]) <= d
      BY <1>2 DEF Assignments, BoundedBy
    <3> HIDE DEF new
    <3>3. CASE t < s
      <4>1. A * eps[t][p] \in Int
        BY <1>3, <3>2
      <4>2. Magnitude(A * eps[t][p]) <= A * d
        <5> DEFINE x == eps[t][p]
        <5>1. Magnitude(A) <= A
          BY <1>3 DEF Magnitude
        <5>2. x \in Int /\ Magnitude(x) <= d /\ A \in Int /\ A >= 0 /\ d \in Int /\ d >= 0
          BY <1>2, <1>3, <3>2
        <5> HIDE DEF x
        <5>3. Magnitude(A * x) <= A * d
          BY ONLY <5>1, <5>2, MagnitudeOfProduct
        <5> QED
          BY <5>3 DEF x
      <4>3. A * d = D
        BY <1>2, <1>3
      <4> QED
        BY <3>1, <3>3, <4>1, <4>2, <4>3
    <3>4. CASE ~ (t < s)
      <4>1. sgn[t][p] = -1 \/ sgn[t][p] = 1
        BY <2>2
      <4>2. c * sgn[t][p] = -c \/ c * sgn[t][p] = c
        BY <2>1, <4>1
      <4>3. Magnitude(-c) = Magnitude(c) /\ -c \in Int
        <5>1. c \in Int /\ -c \in Int
          BY <2>1
        <5>2. Magnitude(-c) = Magnitude(c)
          BY <5>1, MagnitudeIs, Zenon
        <5> QED
          BY <5>1, <5>2
      <4> QED
        BY <2>1, <2>3, <3>1, <3>4, <4>2, <4>3
    <3> QED
      BY <3>3, <3>4
  <2>5. new \in Assignments /\ BoundedBy(new, D)
    <3>1. \A t, p \in Nat : (IF t < s THEN A * eps[t][p] ELSE c * sgn[t][p]) \in Int
      BY <2>4
    <3>2. new \in Assignments
      BY <3>1 DEF Assignments
    <3> HIDE DEF new, D
    <3> QED
      BY <2>4, <3>2 DEF BoundedBy
  <2> HIDE DEF new, c
  <2>6. ASSUME NEW m \in claims PROVE D * m.error = Value(new, m.form.xi)
    <3> DEFINE xi == m.form.xi  e == m.error
               a == ValueTerms(eps, xi)  b == ValueTerms(new, xi)
    <3>1. xi \in Seq(NoiseTerms) /\ e \in Int /\ Below(xi, s)
      BY ClaimsFields
    <3>2. d * e = Value(eps, xi)
      BY <1>2
    <3> HIDE DEF xi, e
    <3>3. /\ a \in Seq(Int) /\ Len(a) = Len(xi) /\ Value(eps, xi) = Total(a)
          /\ b \in Seq(Int) /\ Len(b) = Len(xi) /\ Value(new, xi) = Total(b)
      BY <1>2, <2>5, <3>1, ValueTermsType DEF Value
    <3>4. ASSUME NEW k \in 1 .. Len(xi) PROVE b[k] = A * a[k]
      <4> DEFINE x == eps[xi[k].symbol][Place(xi, k)]  y == xi[k].magnitude
      <4>1. /\ x \in Int /\ y \in Int /\ xi[k].symbol \in Nat /\ Place(xi, k) \in Nat
            /\ xi[k].symbol < s
        BY <1>2, <3>1, PlaceType, ValueTermsType DEF Below
      <4>2. new[xi[k].symbol][Place(xi, k)] = A * x
        BY <2>4, <4>1
      <4>3. a[k] = x * y
        BY DEF ValueTerms
      <4>4. b[k] = (A * x) * y
        BY <4>2 DEF ValueTerms
      <4> HIDE DEF x, y
      <4>5. (A * x) * y = A * (x * y)
        BY <1>3, <4>1
      <4> QED
        BY <4>3, <4>4, <4>5
    <3> HIDE DEF a, b
    <3>5. Total(b) = A * Total(a)
      BY <1>3, <3>3, <3>4, TotalMultiplies
    <3>6. D * e = A * (d * e)
      BY <1>2, <1>3, <3>1
    <3> QED
      BY <3>2, <3>3, <3>5, <3>6 DEF xi, e
  <2>7. D * error = Value(new, form.xi)
    <3> DEFINE xi == form.xi
               a == Magnitudes(xi)  b == ValueTerms(new, xi)
    <3>1. /\ a \in Seq(Int) /\ Len(a) = Len(xi) /\ A = Total(a)
          /\ b \in Seq(Int) /\ Len(b) = Len(xi) /\ Value(new, xi) = Total(b)
      BY <1>3, <2>5, ValueTermsType, AbsSumIs DEF Value, A
    <3>2. ASSUME NEW k \in 1 .. Len(xi) PROVE b[k] = c * a[k]
      <4> DEFINE t == xi[k].symbol  p == Place(xi, k)  y == xi[k].magnitude
      <4>1. /\ t \in Nat /\ p \in Nat /\ y \in Int /\ new[t][p] \in Int
            /\ t >= s \/ y = 0
        BY <1>3, <2>4, PlaceType
      <4>2. b[k] = new[t][p] * y /\ a[k] = Magnitude(y)
        BY DEF ValueTerms, Magnitudes
      <4>3. sgn[t][p] * y = Magnitude(y) /\ sgn[t][p] \in Int
        BY <2>2, <4>1
      <4>4. ~ (t < s) => new[t][p] = c * sgn[t][p]
        BY <2>4, <4>1
      <4> DEFINE z == sgn[t][p]  x == new[t][p]
      <4> HIDE DEF t, p, y, z, x
      <4>5. CASE y = 0
        <5>1. x * y = 0 /\ c * Magnitude(y) = 0
          BY <2>1, <4>1, <4>5 DEF Magnitude, x
        <5> QED
          BY <4>2, <5>1 DEF x
      <4>6. CASE t >= s
        <5>1. x = c * z /\ z * y = Magnitude(y) /\ z \in Int
          BY <4>1, <4>3, <4>4, <4>6 DEF x, z
        <5>2. (c * z) * y = c * (z * y)
          BY <2>1, <4>1, <5>1
        <5> QED
          BY <4>2, <5>1, <5>2 DEF x
      <4> QED
        BY <4>1, <4>5, <4>6
    <3> HIDE DEF a, b
    <3>3. Total(b) = c * Total(a)
      BY <2>1, <3>1, <3>2, TotalMultiplies
    <3>4. D * error = c * A
      BY <1>2, <1>3 DEF c
    <3> QED
      BY <3>1, <3>3, <3>4
  <2> HIDE DEF D
  <2>8. Explains(new, D, claims \cup {Claim(form, error)})
    <3>1. D \in Nat
      BY <2>1
    <3>2. \A m \in claims \cup {Claim(form, error)} : D * m.error = Value(new, m.form.xi)
      BY <2>6, <2>7 DEF Claim
    <3> QED
      BY <2>1, <2>5, <3>1, <3>2 DEF Explains
  <2> QED
    BY <2>8 DEF Consistent
<1> QED
  BY <1>3, <1>5, <1>6

-------------------------------------------------------------------------------
(* Products.                                                               *)

\* zs is what the walk w pushes when a product is formed.
LinearAlong(f, g, zs, w, last) ==
  /\ Walks(f.xi, g.xi, w, last)
  /\ zs = [n \in 1 .. last |-> LinearTerm(f, g, w[n - 1])]

LEMMA LinearAlongIs ==
  ASSUME NEW f \in Forms, NEW g \in Forms
  PROVE  \E w, last : LinearAlong(f, g, LinearTerms(f, g), w, last)
<1>1. f.xi \in Seq(NoiseTerms) /\ g.xi \in Seq(NoiseTerms)
  BY DEF Forms
<1>2. PICK w, last : Walks(f.xi, g.xi, w, last)
  BY <1>1, StepsWalk
<1>3. Steps(f.xi, g.xi) = [n \in 1 .. last |-> w[n - 1]]
  BY <1>2 DEF Walks
<1>4. LinearTerms(f, g) = [n \in 1 .. last |-> LinearTerm(f, g, w[n - 1])]
  BY <1>3 DEF LinearTerms
<1> QED
  BY <1>2, <1>4 DEF LinearAlong

\* The term pushed in step n.
LinearStep(f, g, zs, w, n) ==
  /\ zs[n] \in NoiseTerms
  /\ w[n - 1].this <= Len(f.xi) => /\ w[n - 1].this \in 1 .. Len(f.xi)
                                   /\ zs[n].symbol = f.xi[w[n - 1].this].symbol
  /\ w[n - 1].this > Len(f.xi) => /\ w[n - 1].other \in 1 .. Len(g.xi)
                                  /\ zs[n].symbol = g.xi[w[n - 1].other].symbol
  /\ zs[n].magnitude = Weighted(f.xi, g.xi, w[n - 1], g.x0, f.x0)

LEMMA LinearTermIs ==
  ASSUME NEW f \in Forms, NEW g \in Forms, NEW zs, NEW w, NEW last,
         LinearAlong(f, g, zs, w, last), NEW n \in 1 .. last
  PROVE  LinearStep(f, g, zs, w, n)
<1> DEFINE xs == f.xi  ys == g.xi  at == w[n - 1]  i == at.this  j == at.other
           a == g.x0  b == f.x0
           takes == TakesThis(xs, ys, at)  other == TakesOther(xs, ys, at)
<1>1. /\ xs \in Seq(NoiseTerms) /\ ys \in Seq(NoiseTerms) /\ a \in Int /\ b \in Int
      /\ Len(xs) \in Nat /\ Len(ys) \in Nat
  BY DEF Forms
<1>2. /\ at \in Positions(xs, ys)
      /\ takes \/ other
      /\ takes => i \in 1 .. Len(xs)
      /\ other => j \in 1 .. Len(ys)
  BY <1>1, StepTakes DEF StepOf, LinearAlong
<1>3. i \in 1 .. Len(xs) + 1 /\ j \in 1 .. Len(ys) + 1
  BY <1>2 DEF Positions
<1>4. zs[n] = LinearTerm(f, g, at)
  BY DEF LinearAlong
<1>5. zs[n] = [symbol |-> IF i <= Len(xs) THEN xs[i].symbol ELSE ys[j].symbol,
               magnitude |-> Weighted(xs, ys, at, a, b)]
  BY <1>4 DEF LinearTerm, NoiseTerm
<1>6. /\ i <= Len(xs) => i \in 1 .. Len(xs)
      /\ i > Len(xs) => j \in 1 .. Len(ys)
  <2> HIDE DEF xs, ys, at, takes, other
  <2> QED
    BY <1>1, <1>2, <1>3
<1>7. /\ i \in 1 .. Len(xs) => xs[i].symbol \in Nat /\ xs[i].magnitude \in Int
      /\ j \in 1 .. Len(ys) => ys[j].symbol \in Nat /\ ys[j].magnitude \in Int
  BY <1>1, PlaceType
<1>8. Weighted(xs, ys, at, a, b) \in Int
  <2> DEFINE mx == xs[i].magnitude  my == ys[j].magnitude
  <2>1. Weighted(xs, ys, at, a, b) = (IF takes THEN a * mx ELSE 0) + (IF other THEN b * my ELSE 0)
    BY DEF Weighted
  <2>2. (takes => mx \in Int) /\ (other => my \in Int)
    BY <1>2, <1>7
  <2> HIDE DEF mx, my, takes, other, a, b
  <2>3. (takes => a * mx \in Int) /\ (other => b * my \in Int)
    BY <1>1, <2>2
  <2> QED
    BY <2>1, <2>3
<1> DEFINE wt == Weighted(xs, ys, at, a, b)
<1> HIDE DEF i, j, wt
<1>9. i <= Len(xs) \/ i > Len(xs)
  BY <1>1, <1>3
<1>10. zs[n] \in NoiseTerms
  BY <1>5, <1>6, <1>7, <1>8, <1>9 DEF NoiseTerms, wt
<1>11. /\ i <= Len(xs) => zs[n].symbol = xs[i].symbol
       /\ i > Len(xs) => zs[n].symbol = ys[j].symbol
       /\ zs[n].magnitude = wt
  BY <1>1, <1>3, <1>5 DEF wt
<1> QED
  BY <1>6, <1>10, <1>11 DEF LinearStep, i, j, wt

\* The terms are in order, and no symbol is new.
LEMMA LinearIs ==
  ASSUME NEW f \in Forms, NEW g \in Forms, NEW zs, NEW w, NEW last,
         LinearAlong(f, g, zs, w, last)
  PROVE  /\ zs \in Seq(NoiseTerms) /\ Len(zs) = last /\ last \in Nat
         /\ Sorted(zs)
         /\ \A s \in Nat : Below(f.xi, s) /\ Below(g.xi, s) => Below(zs, s)
<1> DEFINE xs == f.xi  ys == g.xi
<1>1. /\ xs \in Seq(NoiseTerms) /\ ys \in Seq(NoiseTerms) /\ Sorted(xs) /\ Sorted(ys)
      /\ Len(xs) \in Nat /\ Len(ys) \in Nat
  BY DEF Forms
<1>2. last \in Nat /\ Walks(xs, ys, w, last)
  <2>1. Walks(xs, ys, w, last)
    BY DEF LinearAlong
  <2>2. last \in 0 .. Len(xs) + Len(ys)
    BY <2>1 DEF Walks
  <2>3. last \in Nat
    BY <1>1, <2>2
  <2> QED
    BY <2>1, <2>3
<1>3. zs \in Seq(NoiseTerms) /\ Len(zs) = last
  <2>1. \A n \in 1 .. last : zs[n] \in NoiseTerms
    BY LinearTermIs DEF LinearStep
  <2>2. zs = [n \in 1 .. last |-> zs[n]]
    BY DEF LinearAlong
  <2> QED
    BY <1>2, <2>1, <2>2
<1>4. ASSUME NEW n \in 1 .. last - 1 PROVE zs[n].symbol <= zs[n + 1].symbol
  <2> DEFINE m == n + 1
             at == w[n - 1]  to == w[n]
             i == at.this  j == at.other
             takes == TakesThis(xs, ys, at)  other == TakesOther(xs, ys, at)
  <2>1. n \in 1 .. last /\ m \in 1 .. last /\ m - 1 = n
    BY <1>2
  <2>2. /\ at \in Positions(xs, ys) /\ to = Advance(xs, ys, at)
        /\ takes \/ other
    <3>1. StepOf(xs, ys, w, last, n)
      BY <1>1, <1>2, <2>1, StepTakes, Zenon
    <3> QED
      BY <3>1 DEF StepOf
  <2>3. /\ i <= Len(xs) => i \in 1 .. Len(xs) /\ zs[n].symbol = xs[i].symbol
        /\ i > Len(xs) => j \in 1 .. Len(ys) /\ zs[n].symbol = ys[j].symbol
    BY <2>1, LinearTermIs DEF LinearStep
  <2>4. /\ to.this <= Len(xs) => to.this \in 1 .. Len(xs) /\ zs[m].symbol = xs[to.this].symbol
        /\ to.this > Len(xs) => to.other \in 1 .. Len(ys) /\ zs[m].symbol = ys[to.other].symbol
    <3> HIDE DEF m
    <3>1. /\ w[m - 1].this <= Len(f.xi) => /\ w[m - 1].this \in 1 .. Len(f.xi)
                                           /\ zs[m].symbol = f.xi[w[m - 1].this].symbol
          /\ w[m - 1].this > Len(f.xi) => /\ w[m - 1].other \in 1 .. Len(g.xi)
                                          /\ zs[m].symbol = g.xi[w[m - 1].other].symbol
      BY <2>1, LinearTermIs DEF LinearStep
    <3> QED
      BY <2>1, <3>1
  <2>5. /\ to.this = IF takes THEN i + 1 ELSE i
        /\ to.other = IF other THEN j + 1 ELSE j
    BY <1>1, <2>2, AdvanceType
  <2>6. i \in 1 .. Len(xs) + 1 /\ j \in 1 .. Len(ys) + 1
    BY <2>2 DEF Positions
  <2>7. /\ takes => i <= Len(xs) /\ (j <= Len(ys) => xs[i].symbol <= ys[j].symbol)
        /\ other => j <= Len(ys)
    BY DEF TakesThis, TakesOther
  <2> SUFFICES zs[n].symbol <= zs[m].symbol
    OBVIOUS
  <2> HIDE DEF m, at, to, takes, other, i, j, xs, ys
  <2>8. \A k \in 1 .. Len(xs) : xs[k].symbol \in Nat
    BY <1>1, PlaceType
  <2>9. \A k \in 1 .. Len(ys) : ys[k].symbol \in Nat
    BY <1>1, PlaceType
  <2>10. \A k \in 1 .. Len(ys) : k = j \/ (other /\ k = j + 1) => ys[j].symbol <= ys[k].symbol
    BY <1>1, <2>6, <2>7, <2>9 DEF Sorted
  <2>11. CASE to.this <= Len(xs)
    <3>1. i <= Len(xs)
      BY <1>1, <2>5, <2>6, <2>11
    <3>2. CASE takes
      <4>1. to.this = i + 1 /\ i \in 1 .. Len(xs) - 1
        BY <1>1, <2>5, <2>6, <2>11, <3>2
      <4> QED
        BY <1>1, <2>3, <2>4, <2>11, <3>1, <4>1 DEF Sorted
    <3>3. CASE ~ takes
      <4>1. to.this = i
        BY <2>5, <3>3
      <4> QED
        BY <2>3, <2>4, <2>8, <2>11, <3>1, <4>1
    <3> QED
      BY <3>2, <3>3
  <2>12. CASE to.this > Len(xs)
    <3>1. to.other \in 1 .. Len(ys) /\ zs[m].symbol = ys[to.other].symbol
      BY <2>4, <2>12
    <3>2. to.other = j \/ (other /\ to.other = j + 1)
      BY <2>5
    <3>3. j \in 1 .. Len(ys) /\ ys[j].symbol <= ys[to.other].symbol
      BY <1>1, <2>6, <2>10, <3>1, <3>2
    <3>4. CASE i <= Len(xs)
      <4>1. takes
        BY <1>1, <2>5, <2>6, <2>12, <3>4
      <4>2. xs[i].symbol <= ys[j].symbol
        BY <2>7, <3>3, <4>1
      <4> QED
        BY <2>3, <2>8, <2>9, <3>1, <3>3, <3>4, <4>2
    <3>5. CASE i > Len(xs)
      BY <2>3, <3>1, <3>3, <3>5
    <3> QED
      BY <1>1, <2>6, <3>4, <3>5
  <2>13. to.this <= Len(xs) \/ to.this > Len(xs)
    BY <1>1, <2>5, <2>6
  <2> QED
    BY <2>11, <2>12, <2>13
<1>5. Sorted(zs)
  BY <1>3, <1>4 DEF Sorted
<1>6. ASSUME NEW s \in Nat, Below(xs, s), Below(ys, s) PROVE Below(zs, s)
  <2> SUFFICES ASSUME NEW n \in 1 .. last PROVE zs[n].symbol < s
    BY <1>3 DEF Below
  <2> DEFINE i == w[n - 1].this  j == w[n - 1].other
  <2>1. /\ i <= Len(xs) => i \in 1 .. Len(xs) /\ zs[n].symbol = xs[i].symbol
        /\ i > Len(xs) => j \in 1 .. Len(ys) /\ zs[n].symbol = ys[j].symbol
    BY LinearTermIs DEF LinearStep
  <2>2. i \in 1 .. Len(xs) + 1
    BY <1>1, <1>2, StepTakes DEF StepOf, Positions
  <2>3. i <= Len(xs) \/ i > Len(xs)
    BY <1>1, <2>2
  <2> QED
    BY <1>6, <2>1, <2>3 DEF Below
<1> QED
  BY <1>2, <1>3, <1>5, <1>6

\* The absolute sum of the linear terms, for a form around zero.
LEMMA LinearAbsSum ==
  ASSUME NEW f \in Forms, NEW g \in Forms, g.x0 = 0
  PROVE  Total(Magnitudes(LinearTerms(f, g))) = Magnitude(f.x0) * noiseTermsAbsSum(g)
<1> DEFINE zs == LinearTerms(f, g)  xs == f.xi  ys == g.xi  c == Magnitude(f.x0)
           ax == [k \in 1 .. Len(xs) |-> 0]
           my == Magnitudes(ys)
           ay == [k \in 1 .. Len(ys) |-> c * my[k]]
           az == Magnitudes(zs)
<1>1. PICK w, last : LinearAlong(f, g, zs, w, last)
  BY LinearAlongIs
<1>2. /\ xs \in Seq(NoiseTerms) /\ ys \in Seq(NoiseTerms) /\ f.x0 \in Int
      /\ Len(xs) \in Nat /\ Len(ys) \in Nat
  BY DEF Forms
<1>3. zs \in Seq(NoiseTerms) /\ Len(zs) = last /\ last \in Nat
  <2> HIDE DEF zs
  <2> QED
    BY <1>1, LinearIs
<1>4. Walks(xs, ys, w, last)
  BY <1>1 DEF LinearAlong
<1>5. /\ my \in Seq(Int) /\ Len(my) = Len(ys) /\ noiseTermsAbsSum(g) = Total(my)
      /\ c \in Int
  <2>1. c \in Int
    BY <1>2 DEF Magnitude
  <2> HIDE DEF c
  <2> QED
    BY <1>2, <2>1, AbsSumIs
<1>6. az \in Seq(Int) /\ Len(az) = last
  <2> DEFINE h == [x0 |-> 0, xi |-> zs]
  <2>1. h.xi = zs
    OBVIOUS
  <2> HIDE DEF h
  <2> QED
    BY <1>3, <2>1, AbsSumIs
<1>7. ax \in Seq(Int) /\ Len(ax) = Len(xs) /\ \A k \in 1 .. Len(ax) : ax[k] = 0
  BY <1>2
<1>8. /\ ay \in Seq(Int) /\ Len(ay) = Len(ys)
      /\ \A k \in 1 .. Len(my) : ay[k] = c * my[k]
  <2> HIDE DEF my, c
  <2>1. \A k \in 1 .. Len(ys) : c * my[k] \in Int
    BY <1>5
  <2> QED
    BY <1>2, <1>5, <2>1
<1>9. ASSUME NEW n \in 1 .. last
      PROVE  az[n] = (IF TakesThis(xs, ys, w[n - 1]) THEN ax[w[n - 1].this] ELSE 0)
                       + (IF TakesOther(xs, ys, w[n - 1]) THEN ay[w[n - 1].other] ELSE 0)
  <2> DEFINE at == w[n - 1]  i == at.this  j == at.other
             takes == TakesThis(xs, ys, at)  other == TakesOther(xs, ys, at)
             mx == xs[i].magnitude  m == ys[j].magnitude  b == f.x0
  <2>1. StepOf(xs, ys, w, last, n)
    BY <1>2, <1>4, StepTakes, Zenon
  <2>2. (takes => i \in 1 .. Len(xs)) /\ (other => j \in 1 .. Len(ys))
    BY <2>1 DEF StepOf
  <2>3. zs[n].magnitude = Weighted(xs, ys, at, 0, b)
    <3> HIDE DEF zs
    <3> QED
      BY <1>1, LinearTermIs DEF LinearStep
  <2>4. zs[n].magnitude = (IF takes THEN 0 * mx ELSE 0) + (IF other THEN b * m ELSE 0)
    BY <2>3 DEF Weighted
  <2>5. (takes => mx \in Int) /\ (other => m \in Int)
    BY <1>2, <2>2, PlaceType
  <2>6. az[n] = Magnitude(zs[n].magnitude)
    BY <1>3 DEF Magnitudes
  <2>7. (takes => ax[i] = 0) /\ (other => ay[j] = c * Magnitude(m))
    BY <2>2 DEF Magnitudes
  <2> HIDE DEF at, i, j, takes, other, mx, m, b, ax, ay, az, zs, c
  <2>8. zs[n].magnitude = IF other THEN b * m ELSE 0
    <3>1. takes => 0 * mx = 0
      BY <2>5
    <3>2. other => b * m \in Int
      BY <1>2, <2>5 DEF b
    <3> QED
      BY <2>4, <3>1, <3>2
  <2>9. other => Magnitude(b * m) = c * Magnitude(m) /\ c * Magnitude(m) \in Int
    <3>1. b \in Int /\ c \in Int /\ c = Magnitude(b)
      BY <1>2, <1>5 DEF b, c
    <3>2. other => Magnitude(m) \in Int /\ Magnitude(b * m) = Magnitude(b) * Magnitude(m)
      <4> SUFFICES ASSUME other
                   PROVE  Magnitude(m) \in Int /\ Magnitude(b * m) = Magnitude(b) * Magnitude(m)
        OBVIOUS
      <4>1. m \in Int
        BY <2>5
      <4>2. Magnitude(b * m) = Magnitude(b) * Magnitude(m)
        BY <3>1, <4>1, MagnitudeMultiplies, Zenon
      <4> QED
        BY <4>1, <4>2 DEF Magnitude
    <3> QED
      BY <3>1, <3>2
  <2>10. CASE other
    <3>1. az[n] = c * Magnitude(m) /\ az[n] \in Int
      BY <2>6, <2>8, <2>9, <2>10
    <3>2. (IF takes THEN ax[i] ELSE 0) = 0
      BY <2>7
    <3>3. (IF other THEN ay[j] ELSE 0) = az[n]
      BY <2>7, <2>10, <3>1
    <3>4. az[n] = (IF takes THEN ax[i] ELSE 0) + (IF other THEN ay[j] ELSE 0)
      BY <3>1, <3>2, <3>3
    <3> QED
      BY <3>4 DEF takes, other, i, j, at
  <2>11. CASE ~ other
    <3>1. az[n] = 0
      BY <2>6, <2>8, <2>11 DEF Magnitude
    <3>2. (IF takes THEN ax[i] ELSE 0) = 0
      BY <2>7
    <3>3. (IF other THEN ay[j] ELSE 0) = 0
      BY <2>11
    <3>4. az[n] = (IF takes THEN ax[i] ELSE 0) + (IF other THEN ay[j] ELSE 0)
      BY <3>1, <3>2, <3>3
    <3> QED
      BY <3>4 DEF takes, other, i, j, at
  <2> QED
    BY <2>10, <2>11
<1> HIDE DEF ax, ay, az, my, zs
<1>10. AddsAlong(xs, ys, w, last, ax, ay, az)
  BY <1>6, <1>7, <1>8, <1>9 DEF AddsAlong
<1>11. Total(az) = Total(ax) + Total(ay)
  BY <1>2, <1>4, <1>10, TotalsAdd
<1>12. Total(ax) = 0
  BY <1>7, TotalOfZeros
<1>13. Total(ay) = c * Total(my)
  BY <1>5, <1>8, TotalMultiplies
<1>14. Total(ay) \in Int
  BY <1>8, TotalType
<1> QED
  BY <1>5, <1>11, <1>12, <1>13, <1>14 DEF az, zs

\* The linear terms of a form with one new symbol and one with old symbols all
\* have the new symbol.
LEMMA LinearFresh ==
  ASSUME NEW s \in Nat, NEW f \in Forms, Len(f.xi) = 1, f.xi[1].symbol = s,
         NEW g \in Forms, Below(g.xi, s),
         NEW zs, NEW w, NEW last, LinearAlong(f, g, zs, w, last),
         NEW k \in 1 .. Len(zs)
  PROVE  zs[k].symbol = s
<1> DEFINE xs == f.xi  ys == g.xi
<1>2. /\ xs \in Seq(NoiseTerms) /\ ys \in Seq(NoiseTerms)
      /\ Len(xs) = 1 /\ Len(ys) \in Nat /\ xs[1].symbol = s
  BY DEF Forms
<1>3. Walks(xs, ys, w, last)
  BY DEF LinearAlong
<1>4. zs \in Seq(NoiseTerms) /\ Len(zs) = last /\ last \in Nat
  BY LinearIs
<1> DEFINE T == {n \in 0 .. last : w[n].this = 1 \/ w[n] = End(xs, ys)}
<1>5. 0 \in T
  <2>1. w[0].this = 1
    BY <1>3 DEF Walks, Start
  <2> QED
    BY <1>4, <2>1
<1>6. ASSUME NEW n \in 0 .. last, n + 1 \in 0 .. last, n \in T PROVE n + 1 \in T
  <2> DEFINE m == n + 1  at == w[n]  to == w[m]
             takes == TakesThis(xs, ys, at)  other == TakesOther(xs, ys, at)
  <2>1. m \in 1 .. last /\ m - 1 = n /\ m \in 0 .. last
    BY <1>4, <1>6
  <2> HIDE DEF m
  <2>2. StepOf(xs, ys, w, last, m)
    BY <1>2, <1>3, <2>1, StepTakes, Zenon
  <2>3. /\ at \in Positions(xs, ys) /\ to = Advance(xs, ys, at)
        /\ other => at.other \in 1 .. Len(ys)
    BY <2>1, <2>2 DEF StepOf
  <2>4. to \in Positions(xs, ys)
    BY <1>2, <2>3, AdvanceType
  <2>5. /\ to.this = IF takes THEN at.this + 1 ELSE at.this
        /\ to.other = IF other THEN at.other + 1 ELSE at.other
    BY <1>2, <2>3, AdvanceType
  <2>6. n \in 0 .. last - 1
    BY <1>4, <2>1
  <2>7. at # End(xs, ys)
    BY <1>3, <2>6 DEF Walks
  <2>8. at.this = 1
    BY <1>6, <2>7
  <2>9. at.other \in 1 .. Len(ys) + 1
    BY <2>3 DEF Positions
  <2>10. CASE takes
    <3>1. at.other <= Len(ys) => s <= ys[at.other].symbol
      BY <1>2, <2>8, <2>10 DEF TakesThis
    <3>2. at.other \in 1 .. Len(ys) => ys[at.other].symbol < s /\ ys[at.other].symbol \in Nat
      BY <1>2, PlaceType DEF Below
    <3>3. at.other = Len(ys) + 1
      <4> DEFINE j == at.other  l == Len(ys)
      <4>1. j \notin 1 .. l
        BY <3>1, <3>2
      <4>2. j \in 1 .. l + 1 /\ l \in Nat
        BY <1>2, <2>9
      <4> HIDE DEF j, l
      <4>3. j = l + 1
        BY <4>1, <4>2
      <4> QED
        BY <4>3 DEF j, l
    <3>4. ~ other
      BY <1>2, <2>3, <3>3
    <3>5. to.this = 2 /\ to.other = Len(ys) + 1
      BY <2>5, <2>8, <2>10, <3>3, <3>4
    <3>6. to = [this |-> to.this, other |-> to.other]
      BY <2>4 DEF Positions
    <3>7. to = End(xs, ys)
      BY <1>2, <3>5, <3>6 DEF End
    <3> QED
      BY <2>1, <3>7 DEF m
  <2>11. CASE ~ takes
    BY <2>1, <2>5, <2>8, <2>11 DEF m
  <2> QED
    BY <2>10, <2>11
<1> HIDE DEF T
<1>7. \A n \in 0 .. last : n \in T
  BY <1>4, <1>5, <1>6, InductionUpTo
<1>8. k \in 1 .. last
  BY <1>4
<1>9. k - 1 \in 0 .. last /\ k - 1 \in 0 .. last - 1
  BY <1>4, <1>8
<1>10. w[k - 1].this = 1
  BY <1>3, <1>7, <1>9 DEF T, Walks
<1>11. w[k - 1].this <= Len(f.xi) => zs[k].symbol = f.xi[w[k - 1].this].symbol
  <2>1. LinearStep(f, g, zs, w, k)
    BY <1>8, LinearTermIs, Zenon
  <2> QED
    BY <2>1 DEF LinearStep
<1> QED
  BY <1>2, <1>10, <1>11

\* One term more, with a new symbol.
OneMoreTerm(zi, xi, s, m) ==
  /\ zi \in Seq(NoiseTerms) /\ Len(zi) = Len(xi) + 1
  /\ Sorted(zi) /\ Below(zi, s + 1)
  /\ \A k \in 1 .. Len(xi) : zi[k] = xi[k]
  /\ zi[Len(xi) + 1].symbol = s
  /\ Total(Magnitudes(zi)) = Total(Magnitudes(xi)) + Magnitude(m)

LEMMA OneTermMore ==
  ASSUME NEW xi \in Seq(NoiseTerms), NEW s \in Nat, Sorted(xi), Below(xi, s), NEW m \in Int,
         NEW zi, zi = xi \o <<NoiseTerm(s, m)>>
  PROVE  OneMoreTerm(zi, xi, s, m)
<1> DEFINE N == Len(xi)  term == NoiseTerm(s, m)
<1>1. term \in NoiseTerms /\ term.symbol = s /\ term.magnitude = m
  BY DEF NoiseTerms, NoiseTerm
<1> HIDE DEF term
<1>2. /\ zi \in Seq(NoiseTerms) /\ Len(zi) = N + 1 /\ N \in Nat
      /\ \A k \in 1 .. N : zi[k] = xi[k]
      /\ zi[N + 1] = term
  BY <1>1 DEF term
<1>3. \A k \in 1 .. N : xi[k].symbol \in Nat /\ xi[k].symbol < s
  BY PlaceType DEF Below
<1> HIDE DEF N
<1>4. Sorted(zi)
  <2> SUFFICES ASSUME NEW k \in 1 .. (N + 1) - 1 PROVE zi[k].symbol <= zi[k + 1].symbol
    BY <1>2 DEF Sorted
  <2>1. CASE k = N
    BY <1>1, <1>2, <1>3, <2>1
  <2>2. CASE k # N
    <3>1. k \in 1 .. N - 1 /\ k \in 1 .. N /\ k + 1 \in 1 .. N
      BY <1>2, <2>2
    <3>2. xi[k].symbol <= xi[k + 1].symbol
      BY <3>1 DEF Sorted, N
    <3> QED
      BY <1>2, <3>1, <3>2
  <2> QED
    BY <2>1, <2>2
<1>5. Below(zi, s + 1)
  <2> SUFFICES ASSUME NEW k \in 1 .. N + 1 PROVE zi[k].symbol < s + 1
    BY <1>2 DEF Below
  <2>1. CASE k = N + 1
    BY <1>1, <1>2, <2>1
  <2>2. CASE k # N + 1
    <3>1. k \in 1 .. N
      BY <1>2, <2>2
    <3>2. zi[k] = xi[k] /\ xi[k].symbol \in Nat /\ xi[k].symbol < s
      BY <1>2, <1>3, <3>1
    <3> DEFINE x == zi[k].symbol
    <3>3. x \in Nat /\ x < s
      BY <3>2
    <3> HIDE DEF x
    <3>4. x < s + 1
      BY <3>3
    <3> QED
      BY <3>4 DEF x
  <2> QED
    BY <2>1, <2>2
<1>6. Total(Magnitudes(zi)) = Total(Magnitudes(xi)) + Magnitude(m)
  <2> DEFINE a == Magnitudes(xi)  b == Magnitudes(zi)
             f == [x0 |-> 0, xi |-> xi]  g == [x0 |-> 0, xi |-> zi]
  <2>1. f.xi = xi /\ g.xi = zi
    OBVIOUS
  <2> HIDE DEF f, g
  <2>2. a \in Seq(Int) /\ Len(a) = N
    BY <2>1, AbsSumIs DEF N
  <2>3. b \in Seq(Int) /\ Len(b) = N + 1
    BY <1>2, <2>1, AbsSumIs
  <2>4. \A k \in 1 .. N : b[k] = a[k]
    BY <1>2 DEF Magnitudes, N
  <2>5. b[N + 1] = Magnitude(m)
    BY <1>1, <1>2 DEF Magnitudes
  <2> HIDE DEF a, b
  <2>6. Total(b) = Total(a) + b[Len(b)]
    BY <2>2, <2>3, <2>4, TotalOfAppended
  <2> QED
    BY <2>3, <2>5, <2>6 DEF a, b
<1> QED
  BY <1>1, <1>2, <1>4, <1>5, <1>6 DEF OneMoreTerm, N

LEMMA AbsSumOfNothing ==
  ASSUME NEW f, f.xi = <<>>
  PROVE  noiseTermsAbsSum(f) = 0
<1>1. f.xi \in Seq(NoiseTerms) /\ Len(f.xi) = 0
  OBVIOUS
<1>2. /\ Magnitudes(f.xi) \in Seq(Int) /\ Len(Magnitudes(f.xi)) = 0
      /\ noiseTermsAbsSum(f) = Total(Magnitudes(f.xi))
  BY <1>1, AbsSumIs
<1> QED
  BY <1>2, TotalOfZeros

\* What holds of the product of two forms.
IsProduct(p, f, g, s) ==
  /\ p \in Forms /\ p.x0 = f.x0 * g.x0
  /\ SymbolsDrawn(f, g) \in Nat /\ Below(p.xi, s + SymbolsDrawn(f, g))
  /\ noiseTermsAbsSum(p) = Total(Magnitudes(LinearTerms(f, g)))
                             + noiseTermsAbsSum(f) * noiseTermsAbsSum(g)
  /\ \A k \in 1 .. Len(p.xi) :
       \/ p.xi[k].symbol = s
       \/ k \in 1 .. Len(LinearTerms(f, g)) /\ p.xi[k] = LinearTerms(f, g)[k]

LEMMA ProductIs ==
  ASSUME NEW f \in Forms, NEW g \in Forms, NEW s \in Nat, Below(f.xi, s), Below(g.xi, s)
  PROVE  IsProduct(Product(f, g, s), f, g, s)
<1> DEFINE lin == LinearTerms(f, g)  p == Product(f, g, s)
           A == noiseTermsAbsSum(f)  B == noiseTermsAbsSum(g)
<1>1. PICK w, last : LinearAlong(f, g, lin, w, last)
  BY LinearAlongIs
<1>2. p = [x0 |-> f.x0 * g.x0, xi |-> lin \o ApproximationError(f, g, s)]
  BY DEF Product, mergeMulNoiseTerms
<1> HIDE DEF lin, p
<1>3. lin \in Seq(NoiseTerms) /\ Len(lin) \in Nat /\ Sorted(lin) /\ Below(lin, s)
  BY <1>1, LinearIs
<1>4. A \in Int /\ A >= 0 /\ B \in Int /\ B >= 0
  BY AbsSumIs DEF Forms
<1>5. f.x0 * g.x0 \in Int
  BY DEF Forms
<1>6. p.x0 = f.x0 * g.x0 /\ p.xi = lin \o ApproximationError(f, g, s)
  BY <1>2
<1>7. CASE f.xi # <<>> /\ g.xi # <<>>
  <2> DEFINE m == A * B
  <2>1. p.xi = lin \o <<NoiseTerm(s, m)>>
    BY <1>6, <1>7 DEF ApproximationError
  <2>2. m \in Int /\ Magnitude(m) = m
    BY <1>4, ProductNotNegative DEF Magnitude
  <2> HIDE DEF m, A, B
  <2>3. /\ p.xi \in Seq(NoiseTerms) /\ Len(p.xi) = Len(lin) + 1
        /\ Sorted(p.xi) /\ Below(p.xi, s + 1)
        /\ \A k \in 1 .. Len(lin) : p.xi[k] = lin[k]
        /\ p.xi[Len(lin) + 1].symbol = s
        /\ Total(Magnitudes(p.xi)) = Total(Magnitudes(lin)) + Magnitude(m)
    <3>1. OneMoreTerm(p.xi, lin, s, m)
      BY <1>3, <2>1, <2>2, OneTermMore, Zenon
    <3> QED
      BY <3>1 DEF OneMoreTerm
  <2>4. p \in Forms
    BY <1>2, <1>5, <1>6, <2>3 DEF Forms
  <2>5. SymbolsDrawn(f, g) = 1
    BY <1>7 DEF SymbolsDrawn
  <2>6. noiseTermsAbsSum(p) = Total(Magnitudes(p.xi))
    BY <2>3, AbsSumIs
  <2>7. ASSUME NEW k \in 1 .. Len(p.xi)
        PROVE  p.xi[k].symbol = s \/ (k \in 1 .. Len(lin) /\ p.xi[k] = lin[k])
    <3>1. k = Len(lin) + 1 \/ k \in 1 .. Len(lin)
      BY <1>3, <2>3
    <3> QED
      BY <2>3, <3>1
  <2> QED
    BY <1>6, <2>2, <2>3, <2>4, <2>5, <2>6, <2>7 DEF IsProduct, m, A, B, lin, p
<1>8. CASE ~ (f.xi # <<>> /\ g.xi # <<>>)
  <2>1. p.xi = lin
    BY <1>3, <1>6, <1>8 DEF ApproximationError
  <2>2. p \in Forms
    BY <1>2, <1>3, <1>5, <1>6, <2>1 DEF Forms
  <2>3. SymbolsDrawn(f, g) = 0 /\ s + 0 = s
    BY <1>8 DEF SymbolsDrawn
  <2>4. noiseTermsAbsSum(p) = Total(Magnitudes(lin)) /\ Total(Magnitudes(lin)) \in Int
    BY <1>3, <2>1, AbsSumIs
  <2>5. A = 0 \/ B = 0
    BY <1>8, AbsSumOfNothing
  <2> HIDE DEF A, B
  <2>6. A * B = 0
    BY <1>4, <2>5
  <2>7. noiseTermsAbsSum(p) = Total(Magnitudes(lin)) + A * B
    BY <2>4, <2>6
  <2> QED
    BY <1>3, <1>6, <2>1, <2>2, <2>3, <2>7 DEF IsProduct, A, B, lin, p
<1> QED
  BY <1>7, <1>8

LEMMA BelowGrows ==
  ASSUME NEW xi \in Seq(NoiseTerms), NEW s \in Nat, NEW t \in Nat, Below(xi, s), s <= t
  PROVE  Below(xi, t)
<1> SUFFICES ASSUME NEW k \in 1 .. Len(xi) PROVE xi[k].symbol < t
  BY DEF Below
<1> DEFINE x == xi[k].symbol
<1>1. x \in Nat /\ x < s
  BY PlaceType DEF Below
<1> HIDE DEF x
<1>2. x < t
  BY <1>1
<1> QED
  BY <1>2 DEF x

\* A form with one term.
IsSingle(f, x0, m, s) ==
  /\ f \in Forms /\ f.x0 = x0
  /\ Len(f.xi) = 1 /\ f.xi[1].symbol = s /\ f.xi[1].magnitude = m
  /\ Below(f.xi, s + 1) /\ noiseTermsAbsSum(f) = Magnitude(m)

LEMMA SingleIs ==
  ASSUME NEW x0 \in Int, NEW m \in Int, NEW s \in Nat
  PROVE  IsSingle(AffineForm(x0, m, s), x0, m, s)
<1> DEFINE f == AffineForm(x0, m, s)  xi == <<NoiseTerm(s, m)>>
<1>1. xi \in Seq(NoiseTerms) /\ Len(xi) = 1 /\ xi[1] = NoiseTerm(s, m)
  BY DEF NoiseTerms, NoiseTerm
<1>2. xi[1].symbol = s /\ xi[1].magnitude = m
  BY <1>1 DEF NoiseTerm
<1>3. f = [x0 |-> x0, xi |-> xi]
  BY DEF AffineForm
<1> HIDE DEF f, xi
<1>4. f.x0 = x0 /\ f.xi = xi
  BY <1>3
<1>5. Sorted(xi)
  BY <1>1 DEF Sorted
<1>6. Below(xi, s + 1)
  <2>1. s < s + 1
    OBVIOUS
  <2>2. \A k \in 1 .. Len(xi) : k = 1
    BY <1>1
  <2> QED
    BY <1>2, <2>1, <2>2 DEF Below
<1>7. f \in Forms
  BY <1>1, <1>3, <1>4, <1>5 DEF Forms
<1>8. noiseTermsAbsSum(f) = Magnitude(m)
  <2> DEFINE a == <<>>  b == Magnitudes(xi)
  <2>1. a \in Seq(Int) /\ Len(a) = 0
    OBVIOUS
  <2>2. b \in Seq(Int) /\ Len(b) = 1 /\ noiseTermsAbsSum(f) = Total(b)
    BY <1>1, <1>4, AbsSumIs
  <2>3. b[1] = Magnitude(m) /\ Magnitude(m) \in Int
    <3>1. b[1] = Magnitude(m)
      BY <1>1, <1>2 DEF Magnitudes
    <3> QED
      BY <3>1 DEF Magnitude
  <2> HIDE DEF a, b
  <2>6. (\A k \in 1 .. Len(a) : a[k] = 0) /\ (\A k \in 1 .. Len(a) : b[k] = a[k])
    BY <2>1
  <2>7. Len(b) = Len(a) + 1
    BY <2>1, <2>2
  <2>4. Total(a) = 0
    BY <2>1, <2>6, TotalOfZeros, Zenon
  <2>5. Total(b) = Total(a) + b[Len(b)]
    BY <2>1, <2>2, <2>6, <2>7, TotalOfAppended, Zenon
  <2> QED
    BY <2>2, <2>3, <2>4, <2>5
<1> QED
  BY <1>1, <1>2, <1>4, <1>6, <1>7, <1>8 DEF IsSingle, f

\* The form of a range: no number of the range has a magnitude above that of the
\* center and the term together.
Intervals == {r \in [min : Int, max : Int] : r.min <= r.max}

LEMMA RangeForm ==
  ASSUME NEW r \in Intervals, NEW s \in Nat
  PROVE  \E x0, m \in Int : /\ IsSingle(FromInterval(r, s), x0, m, s)
                            /\ m >= 0
                            /\ \A e \in Int : r.min <= e /\ e <= r.max
                                                => Magnitude(e) <= Magnitude(x0) + m
<1> DEFINE a == r.min  b == r.max  x0 == (a + b) \div 2  m == b - x0
<1>1. a \in Int /\ b \in Int /\ a <= b
  BY DEF Intervals
<1>2. FromInterval(r, s) = AffineForm(x0, m, s)
  BY DEF FromInterval
<1> HIDE DEF a, b
<1>3. x0 \in Int /\ 2 * x0 <= a + b /\ a + b <= 2 * x0 + 1
  BY <1>1
<1>4. m \in Int /\ m >= 0
  BY <1>1, <1>3
<1>5. IsSingle(AffineForm(x0, m, s), x0, m, s)
  BY <1>3, <1>4, SingleIs
<1>6. ASSUME NEW e \in Int, a <= e, e <= b PROVE Magnitude(e) <= Magnitude(x0) + m
  <2>1. x0 - e <= m /\ e - x0 <= m
    BY <1>1, <1>3, <1>6
  <2> HIDE DEF x0, m
  <2> QED
    BY <1>3, <1>4, <2>1 DEF Magnitude
<1> QED
  BY <1>2, <1>3, <1>4, <1>5, <1>6 DEF a, b

\* All terms of a form have new symbols or no magnitude.
Fresh(f, s) == \A k \in 1 .. Len(f.xi) : f.xi[k].symbol >= s \/ f.xi[k].magnitude = 0

\* A number of the range times an error.
LEMMA RangeProduct ==
  ASSUME NEW r \in Intervals, NEW g \in Forms, g.x0 = 0, NEW s \in Nat, Below(g.xi, s),
         NEW p, p = Product(FromInterval(r, s), g, s + 1),
         NEW t, t = s + 1 + SymbolsDrawn(FromInterval(r, s), g)
  PROVE  /\ p \in Forms /\ p.x0 = 0 /\ t \in Nat /\ s <= t /\ Below(p.xi, t) /\ Fresh(p, s)
         /\ \A e \in Int : r.min <= e /\ e <= r.max
                             => Magnitude(e) * noiseTermsAbsSum(g) <= noiseTermsAbsSum(p)
<1> DEFINE f == FromInterval(r, s)  lin == LinearTerms(f, g)
           A == noiseTermsAbsSum(f)  B == noiseTermsAbsSum(g)
<1>1. PICK x0 \in Int, m \in Int :
        /\ IsSingle(f, x0, m, s)
        /\ m >= 0
        /\ \A e \in Int : r.min <= e /\ e <= r.max => Magnitude(e) <= Magnitude(x0) + m
  BY RangeForm
<1> HIDE DEF f, lin
<1>2. /\ f \in Forms /\ f.x0 = x0 /\ Len(f.xi) = 1 /\ f.xi[1].symbol = s
      /\ Below(f.xi, s + 1) /\ A = m /\ s + 1 \in Nat
  BY <1>1 DEF IsSingle, Magnitude
<1>3. Below(g.xi, s + 1)
  BY BelowGrows DEF Forms
<1>4. IsProduct(p, f, g, s + 1)
  BY <1>2, <1>3, ProductIs DEF f
<1>5. PICK w, last : LinearAlong(f, g, lin, w, last)
  BY <1>2, LinearAlongIs DEF lin
<1>6. \A k \in 1 .. Len(lin) : lin[k].symbol = s
  BY <1>2, <1>5, LinearFresh
<1>7. B \in Int /\ B >= 0
  BY AbsSumIs DEF Forms
<1>8. Total(Magnitudes(lin)) = Magnitude(x0) * B
  BY <1>2, LinearAbsSum DEF lin
<1>9. /\ p \in Forms /\ p.x0 = f.x0 * g.x0
      /\ SymbolsDrawn(f, g) \in Nat /\ Below(p.xi, s + 1 + SymbolsDrawn(f, g))
      /\ noiseTermsAbsSum(p) = Total(Magnitudes(lin)) + A * B
      /\ \A k \in 1 .. Len(p.xi) :
           p.xi[k].symbol = s + 1 \/ (k \in 1 .. Len(lin) /\ p.xi[k] = lin[k])
  BY <1>4 DEF IsProduct, lin
<1> HIDE DEF A, B
<1>10. noiseTermsAbsSum(p) = Magnitude(x0) * B + m * B
  BY <1>2, <1>8, <1>9
<1>11. ASSUME NEW e \in Int, r.min <= e, e <= r.max
       PROVE  Magnitude(e) * B <= noiseTermsAbsSum(p)
  <2> DEFINE u == Magnitude(e)  v == Magnitude(x0)
  <2>1. u \in Int /\ v \in Int
    BY DEF Magnitude
  <2>2. u <= v + m
    BY <1>1, <1>11
  <2> HIDE DEF u, v
  <2>3. B * u <= B * (v + m)
    BY <1>7, <2>1, <2>2, ProductGrows
  <2>4. B * (v + m) = v * B + m * B /\ B * u = u * B
    BY <1>7, <2>1
  <2> QED
    BY <1>10, <2>3, <2>4 DEF u, v
<1>12. p.x0 = 0
  BY <1>2, <1>9
<1>13. Fresh(p, s)
  <2>1. s + 1 >= s /\ s >= s
    OBVIOUS
  <2> QED
    BY <1>6, <1>9, <2>1 DEF Fresh
<1>14. t = s + 1 + SymbolsDrawn(f, g)
  BY DEF f
<1>15. t \in Nat /\ s <= t
  BY <1>9, <1>14
<1> QED
  BY <1>9, <1>11, <1>12, <1>13, <1>14, <1>15 DEF B

\* The product of two errors.
LEMMA ErrorProduct ==
  ASSUME NEW f \in Forms, NEW g \in Forms, f.x0 = 0, g.x0 = 0,
         NEW s \in Nat, Below(f.xi, s), Below(g.xi, s),
         NEW p, p = Product(f, g, s), NEW t, t = s + SymbolsDrawn(f, g)
  PROVE  /\ p \in Forms /\ p.x0 = 0 /\ t \in Nat /\ s <= t /\ Below(p.xi, t) /\ Fresh(p, s)
         /\ noiseTermsAbsSum(p) = noiseTermsAbsSum(f) * noiseTermsAbsSum(g)
<1> DEFINE lin == LinearTerms(f, g)
           A == noiseTermsAbsSum(f)  B == noiseTermsAbsSum(g)
<1>1. PICK w, last : LinearAlong(f, g, lin, w, last)
  BY LinearAlongIs
<1> HIDE DEF lin
<1>2. IsProduct(p, f, g, s)
  BY ProductIs
<1>3. /\ p \in Forms /\ p.x0 = f.x0 * g.x0
      /\ SymbolsDrawn(f, g) \in Nat /\ Below(p.xi, s + SymbolsDrawn(f, g))
      /\ noiseTermsAbsSum(p) = Total(Magnitudes(lin)) + A * B
      /\ \A k \in 1 .. Len(p.xi) :
           p.xi[k].symbol = s \/ (k \in 1 .. Len(lin) /\ p.xi[k] = lin[k])
  BY <1>2 DEF IsProduct, lin
<1>4. A \in Int /\ B \in Int
  BY AbsSumIs DEF Forms
<1>5. lin \in Seq(NoiseTerms) /\ Len(lin) = last /\ last \in Nat
  BY <1>1, LinearIs
<1>6. ASSUME NEW k \in 1 .. Len(lin) PROVE lin[k].magnitude = 0
  <2> DEFINE at == w[k - 1]  takes == TakesThis(f.xi, g.xi, at)  other == TakesOther(f.xi, g.xi, at)
             mx == f.xi[at.this].magnitude  my == g.xi[at.other].magnitude
  <2>1. k \in 1 .. last /\ Walks(f.xi, g.xi, w, last)
    BY <1>1, <1>5 DEF LinearAlong
  <2>2. LinearStep(f, g, lin, w, k)
    BY <1>1, <2>1, LinearTermIs, Zenon
  <2>3. lin[k].magnitude = (IF takes THEN 0 * mx ELSE 0) + (IF other THEN 0 * my ELSE 0)
    BY <2>2 DEF LinearStep, Weighted
  <2>4. f.xi \in Seq(NoiseTerms) /\ g.xi \in Seq(NoiseTerms)
    BY DEF Forms
  <2>5. (takes => at.this \in 1 .. Len(f.xi)) /\ (other => at.other \in 1 .. Len(g.xi))
    <3>1. StepOf(f.xi, g.xi, w, last, k)
      BY <2>1, <2>4, StepTakes, Zenon
    <3> QED
      BY <3>1 DEF StepOf
  <2>6. (takes => mx \in Int) /\ (other => my \in Int)
    BY <2>4, <2>5, PlaceType
  <2> HIDE DEF takes, other, mx, my
  <2> QED
    BY <2>3, <2>6
<1>7. Fresh(p, s)
  BY <1>3, <1>6 DEF Fresh
<1>8. Total(Magnitudes(lin)) = 0
  <2>1. Total(Magnitudes(lin)) = Magnitude(0) * B
    BY LinearAbsSum DEF lin
  <2>2. Magnitude(0) = 0
    BY DEF Magnitude
  <2> HIDE DEF B
  <2> QED
    BY <1>4, <2>1, <2>2
<1> HIDE DEF A, B
<1>9. noiseTermsAbsSum(p) = A * B
  <2>1. A * B \in Int
    BY <1>4
  <2> QED
    BY <1>3, <1>8, <2>1
<1>10. t \in Nat /\ s <= t /\ p.x0 = 0
  BY <1>3
<1> QED
  BY <1>3, <1>7, <1>9, <1>10 DEF A, B

\* The three products that propagateMul adds up, and the symbols below which they are.
MulParts(R1, E1, R2, E2, s, P1, t, P2, u, P3, next) ==
  /\ t \in Nat /\ u \in Nat /\ next \in Nat /\ s <= t /\ t <= u /\ u <= next
  /\ P1 \in Forms /\ P1.x0 = 0 /\ Below(P1.xi, t) /\ Fresh(P1, s)
  /\ P2 \in Forms /\ P2.x0 = 0 /\ Below(P2.xi, u) /\ Fresh(P2, t)
  /\ P3 \in Forms /\ P3.x0 = 0 /\ Below(P3.xi, next) /\ Fresh(P3, u)
  /\ \A e \in Int : R1.min <= e /\ e <= R1.max
                      => Magnitude(e) * noiseTermsAbsSum(E2) <= noiseTermsAbsSum(P1)
  /\ \A e \in Int : R2.min <= e /\ e <= R2.max
                      => Magnitude(e) * noiseTermsAbsSum(E1) <= noiseTermsAbsSum(P2)
  /\ noiseTermsAbsSum(P3) = noiseTermsAbsSum(E1) * noiseTermsAbsSum(E2)
  /\ propagateMul(R1, E1, R2, E2, s) = Returned(Sum(Sum(P1, P2), P3), next)

LEMMA MulIs ==
  ASSUME NEW R1 \in Intervals, NEW R2 \in Intervals, NEW s \in Nat,
         NEW E1 \in Forms, E1.x0 = 0, Below(E1.xi, s),
         NEW E2 \in Forms, E2.x0 = 0, Below(E2.xi, s)
  PROVE  \E P1, t, P2, u, P3, next : MulParts(R1, E1, R2, E2, s, P1, t, P2, u, P3, next)
<1> DEFINE P1 == Product(FromInterval(R1, s), E2, s + 1)
           t == s + 1 + SymbolsDrawn(FromInterval(R1, s), E2)
           P2 == Product(FromInterval(R2, t), E1, t + 1)
           u == t + 1 + SymbolsDrawn(FromInterval(R2, t), E1)
           P3 == Product(E1, E2, u)
           next == u + SymbolsDrawn(E1, E2)
<1>1. propagateMul(R1, E1, R2, E2, s) = Returned(Sum(Sum(P1, P2), P3), next)
  BY DEF propagateMul
<1>2. /\ P1 \in Forms /\ P1.x0 = 0 /\ t \in Nat /\ s <= t /\ Below(P1.xi, t) /\ Fresh(P1, s)
      /\ \A e \in Int : R1.min <= e /\ e <= R1.max
                          => Magnitude(e) * noiseTermsAbsSum(E2) <= noiseTermsAbsSum(P1)
  BY RangeProduct
<1> HIDE DEF t, P1
<1>3. Below(E1.xi, t) /\ Below(E2.xi, t)
  BY <1>2, BelowGrows DEF Forms
<1>4. /\ P2 \in Forms /\ P2.x0 = 0 /\ u \in Nat /\ t <= u /\ Below(P2.xi, u) /\ Fresh(P2, t)
      /\ \A e \in Int : R2.min <= e /\ e <= R2.max
                          => Magnitude(e) * noiseTermsAbsSum(E1) <= noiseTermsAbsSum(P2)
  BY <1>2, <1>3, RangeProduct
<1> HIDE DEF u, P2
<1>5. Below(E1.xi, u) /\ Below(E2.xi, u)
  BY <1>2, <1>3, <1>4, BelowGrows DEF Forms
<1>6. /\ P3 \in Forms /\ P3.x0 = 0 /\ next \in Nat /\ u <= next /\ Below(P3.xi, next)
      /\ Fresh(P3, u)
      /\ noiseTermsAbsSum(P3) = noiseTermsAbsSum(E1) * noiseTermsAbsSum(E2)
  BY <1>4, <1>5, ErrorProduct
<1> HIDE DEF next, P3
<1>7. MulParts(R1, E1, R2, E2, s, P1, t, P2, u, P3, next)
  BY <1>1, <1>2, <1>4, <1>6 DEF MulParts
<1> QED
  BY <1>7

\* What a rule returns: a form around zero over symbols drawn so far.
IsResult(result, s) ==
  /\ result.form \in Forms /\ result.form.x0 = 0
  /\ result.next \in Nat /\ s <= result.next
  /\ Below(result.form.xi, result.next)

LEMMA MulResult ==
  ASSUME NEW R1 \in Intervals, NEW R2 \in Intervals, NEW s \in Nat,
         NEW E1 \in Forms, E1.x0 = 0, Below(E1.xi, s),
         NEW E2 \in Forms, E2.x0 = 0, Below(E2.xi, s)
  PROVE  IsResult(propagateMul(R1, E1, R2, E2, s), s)
<1>1. PICK P1, t, P2, u, P3, next : MulParts(R1, E1, R2, E2, s, P1, t, P2, u, P3, next)
  BY MulIs
<1>2. /\ t \in Nat /\ u \in Nat /\ next \in Nat /\ s <= t /\ t <= u /\ u <= next
      /\ P1 \in Forms /\ P1.x0 = 0 /\ Below(P1.xi, t)
      /\ P2 \in Forms /\ P2.x0 = 0 /\ Below(P2.xi, u)
      /\ P3 \in Forms /\ P3.x0 = 0 /\ Below(P3.xi, next)
      /\ propagateMul(R1, E1, R2, E2, s) = Returned(Sum(Sum(P1, P2), P3), next)
  BY <1>1 DEF MulParts
<1>3. t <= next /\ s <= next
  BY <1>2
<1>4. Below(P1.xi, next) /\ Below(P2.xi, next)
  BY <1>2, <1>3, BelowGrows DEF Forms
<1> DEFINE S == Sum(P1, P2)  T == Sum(S, P3)
<1>5. S \in Forms /\ S.x0 = 0 /\ Below(S.xi, next)
  <2>1. S \in Forms /\ S.x0 = P1.x0 + P2.x0 /\ Below(S.xi, next)
    BY <1>2, <1>4, SumIs
  <2> HIDE DEF S
  <2> QED
    BY <1>2, <2>1
<1> HIDE DEF S
<1>6. T \in Forms /\ T.x0 = 0 /\ Below(T.xi, next)
  <2>1. T \in Forms /\ T.x0 = S.x0 + P3.x0 /\ Below(T.xi, next)
    BY <1>2, <1>5, SumIs
  <2> HIDE DEF T
  <2> QED
    BY <1>2, <1>5, <2>1
<1>7. propagateMul(R1, E1, R2, E2, s) = [form |-> T, next |-> next]
  BY <1>2 DEF Returned, S
<1> QED
  BY <1>2, <1>3, <1>6, <1>7 DEF IsResult

\* The errors of a product: those of the operands, each scaled with the exact value of
\* the other, and their product.
LEMMA MulError ==
  ASSUME NEW x \in Int, NEW y \in Int, NEW e \in Int, NEW f \in Int
  PROVE  (x + e) * (y + f) - x * y = (x * f + y * e) + e * f
<1>1. /\ x * y \in Int /\ x * f \in Int /\ e * y \in Int /\ y * e \in Int /\ e * f \in Int
      /\ e * y = y * e
  OBVIOUS
<1>2. (x + e) * (y + f) = (x * y + x * f) + (e * y + e * f)
  OBVIOUS
<1> DEFINE a == x * y  b == x * f  c == y * e  d == e * f  z == (x + e) * (y + f)
<1>3. a \in Int /\ b \in Int /\ c \in Int /\ d \in Int /\ z = (a + b) + (c + d)
  BY <1>1, <1>2
<1> HIDE DEF a, b, c, d, z
<1>4. z - a = (b + c) + d
  BY <1>3
<1> QED
  BY <1>4 DEF a, b, c, d, z

\* One more fresh claim, of the product of a number and an error.
LEMMA ScaledClaim ==
  ASSUME NEW claims \in SUBSET Claims, Consistent(claims), NEW s \in Nat,
         \A m \in claims : Below(m.form.xi, s),
         NEW p \in Forms, Fresh(p, s), NEW e \in Int, NEW f \in Int, NEW A \in Int, NEW B \in Int,
         Magnitude(e) <= A, Magnitude(f) <= B, A * B <= noiseTermsAbsSum(p)
  PROVE  Consistent(claims \cup {Claim(p, e * f)})
<1> DEFINE z == e * f  C == A * B  D == noiseTermsAbsSum(p)
<1>1. Magnitude(z) <= C
  BY MagnitudeOfProduct
<1>2. z \in Int /\ C \in Int /\ C <= D
  OBVIOUS
<1>3. D \in Int
  BY AbsSumIs DEF Forms
<1> HIDE DEF z, C
<1>4. Magnitude(z) <= D
  <2> HIDE DEF D
  <2> QED
    BY <1>1, <1>2, <1>3 DEF Magnitude
<1>5. \A k \in 1 .. Len(p.xi) : p.xi[k].symbol >= s \/ p.xi[k].magnitude = 0
  BY DEF Fresh
<1>6. Consistent(claims \cup {Claim(p, z)})
  BY <1>2, <1>4, <1>5, ConsistentFresh
<1> QED
  BY <1>6 DEF z

LEMMA ClaimsGrow ==
  ASSUME NEW claims \in SUBSET Claims, NEW form \in Forms, NEW error \in Int,
         NEW s \in Nat, NEW t \in Nat, s <= t,
         \A m \in claims : Below(m.form.xi, s), Below(form.xi, t)
  PROVE  /\ claims \cup {Claim(form, error)} \in SUBSET Claims
         /\ \A m \in claims \cup {Claim(form, error)} : Below(m.form.xi, t)
<1>1. Claim(form, error) \in Claims /\ Claim(form, error).form = form
  BY DEF Claim, Claims
<1>2. ASSUME NEW m \in claims PROVE Below(m.form.xi, t)
  <2>1. m.form.xi \in Seq(NoiseTerms) /\ Below(m.form.xi, s)
    BY ClaimsFields
  <2> QED
    BY <2>1, BelowGrows
<1> QED
  BY <1>1, <1>2

LEMMA ConsistentSumOf ==
  ASSUME NEW claims \in SUBSET Claims, Consistent(claims), NEW f, NEW e, NEW g, NEW k,
         Claim(f, e) \in claims, Claim(g, k) \in claims
  PROVE  /\ Consistent(claims \cup {Claim(Sum(f, g), e + k)})
         /\ Consistent(claims \cup {Claim(Difference(f, g), e - k)})
<1>1. /\ Claim(f, e).form = f /\ Claim(f, e).error = e
      /\ Claim(g, k).form = g /\ Claim(g, k).error = k
  BY DEF Claim
<1>2. PICK m \in claims : m = Claim(f, e)
  OBVIOUS
<1>3. PICK n \in claims : n = Claim(g, k)
  OBVIOUS
<1>4. /\ Consistent(claims \cup {Claim(Sum(m.form, n.form), m.error + n.error)})
      /\ Consistent(claims \cup {Claim(Difference(m.form, n.form), m.error - n.error)})
  BY ConsistentSum
<1> QED
  BY <1>1, <1>2, <1>3, <1>4

LEMMA ConsistentMul ==
  ASSUME NEW claims \in SUBSET Claims, Consistent(claims), NEW s \in Nat,
         \A m \in claims : Below(m.form.xi, s),
         NEW R1 \in Intervals, NEW R2 \in Intervals, NEW X \in Int, NEW Y \in Int,
         R1.min <= X, X <= R1.max, R2.min <= Y, Y <= R2.max,
         NEW E1 \in Forms, NEW e \in Int, Claim(E1, e) \in claims, E1.x0 = 0,
         NEW E2 \in Forms, NEW k \in Int, Claim(E2, k) \in claims, E2.x0 = 0
  PROVE  Consistent(claims \cup {Claim(propagateMul(R1, E1, R2, E2, s).form,
                                       (X + e) * (Y + k) - X * Y)})
<1>1. /\ Claim(E1, e).form = E1 /\ Claim(E1, e).error = e
      /\ Claim(E2, k).form = E2 /\ Claim(E2, k).error = k
  BY DEF Claim
<1>2. Below(E1.xi, s) /\ Below(E2.xi, s)
  BY <1>1
<1>3. PICK P1, t, P2, u, P3, next : MulParts(R1, E1, R2, E2, s, P1, t, P2, u, P3, next)
  BY <1>2, MulIs
<1> DEFINE A == noiseTermsAbsSum(E1)  B == noiseTermsAbsSum(E2)
           x == Magnitude(X)  y == Magnitude(Y)
           b == X * k  c == Y * e  d == e * k
<1>4. A \in Int /\ B \in Int
  BY AbsSumIs DEF Forms
<1>5. Magnitude(e) <= A /\ Magnitude(k) <= B
  BY <1>1, ConsistentCovers
<1>6. /\ t \in Nat /\ u \in Nat /\ s <= t /\ t <= u
      /\ P1 \in Forms /\ Below(P1.xi, t) /\ Fresh(P1, s)
      /\ P2 \in Forms /\ Below(P2.xi, u) /\ Fresh(P2, t)
      /\ P3 \in Forms /\ Fresh(P3, u)
      /\ x * B <= noiseTermsAbsSum(P1)
      /\ y * A <= noiseTermsAbsSum(P2)
      /\ A * B <= noiseTermsAbsSum(P3)
      /\ propagateMul(R1, E1, R2, E2, s) = Returned(Sum(Sum(P1, P2), P3), next)
  <2>1. noiseTermsAbsSum(P3) = A * B
    BY <1>3 DEF MulParts
  <2>2. A * B \in Int
    BY <1>4
  <2> HIDE DEF A, B
  <2>3. A * B <= noiseTermsAbsSum(P3)
    BY <2>1, <2>2
  <2> QED
    BY <1>3, <2>3 DEF MulParts, A, B
<1>7. x \in Int /\ y \in Int /\ Magnitude(X) <= x /\ Magnitude(Y) <= y
  <2>1. x \in Int /\ y \in Int
    BY DEF Magnitude
  <2> HIDE DEF x, y
  <2>2. Magnitude(X) = x /\ Magnitude(Y) = y
    BY DEF x, y
  <2> QED
    BY <2>1, <2>2
<1>8. b \in Int /\ c \in Int /\ d \in Int
  OBVIOUS
<1> DEFINE C1 == claims \cup {Claim(P1, b)}
           C2 == C1 \cup {Claim(P2, c)}
           C3 == C2 \cup {Claim(P3, d)}
<1> HIDE DEF A, B, x, y
<1>9. Consistent(C1)
  BY <1>4, <1>5, <1>6, <1>7, ScaledClaim, Zenon
<1> HIDE DEF b, c, d
<1>10. C1 \in SUBSET Claims /\ \A m \in C1 : Below(m.form.xi, t)
  BY <1>6, <1>8, ClaimsGrow
<1> HIDE DEF C1
<1>11. Consistent(C2)
  BY <1>4, <1>5, <1>6, <1>7, <1>10, <1>9, ScaledClaim, Zenon DEF c
<1>12. C2 \in SUBSET Claims /\ \A m \in C2 : Below(m.form.xi, u)
  BY <1>6, <1>8, <1>10, ClaimsGrow
<1> HIDE DEF C2
<1>13. Consistent(C3)
  BY <1>4, <1>5, <1>6, <1>11, <1>12, ScaledClaim, Zenon DEF d
<1>14. C3 \in SUBSET Claims
  BY <1>6, <1>8, <1>12 DEF Claim, Claims
<1>15. Claim(P1, b) \in C3 /\ Claim(P2, c) \in C3 /\ Claim(P3, d) \in C3
  BY DEF C1, C2
<1>16. claims \subseteq C3
  BY DEF C1, C2
<1> HIDE DEF C3
<1> DEFINE S == Sum(P1, P2)
           C4 == C3 \cup {Claim(S, b + c)}
<1>17. Consistent(C4)
  BY <1>13, <1>14, <1>15, ConsistentSumOf, Zenon
<1>18. S \in Forms
  BY <1>6, SumIs
<1> HIDE DEF S
<1>19. C4 \in SUBSET Claims /\ Claim(S, b + c) \in C4 /\ Claim(P3, d) \in C4 /\ claims \subseteq C4
  BY <1>8, <1>14, <1>15, <1>16, <1>18 DEF Claim, Claims
<1> HIDE DEF C4
<1>20. Consistent(C4 \cup {Claim(Sum(S, P3), (b + c) + d)})
  BY <1>17, <1>19, ConsistentSumOf, Zenon
<1>21. (X + e) * (Y + k) - X * Y = (b + c) + d
  BY MulError DEF b, c, d
<1>22. propagateMul(R1, E1, R2, E2, s).form = Sum(S, P3)
  BY <1>6 DEF Returned, S
<1>23. claims \cup {Claim(Sum(S, P3), (b + c) + d)}
         \subseteq C4 \cup {Claim(Sum(S, P3), (b + c) + d)}
  BY <1>19
<1>24. Consistent(claims \cup {Claim(Sum(S, P3), (b + c) + d)})
  BY <1>20, <1>23, ConsistentSubset
<1> QED
  BY <1>21, <1>22, <1>24

-------------------------------------------------------------------------------
(* Ranges.                                                                 *)

LEMMA MaxIs ==
  ASSUME NEW S \in SUBSET Int, NEW m \in S, \A x \in S : x <= m
  PROVE  Max(S) = m
<1>1. \A x \in S : (\A y \in S : x >= y) => x = m
  BY SMT
<1>2. \A y \in S : m >= y
  BY SMT
<1> QED
  BY <1>1, <1>2 DEF Max

LEMMA MinIs ==
  ASSUME NEW S \in SUBSET Int, NEW m \in S, \A x \in S : m <= x
  PROVE  Min(S) = m
<1>1. \A x \in S : (\A y \in S : x <= y) => x = m
  BY SMT
<1> QED
  BY <1>1 DEF Min

\* The hull of up to four numbers.
LEMMA HullIs ==
  ASSUME NEW a \in Int, NEW b \in Int, NEW c \in Int, NEW d \in Int, NEW S, S = {a, b, c, d}
  PROVE  /\ Hull(S) \in Intervals
         /\ \A x \in S : Hull(S).min <= x /\ x <= Hull(S).max
<1>1. S \in SUBSET Int
  OBVIOUS
<1>2. PICK u \in S : \A x \in S : x <= u
  <2> DEFINE p == IF a <= b THEN b ELSE a
             q == IF c <= d THEN d ELSE c
             r == IF p <= q THEN q ELSE p
  <2>1. r \in S /\ a <= r /\ b <= r /\ c <= r /\ d <= r
    OBVIOUS
  <2> HIDE DEF r
  <2> QED
    BY <2>1
<1>3. PICK l \in S : \A x \in S : l <= x
  <2> DEFINE p == IF a <= b THEN a ELSE b
             q == IF c <= d THEN c ELSE d
             r == IF p <= q THEN p ELSE q
  <2>1. r \in S /\ r <= a /\ r <= b /\ r <= c /\ r <= d
    OBVIOUS
  <2> HIDE DEF r
  <2> QED
    BY <2>1
<1>4. Max(S) = u
  BY <1>1, <1>2, MaxIs
<1>5. Min(S) = l
  BY <1>1, <1>3, MinIs
<1>6. Hull(S) = [min |-> l, max |-> u]
  BY <1>4, <1>5 DEF Hull
<1>7. l \in Int /\ u \in Int /\ l <= u
  BY <1>1, <1>2, <1>3
<1>8. [min |-> l, max |-> u] \in Intervals
  BY <1>7 DEF Intervals
<1> QED
  BY <1>2, <1>3, <1>6, <1>8

\* A product lies between the products with the ends of a range.
LEMMA ProductBetween ==
  ASSUME NEW a \in Int, NEW b \in Int, NEW x \in Int, a <= x, x <= b, NEW z \in Int,
         NEW L \in Int, NEW U \in Int, L <= a * z, L <= b * z, a * z <= U, b * z <= U
  PROVE  L <= x * z /\ x * z <= U
<1> DEFINE p == a * z  q == b * z  r == x * z
<1>1. p \in Int /\ q \in Int /\ r \in Int
  OBVIOUS
<1>2. CASE z >= 0
  <2>1. z * a <= z * x /\ z * x <= z * b
    BY <1>2, ProductGrows
  <2>2. z * a = p /\ z * x = r /\ z * b = q
    OBVIOUS
  <2>3. p <= r /\ r <= q
    BY <2>1, <2>2
  <2>4. L <= p /\ q <= U
    OBVIOUS
  <2> HIDE DEF p, q, r
  <2>5. L <= r /\ r <= U
    BY <1>1, <2>3, <2>4
  <2> QED
    BY <2>5 DEF r
<1>3. CASE z < 0
  <2> DEFINE n == -z
  <2>1. n \in Int /\ 0 <= n
    BY <1>3
  <2>2. n * a = -p /\ n * x = -r /\ n * b = -q
    OBVIOUS
  <2> HIDE DEF n
  <2>3. n * a <= n * x /\ n * x <= n * b
    BY <2>1, ProductGrows
  <2>4. -p <= -r /\ -r <= -q
    BY <2>2, <2>3
  <2>5. L <= q /\ p <= U
    OBVIOUS
  <2> HIDE DEF p, q, r
  <2>6. L <= r /\ r <= U
    BY <1>1, <2>4, <2>5
  <2> QED
    BY <2>6 DEF r
<1> QED
  BY <1>2, <1>3

LEMMA ProductInHull ==
  ASSUME NEW a \in Int, NEW b \in Int, NEW x \in Int, a <= x, x <= b,
         NEW c \in Int, NEW d \in Int, NEW y \in Int, c <= y, y <= d,
         NEW L \in Int, NEW U \in Int,
         L <= a * c, L <= a * d, L <= b * c, L <= b * d,
         a * c <= U, a * d <= U, b * c <= U, b * d <= U
  PROVE  L <= x * y /\ x * y <= U
<1>1. ASSUME NEW e \in {a, b} PROVE L <= e * y /\ e * y <= U
  <2>1. e \in Int
    OBVIOUS
  <2>2. c * e = e * c /\ d * e = e * d /\ y * e = e * y
    BY <2>1
  <2>3. L <= e * c /\ L <= e * d /\ e * c <= U /\ e * d <= U
    OBVIOUS
  <2>4. L <= y * e /\ y * e <= U
    BY <2>1, <2>2, <2>3, ProductBetween
  <2> QED
    BY <2>2, <2>4
<1> QED
  BY <1>1, ProductBetween

\* x is a number of the range r.
Within(x, r) == x \in Int /\ r.min <= x /\ x <= r.max

LEMMA SumRange ==
  ASSUME NEW R1 \in Intervals, NEW R2 \in Intervals, NEW x, NEW y, Within(x, R1), Within(y, R2)
  PROVE  /\ RangeOfSum(R1, R2) \in Intervals
         /\ Within(x + y, RangeOfSum(R1, R2))
<1> DEFINE a == R1.min  b == R1.max  c == R2.min  d == R2.max
           S == {m + n : m \in Ends(R1), n \in Ends(R2)}  H == Hull(S)
<1>1. /\ a \in Int /\ b \in Int /\ c \in Int /\ d \in Int
      /\ x \in Int /\ a <= x /\ x <= b /\ y \in Int /\ c <= y /\ y <= d
  BY DEF Intervals, Within
<1>2. S = {a + c, a + d, b + c, b + d}
  BY DEF Ends
<1> HIDE DEF a, b, c, d, S
<1>3. H \in Intervals /\ \A z \in S : H.min <= z /\ z <= H.max
  BY <1>1, <1>2, HullIs
<1>4. H.min \in Int /\ H.max \in Int /\ H.min <= a + c /\ b + d <= H.max
  BY <1>2, <1>3 DEF Intervals
<1> HIDE DEF H
<1>5. Within(x + y, H)
  BY <1>1, <1>4 DEF Within
<1> QED
  BY <1>3, <1>5 DEF H, S, RangeOfSum

LEMMA DifferenceRange ==
  ASSUME NEW R1 \in Intervals, NEW R2 \in Intervals, NEW x, NEW y, Within(x, R1), Within(y, R2)
  PROVE  /\ RangeOfDifference(R1, R2) \in Intervals
         /\ Within(x - y, RangeOfDifference(R1, R2))
<1> DEFINE a == R1.min  b == R1.max  c == R2.min  d == R2.max
           S == {m - n : m \in Ends(R1), n \in Ends(R2)}  H == Hull(S)
<1>1. /\ a \in Int /\ b \in Int /\ c \in Int /\ d \in Int
      /\ x \in Int /\ a <= x /\ x <= b /\ y \in Int /\ c <= y /\ y <= d
  BY DEF Intervals, Within
<1>2. S = {a - c, a - d, b - c, b - d}
  BY DEF Ends
<1> HIDE DEF a, b, c, d, S
<1>3. H \in Intervals /\ \A z \in S : H.min <= z /\ z <= H.max
  BY <1>1, <1>2, HullIs
<1>4. H.min \in Int /\ H.max \in Int /\ H.min <= a - d /\ b - c <= H.max
  BY <1>2, <1>3 DEF Intervals
<1> HIDE DEF H
<1>5. Within(x - y, H)
  BY <1>1, <1>4 DEF Within
<1> QED
  BY <1>3, <1>5 DEF H, S, RangeOfDifference

LEMMA ProductRange ==
  ASSUME NEW R1 \in Intervals, NEW R2 \in Intervals, NEW x, NEW y, Within(x, R1), Within(y, R2)
  PROVE  /\ RangeOfProduct(R1, R2) \in Intervals
         /\ Within(x * y, RangeOfProduct(R1, R2))
<1> DEFINE a == R1.min  b == R1.max  c == R2.min  d == R2.max
           ac == a * c  ad == a * d  bc == b * c  bd == b * d
           S == {m * n : m \in Ends(R1), n \in Ends(R2)}  H == Hull(S)
           L == H.min  U == H.max
<1>1. /\ a \in Int /\ b \in Int /\ c \in Int /\ d \in Int
      /\ x \in Int /\ a <= x /\ x <= b /\ y \in Int /\ c <= y /\ y <= d
  BY DEF Intervals, Within
<1>2. S = {ac, ad, bc, bd}
  BY DEF Ends
<1>3. ac \in Int /\ ad \in Int /\ bc \in Int /\ bd \in Int
  BY <1>1
<1> HIDE DEF a, b, c, d, S, ac, ad, bc, bd
<1>4. H \in Intervals /\ \A z \in S : H.min <= z /\ z <= H.max
  BY <1>2, <1>3, HullIs
<1>5. /\ L \in Int /\ U \in Int /\ L <= ac /\ L <= ad /\ L <= bc /\ L <= bd
      /\ ac <= U /\ ad <= U /\ bc <= U /\ bd <= U
  BY <1>2, <1>4 DEF Intervals
<1> HIDE DEF H, L, U
<1>6. L <= x * y /\ x * y <= U
  BY <1>1, <1>5, ProductInHull DEF ac, ad, bc, bd
<1>7. Within(x * y, H)
  BY <1>1, <1>6 DEF Within, L, U
<1> QED
  BY <1>4, <1>7 DEF H, S, RangeOfProduct

LEMMA UnionRange ==
  ASSUME NEW R1 \in Intervals, NEW R2 \in Intervals, NEW x, Within(x, R1) \/ Within(x, R2)
  PROVE  /\ Hull(Ends(R1) \cup Ends(R2)) \in Intervals
         /\ Within(x, Hull(Ends(R1) \cup Ends(R2)))
<1> DEFINE a == R1.min  b == R1.max  c == R2.min  d == R2.max
           S == Ends(R1) \cup Ends(R2)  H == Hull(S)
<1>1. /\ a \in Int /\ b \in Int /\ c \in Int /\ d \in Int
      /\ x \in Int /\ ((a <= x /\ x <= b) \/ (c <= x /\ x <= d))
  BY DEF Intervals, Within
<1>2. S = {a, b, c, d}
  BY DEF Ends
<1> HIDE DEF a, b, c, d, S
<1>3. H \in Intervals /\ \A z \in S : H.min <= z /\ z <= H.max
  BY <1>1, <1>2, HullIs
<1>4. /\ H.min \in Int /\ H.max \in Int /\ H.min <= a /\ b <= H.max
      /\ H.min <= c /\ d <= H.max
  BY <1>2, <1>3 DEF Intervals
<1> HIDE DEF H
<1>5. Within(x, H)
  BY <1>1, <1>4 DEF Within
<1> QED
  BY <1>3, <1>5 DEF H, S

LEMMA NegatedRange ==
  ASSUME NEW R \in Intervals, NEW x, Within(x, R)
  PROVE  /\ Hull({-a : a \in Ends(R)}) \in Intervals
         /\ Within(-x, Hull({-a : a \in Ends(R)}))
<1> DEFINE a == R.min  b == R.max
           S == {-m : m \in Ends(R)}  H == Hull(S)
<1>1. a \in Int /\ b \in Int /\ x \in Int /\ a <= x /\ x <= b
  BY DEF Intervals, Within
<1>2. S = {-a, -b, -a, -b}
  BY DEF Ends
<1> HIDE DEF a, b, S
<1>3. H \in Intervals /\ \A z \in S : H.min <= z /\ z <= H.max
  BY <1>1, <1>2, HullIs
<1>4. H.min \in Int /\ H.max \in Int /\ H.min <= -b /\ -a <= H.max
  BY <1>2, <1>3 DEF Intervals
<1> HIDE DEF H
<1>5. Within(-x, H)
  BY <1>1, <1>4 DEF Within
<1> QED
  BY <1>3, <1>5 DEF H, S

-------------------------------------------------------------------------------
(* The results of the other rules.                                         *)

LEMMA AddResult ==
  ASSUME NEW s \in Nat,
         NEW E1 \in Forms, E1.x0 = 0, Below(E1.xi, s),
         NEW E2 \in Forms, E2.x0 = 0, Below(E2.xi, s)
  PROVE  IsResult(propagateAdd(E1, E2, s), s) /\ IsResult(propagateSub(E1, E2, s), s)
<1> DEFINE S == Sum(E1, E2)  D == Difference(E1, E2)
<1>1. S \in Forms /\ S.x0 = E1.x0 + E2.x0 /\ Below(S.xi, s)
  BY SumIs
<1>2. D \in Forms /\ D.x0 = E1.x0 - E2.x0 /\ Below(D.xi, s)
  BY DifferenceIs
<1>3. propagateAdd(E1, E2, s) = [form |-> S, next |-> s]
  BY DEF propagateAdd, Returned
<1>4. propagateSub(E1, E2, s) = [form |-> D, next |-> s]
  BY DEF propagateSub, Returned
<1> HIDE DEF S, D
<1>5. S.x0 = 0 /\ D.x0 = 0 /\ s <= s
  BY <1>1, <1>2
<1> QED
  BY <1>1, <1>2, <1>3, <1>4, <1>5 DEF IsResult

\* A form with a new term, alone or added to another.
LEMMA NewTermResult ==
  ASSUME NEW s \in Nat, NEW m \in Int, NEW E1 \in Forms, E1.x0 = 0, Below(E1.xi, s)
  PROVE  /\ IsResult(Returned(AffineForm(0, m, s), s + 1), s)
         /\ IsResult(Returned(Sum(E1, AffineForm(0, m, s)), s + 1), s)
<1> DEFINE f == AffineForm(0, m, s)  S == Sum(E1, f)
<1>1. f \in Forms /\ f.x0 = 0 /\ Below(f.xi, s + 1)
  <2>1. 0 \in Int
    OBVIOUS
  <2>2. IsSingle(f, 0, m, s)
    BY <2>1, SingleIs, Zenon
  <2> HIDE DEF f
  <2> QED
    BY <2>2 DEF IsSingle
<1>2. Below(E1.xi, s + 1) /\ s + 1 \in Nat /\ s <= s + 1
  BY BelowGrows DEF Forms
<1> HIDE DEF f
<1>3. S \in Forms /\ S.x0 = E1.x0 + f.x0 /\ Below(S.xi, s + 1)
  BY <1>1, <1>2, SumIs
<1> HIDE DEF S
<1>4. S.x0 = 0
  BY <1>1, <1>3
<1>5. /\ Returned(f, s + 1) = [form |-> f, next |-> s + 1]
      /\ Returned(S, s + 1) = [form |-> S, next |-> s + 1]
  BY DEF Returned
<1> QED
  BY <1>1, <1>2, <1>3, <1>4, <1>5 DEF IsResult, f, S

\* A new term can be claimed for every error that is at most its magnitude.
LEMMA ConsistentNewTerm ==
  ASSUME NEW claims \in SUBSET Claims, Consistent(claims), NEW s \in Nat,
         \A m \in claims : Below(m.form.xi, s),
         NEW m \in Int, NEW e \in Int, Magnitude(e) <= m
  PROVE  Consistent(claims \cup {Claim(AffineForm(0, m, s), e)})
<1> DEFINE f == AffineForm(0, m, s)
<1>1. /\ f \in Forms /\ Len(f.xi) = 1 /\ f.xi[1].symbol = s
      /\ noiseTermsAbsSum(f) = Magnitude(m)
  <2>1. 0 \in Int
    OBVIOUS
  <2>2. IsSingle(f, 0, m, s)
    BY <2>1, SingleIs, Zenon
  <2> HIDE DEF f
  <2> QED
    BY <2>2 DEF IsSingle
<1> HIDE DEF f
<1>2. m >= 0 /\ Magnitude(m) = m
  BY DEF Magnitude
<1>3. Magnitude(e) <= noiseTermsAbsSum(f)
  BY <1>1, <1>2
<1>4. \A k \in 1 .. Len(f.xi) : f.xi[k].symbol >= s \/ f.xi[k].magnitude = 0
  <2>1. \A k \in 1 .. Len(f.xi) : k = 1
    BY <1>1
  <2>2. s >= s
    OBVIOUS
  <2> QED
    BY <1>1, <2>1, <2>2
<1>5. Consistent(claims \cup {Claim(f, e)})
  BY <1>1, <1>3, <1>4, ConsistentFresh
<1> QED
  BY <1>5 DEF f

-------------------------------------------------------------------------------
(* The invariants.                                                         *)

Ops == {"input", "add", "sub", "mul", "shr", "select", "ext", "fneg"}

Values == [op : Ops, args : Seq(Nat), range : Intervals, form : Forms,
           exact : Int, error : Int]

IsValue(x, s) == x.form.x0 = 0 /\ Below(x.form.xi, s) /\ Within(x.exact, x.range)

\* The form of a sum or difference is that of the forms of its operands.
FormOf(v, seq) ==
  /\ seq[v].op = "add" =>
       seq[v].form = Sum(seq[seq[v].args[1]].form, seq[seq[v].args[2]].form)
  /\ seq[v].op = "sub" =>
       seq[v].form = Difference(seq[seq[v].args[1]].form, seq[seq[v].args[2]].form)

ValuesInv ==
  /\ SymId \in Nat
  /\ values \in Seq(Values)
  /\ \A v \in 1 .. Len(values) :
       /\ IsValue(values[v], SymId)
       /\ \A k \in 1 .. Len(values[v].args) : values[v].args[k] \in 1 .. v - 1
       /\ values[v].op \in {"add", "sub"} => Len(values[v].args) = 2
       /\ FormOf(v, values)

\* What the pass has claimed.
Claimed(seq) == {Claim(seq[v].form, seq[v].error) : v \in 1 .. Len(seq)}

NoNegations(seq) == \A v \in 1 .. Len(seq) : seq[v].op # "fneg"

\* One assignment to the noise symbols explains the errors of all values.
ClaimsInv == NoNegations(values) => Consistent(Claimed(values))

LEMMA ValueIs ==
  ASSUME ValuesInv, NEW v \in 1 .. Len(values)
  PROVE  /\ values[v] \in Values
         /\ values[v].range \in Intervals /\ values[v].form \in Forms
         /\ values[v].form.x0 = 0 /\ Below(values[v].form.xi, SymId)
         /\ values[v].exact \in Int /\ values[v].error \in Int
         /\ Within(values[v].exact, values[v].range)
         /\ SymId \in Nat /\ v \in Nat
<1>1. values[v] \in Values /\ IsValue(values[v], SymId) /\ SymId \in Nat
  BY DEF ValuesInv
<1> QED
  BY <1>1 DEF Values, IsValue

LEMMA ClaimedIs ==
  ASSUME ValuesInv
  PROVE  /\ Claimed(values) \in SUBSET Claims
         /\ \A m \in Claimed(values) : Below(m.form.xi, SymId)
         /\ \A v \in 1 .. Len(values) : Claim(values[v].form, values[v].error) \in Claimed(values)
<1>1. ASSUME NEW v \in 1 .. Len(values)
      PROVE  /\ Claim(values[v].form, values[v].error) \in Claims
             /\ Below(Claim(values[v].form, values[v].error).form.xi, SymId)
  BY ValueIs DEF Claim, Claims
<1> QED
  BY <1>1 DEF Claimed

\* What an instruction has to supply for the invariants to hold after it.
Supplied(op, args, range, result, exact, error) ==
  /\ op \in Ops /\ args \in Seq(Nat)
  /\ \A k \in 1 .. Len(args) : args[k] \in 1 .. Len(values)
  /\ op \in {"add", "sub"} => Len(args) = 2
  /\ op = "add" => result.form = Sum(values[args[1]].form, values[args[2]].form)
  /\ op = "sub" => result.form = Difference(values[args[1]].form, values[args[2]].form)
  /\ range \in Intervals /\ Within(exact, range) /\ error \in Int
  /\ IsResult(result, SymId)

LEMMA AddKeeps ==
  ASSUME ValuesInv, NEW op, NEW args, NEW range, NEW result, NEW exact, NEW error,
         Add(op, args, range, result, exact, error),
         Supplied(op, args, range, result, exact, error)
  PROVE  /\ ValuesInv'
         /\ Claimed(values') = Claimed(values) \cup {Claim(result.form, error)}
         /\ NoNegations(values') => NoNegations(values) /\ op # "fneg"
<1> DEFINE new == [op |-> op, args |-> args, range |-> range, form |-> result.form,
                   exact |-> exact, error |-> error]
           N == Len(values)
<1>1. values' = Append(values, new) /\ SymId' = result.next
  BY DEF Add
<1>2. /\ values \in Seq(Values) /\ N \in Nat /\ SymId \in Nat
  BY DEF ValuesInv
<1>3. /\ result.form \in Forms /\ result.form.x0 = 0
      /\ SymId' \in Nat /\ SymId <= SymId'
      /\ Below(result.form.xi, SymId')
  BY <1>1 DEF Supplied, IsResult
<1>4. /\ new \in Values
      /\ new.op = op /\ new.args = args /\ new.form = result.form /\ new.error = error
      /\ new.exact = exact /\ new.range = range
  BY <1>3 DEF Supplied, Values, Within
<1> HIDE DEF new
<1>5. /\ values' \in Seq(Values) /\ Len(values') = N + 1
      /\ \A v \in 1 .. N : values'[v] = values[v]
      /\ values'[N + 1] = new
  BY <1>1, <1>2, <1>4
<1>6. \A v \in 1 .. N + 1 : v \in 1 .. N \/ v = N + 1
  BY <1>2
<1> HIDE DEF N
<1>7. ASSUME NEW v \in 1 .. N
      PROVE  /\ IsValue(values'[v], SymId')
             /\ \A k \in 1 .. Len(values'[v].args) : values'[v].args[k] \in 1 .. v - 1
             /\ values'[v].op \in {"add", "sub"} => Len(values'[v].args) = 2
             /\ FormOf(v, values')
  <2>1. /\ IsValue(values[v], SymId)
        /\ \A k \in 1 .. Len(values[v].args) : values[v].args[k] \in 1 .. v - 1
        /\ values[v].op \in {"add", "sub"} => Len(values[v].args) = 2
        /\ FormOf(v, values)
    BY DEF ValuesInv, N
  <2>2. values'[v] = values[v] /\ v \in Nat
    BY <1>2, <1>5
  <2>3. IsValue(values'[v], SymId')
    <3>1. values[v].form.xi \in Seq(NoiseTerms)
      BY ValueIs DEF N, Forms
    <3>2. Below(values[v].form.xi, SymId')
      BY <1>2, <1>3, <2>1, <3>1, BelowGrows DEF IsValue
    <3> QED
      BY <2>1, <2>2, <3>2 DEF IsValue
  <2>4. \A k \in 1 .. v - 1 : values'[k] = values[k]
    BY <1>2, <1>5
  <2>5. ASSUME values[v].op \in {"add", "sub"}
        PROVE  /\ values'[values[v].args[1]] = values[values[v].args[1]]
               /\ values'[values[v].args[2]] = values[values[v].args[2]]
    BY <2>1, <2>4, <2>5
  <2>6. FormOf(v, values')
    BY <2>1, <2>2, <2>5 DEF FormOf
  <2> QED
    BY <2>1, <2>2, <2>3, <2>6
<1>8. /\ IsValue(new, SymId')
      /\ \A k \in 1 .. Len(new.args) : new.args[k] \in 1 .. (N + 1) - 1
      /\ new.op \in {"add", "sub"} => Len(new.args) = 2
  <2>1. (N + 1) - 1 = N
    BY <1>2
  <2>2. \A k \in 1 .. Len(args) : args[k] \in 1 .. N
    BY DEF Supplied, N
  <2>3. IsValue(new, SymId')
    BY <1>3, <1>4 DEF IsValue, Supplied
  <2> QED
    BY <1>4, <2>1, <2>2, <2>3 DEF Supplied
<1>9. FormOf(N + 1, values')
  <2>1. ASSUME op \in {"add", "sub"}
        PROVE  /\ values'[args[1]] = values[args[1]]
               /\ values'[args[2]] = values[args[2]]
    <3>1. args[1] \in 1 .. N /\ args[2] \in 1 .. N
      BY <2>1 DEF Supplied, N
    <3> QED
      BY <1>5, <3>1
  <2>2. /\ op = "add" => result.form = Sum(values[args[1]].form, values[args[2]].form)
        /\ op = "sub" => result.form = Difference(values[args[1]].form, values[args[2]].form)
    BY DEF Supplied
  <2> QED
    BY <1>4, <1>5, <2>1, <2>2 DEF FormOf
<1>10. ValuesInv'
  <2>1. ASSUME NEW v \in 1 .. N + 1
        PROVE  /\ IsValue(values'[v], SymId')
               /\ \A k \in 1 .. Len(values'[v].args) : values'[v].args[k] \in 1 .. v - 1
               /\ values'[v].op \in {"add", "sub"} => Len(values'[v].args) = 2
               /\ FormOf(v, values')
    BY <1>5, <1>6, <1>7, <1>8, <1>9
  <2> QED
    BY <1>3, <1>5, <2>1 DEF ValuesInv
<1>11. Claimed(values') = Claimed(values) \cup {Claim(result.form, error)}
  <2>1. 1 .. N + 1 = 1 .. N \cup {N + 1}
    BY <1>2
  <2>2. Claim(values'[N + 1].form, values'[N + 1].error) = Claim(result.form, error)
    BY <1>4, <1>5
  <2>3. \A v \in 1 .. N : Claim(values'[v].form, values'[v].error)
                            = Claim(values[v].form, values[v].error)
    BY <1>5
  <2> QED
    BY <1>5, <2>1, <2>2, <2>3 DEF Claimed, N
<1>12. NoNegations(values') => NoNegations(values) /\ op # "fneg"
  <2>1. N + 1 \in 1 .. N + 1 /\ \A v \in 1 .. N : v \in 1 .. N + 1
    BY <1>2
  <2> QED
    BY <1>4, <1>5, <2>1 DEF NoNegations, N
<1> QED
  BY <1>10, <1>11, <1>12

Inv == ValuesInv /\ ClaimsInv

\* The operands of an instruction with none, one or two.
LEMMA SuppliedNone ==
  ASSUME Inv, NEW op \in Ops, op \notin {"add", "sub"},
         NEW range \in Intervals, NEW exact, Within(exact, range), NEW error \in Int,
         NEW result, IsResult(result, SymId)
  PROVE  Supplied(op, <<>>, range, result, exact, error)
<1> DEFINE args == <<>>
<1>1. args \in Seq(Nat) /\ Len(args) = 0
  OBVIOUS
<1> HIDE DEF args
<1>2. \A k \in 1 .. Len(args) : args[k] \in 1 .. Len(values)
  BY <1>1
<1>3. Supplied(op, args, range, result, exact, error)
  BY <1>1, <1>2 DEF Supplied
<1> QED
  BY <1>3 DEF args

LEMMA SuppliedOne ==
  ASSUME Inv, NEW op \in Ops, op \notin {"add", "sub"},
         NEW i \in 1 .. Len(values), NEW range \in Intervals, NEW exact, Within(exact, range),
         NEW error \in Int, NEW result, IsResult(result, SymId)
  PROVE  Supplied(op, <<i>>, range, result, exact, error)
<1> DEFINE args == <<i>>
<1>1. args \in Seq(Nat) /\ Len(args) = 1 /\ args[1] = i
  OBVIOUS
<1> HIDE DEF args
<1>2. \A k \in 1 .. Len(args) : args[k] \in 1 .. Len(values)
  <2>1. \A k \in 1 .. Len(args) : k = 1
    BY <1>1
  <2> QED
    BY <1>1, <2>1
<1>3. Supplied(op, args, range, result, exact, error)
  BY <1>1, <1>2 DEF Supplied
<1> QED
  BY <1>3 DEF args

LEMMA SuppliedTwo ==
  ASSUME Inv, NEW op \in Ops, NEW i \in 1 .. Len(values), NEW j \in 1 .. Len(values),
         NEW range \in Intervals, NEW exact, Within(exact, range),
         NEW error \in Int, NEW result, IsResult(result, SymId),
         op = "add" => result.form = Sum(values[i].form, values[j].form),
         op = "sub" => result.form = Difference(values[i].form, values[j].form)
  PROVE  Supplied(op, <<i, j>>, range, result, exact, error)
<1> DEFINE args == <<i, j>>
<1>1. args \in Seq(Nat) /\ Len(args) = 2 /\ args[1] = i /\ args[2] = j
  OBVIOUS
<1> HIDE DEF args
<1>2. \A k \in 1 .. Len(args) : args[k] \in 1 .. Len(values)
  <2>1. \A k \in 1 .. Len(args) : k = 1 \/ k = 2
    BY <1>1
  <2> QED
    BY <1>1, <2>1
<1>3. Supplied(op, args, range, result, exact, error)
  BY <1>1, <1>2 DEF Supplied
<1> QED
  BY <1>3 DEF args

LEMMA AddStep ==
  ASSUME Inv, NEW op, NEW args, NEW range, NEW result, NEW exact, NEW error,
         Add(op, args, range, result, exact, error),
         Supplied(op, args, range, result, exact, error),
         Consistent(Claimed(values)) /\ op # "fneg"
           => Consistent(Claimed(values) \cup {Claim(result.form, error)})
  PROVE  Inv'
<1>1. /\ ValuesInv'
      /\ Claimed(values') = Claimed(values) \cup {Claim(result.form, error)}
      /\ NoNegations(values') => NoNegations(values) /\ op # "fneg"
  BY AddKeeps DEF Inv
<1>2. ClaimsInv'
  BY <1>1 DEF Inv, ClaimsInv
<1> QED
  BY <1>1, <1>2 DEF Inv

LEMMA InputStep == ASSUME Inv, Input PROVE Inv'
<1>0. PICK r \in Ranges, m \in InitialErrors :
        \E exact \in Ends(r), error \in {-m, m} :
          Add("input", <<>>, r, Returned(AffineForm(0, m, SymId), SymId + 1), exact, error)
  BY DEF Input
<1>1. PICK exact \in Ends(r), error \in {-m, m} :
        Add("input", <<>>, r, Returned(AffineForm(0, m, SymId), SymId + 1), exact, error)
  BY <1>0
<1> DEFINE result == Returned(AffineForm(0, m, SymId), SymId + 1)
<1>2. SymId \in Nat /\ m \in Nat /\ error \in Int /\ Magnitude(error) <= m
  <2>1. SymId \in Nat /\ m \in Nat
    BY RulesAssumption DEF Inv, ValuesInv
  <2> QED
    BY <2>1 DEF Magnitude
<1>3. IsResult(result, SymId)
  <2> DEFINE z == [x0 |-> 0, xi |-> <<>>]
  <2>1. z \in Forms /\ z.x0 = 0 /\ Below(z.xi, SymId)
    BY DEF Forms, Sorted, Below
  <2> HIDE DEF z
  <2> QED
    BY <1>2, <2>1, NewTermResult
<1>4. result.form = AffineForm(0, m, SymId)
  BY DEF Returned
<1>5. r \in Intervals /\ Within(exact, r)
  BY RulesAssumption DEF Intervals, Within, Ends
<1> HIDE DEF result
<1>6. Supplied("input", <<>>, r, result, exact, error)
  <2>1. "input" \in Ops /\ "input" \notin {"add", "sub"}
    BY DEF Ops
  <2> QED
    BY <2>1, <1>2, <1>3, <1>5, SuppliedNone, Zenon
<1>7. ASSUME Consistent(Claimed(values))
      PROVE  Consistent(Claimed(values) \cup {Claim(result.form, error)})
  <2>1. /\ Claimed(values) \in SUBSET Claims
        /\ \A c \in Claimed(values) : Below(c.form.xi, SymId)
    BY ClaimedIs DEF Inv
  <2>2. m \in Int
    BY <1>2
  <2> QED
    BY <1>2, <1>4, <1>7, <2>1, <2>2, ConsistentNewTerm
<1> QED
  BY <1>1, <1>6, <1>7, AddStep DEF result

LEMMA AdditionStep == ASSUME Inv, Addition PROVE Inv'
<1>1. PICK i \in DOMAIN values, j \in DOMAIN values :
        Add("add", <<i, j>>,
            RangeOfSum(values[i].range, values[j].range),
            propagateAdd(values[i].form, values[j].form, SymId),
            values[i].exact + values[j].exact, values[i].error + values[j].error)
  BY DEF Addition
<1> DEFINE x == values[i]  y == values[j]
           range == RangeOfSum(x.range, y.range)
           result == propagateAdd(x.form, y.form, SymId)
<1>2. i \in 1 .. Len(values) /\ j \in 1 .. Len(values) /\ i \in Nat /\ j \in Nat
  BY DEF Inv, ValuesInv
<1>3. /\ x.range \in Intervals /\ x.form \in Forms /\ x.form.x0 = 0 /\ Below(x.form.xi, SymId)
      /\ x.exact \in Int /\ x.error \in Int /\ Within(x.exact, x.range)
      /\ y.range \in Intervals /\ y.form \in Forms /\ y.form.x0 = 0 /\ Below(y.form.xi, SymId)
      /\ y.exact \in Int /\ y.error \in Int /\ Within(y.exact, y.range) /\ SymId \in Nat
  BY <1>2, ValueIs DEF Inv
<1>4. range \in Intervals /\ Within(x.exact + y.exact, range)
  BY <1>3, SumRange
<1>5. IsResult(result, SymId)
  BY <1>3, AddResult
<1>6. result.form = Sum(x.form, y.form)
  BY DEF propagateAdd, Returned
<1>7. /\ Claimed(values) \in SUBSET Claims
      /\ Claim(x.form, x.error) \in Claimed(values)
      /\ Claim(y.form, y.error) \in Claimed(values)
  BY <1>2, ClaimedIs DEF Inv
<1> HIDE DEF range, result
<1>8. ASSUME Consistent(Claimed(values))
      PROVE  Consistent(Claimed(values) \cup {Claim(result.form, x.error + y.error)})
  BY <1>6, <1>7, <1>8, ConsistentSumOf
<1>9. x.error + y.error \in Int
  BY <1>3
<1>10. Supplied("add", <<i, j>>, range, result, x.exact + y.exact, x.error + y.error)
  <2>1. "add" \in Ops /\ "add" # "sub"
    BY DEF Ops
  <2> QED
    BY <2>1, <1>2, <1>4, <1>5, <1>6, <1>9, SuppliedTwo, Zenon
<1>11. Add("add", <<i, j>>, range, result, x.exact + y.exact, x.error + y.error)
  BY <1>1 DEF range, result
<1> HIDE DEF x, y
<1> QED
  BY <1>8, <1>10, <1>11, AddStep

LEMMA SubtractionStep == ASSUME Inv, Subtraction PROVE Inv'
<1>1. PICK i \in DOMAIN values, j \in DOMAIN values :
        Add("sub", <<i, j>>,
            RangeOfDifference(values[i].range, values[j].range),
            propagateSub(values[i].form, values[j].form, SymId),
            values[i].exact - values[j].exact, values[i].error - values[j].error)
  BY DEF Subtraction
<1> DEFINE x == values[i]  y == values[j]
           range == RangeOfDifference(x.range, y.range)
           result == propagateSub(x.form, y.form, SymId)
<1>2. i \in 1 .. Len(values) /\ j \in 1 .. Len(values) /\ i \in Nat /\ j \in Nat
  BY DEF Inv, ValuesInv
<1>3. /\ x.range \in Intervals /\ x.form \in Forms /\ x.form.x0 = 0 /\ Below(x.form.xi, SymId)
      /\ x.exact \in Int /\ x.error \in Int /\ Within(x.exact, x.range)
      /\ y.range \in Intervals /\ y.form \in Forms /\ y.form.x0 = 0 /\ Below(y.form.xi, SymId)
      /\ y.exact \in Int /\ y.error \in Int /\ Within(y.exact, y.range) /\ SymId \in Nat
  BY <1>2, ValueIs DEF Inv
<1>4. range \in Intervals /\ Within(x.exact - y.exact, range)
  BY <1>3, DifferenceRange
<1>5. IsResult(result, SymId)
  BY <1>3, AddResult
<1>6. result.form = Difference(x.form, y.form)
  BY DEF propagateSub, Returned
<1>7. /\ Claimed(values) \in SUBSET Claims
      /\ Claim(x.form, x.error) \in Claimed(values)
      /\ Claim(y.form, y.error) \in Claimed(values)
  BY <1>2, ClaimedIs DEF Inv
<1> HIDE DEF range, result
<1>8. ASSUME Consistent(Claimed(values))
      PROVE  Consistent(Claimed(values) \cup {Claim(result.form, x.error - y.error)})
  BY <1>6, <1>7, <1>8, ConsistentSumOf
<1>9. x.error - y.error \in Int
  BY <1>3
<1>10. Supplied("sub", <<i, j>>, range, result, x.exact - y.exact, x.error - y.error)
  <2>1. "sub" \in Ops /\ "sub" # "add"
    BY DEF Ops
  <2> QED
    BY <2>1, <1>2, <1>4, <1>5, <1>6, <1>9, SuppliedTwo, Zenon
<1>11. Add("sub", <<i, j>>, range, result, x.exact - y.exact, x.error - y.error)
  BY <1>1 DEF range, result
<1> HIDE DEF x, y
<1> QED
  BY <1>8, <1>10, <1>11, AddStep

LEMMA MultiplicationStep == ASSUME Inv, Multiplication PROVE Inv'
<1>1. PICK i \in DOMAIN values, j \in DOMAIN values :
        Add("mul", <<i, j>>,
            RangeOfProduct(values[i].range, values[j].range),
            propagateMul(values[i].range, values[i].form, values[j].range, values[j].form, SymId),
            values[i].exact * values[j].exact,
            (values[i].exact + values[i].error) * (values[j].exact + values[j].error)
              - values[i].exact * values[j].exact)
  BY DEF Multiplication
<1> DEFINE x == values[i]  y == values[j]
           range == RangeOfProduct(x.range, y.range)
           result == propagateMul(x.range, x.form, y.range, y.form, SymId)
           exact == x.exact * y.exact
           error == (x.exact + x.error) * (y.exact + y.error) - x.exact * y.exact
<1>2. i \in 1 .. Len(values) /\ j \in 1 .. Len(values) /\ i \in Nat /\ j \in Nat
  BY DEF Inv, ValuesInv
<1>3. /\ x.range \in Intervals /\ x.form \in Forms /\ x.form.x0 = 0 /\ Below(x.form.xi, SymId)
      /\ x.exact \in Int /\ x.error \in Int /\ Within(x.exact, x.range)
      /\ y.range \in Intervals /\ y.form \in Forms /\ y.form.x0 = 0 /\ Below(y.form.xi, SymId)
      /\ y.exact \in Int /\ y.error \in Int /\ Within(y.exact, y.range) /\ SymId \in Nat
  BY <1>2, ValueIs DEF Inv
<1>4. range \in Intervals /\ Within(exact, range)
  BY <1>3, ProductRange
<1>5. IsResult(result, SymId)
  BY <1>3, MulResult
<1>6. /\ Claimed(values) \in SUBSET Claims
      /\ \A c \in Claimed(values) : Below(c.form.xi, SymId)
      /\ Claim(x.form, x.error) \in Claimed(values)
      /\ Claim(y.form, y.error) \in Claimed(values)
  BY <1>2, ClaimedIs DEF Inv
<1>7. error \in Int
  <2> DEFINE a == x.exact  b == x.error  c == y.exact  d == y.error
  <2>1. a \in Int /\ b \in Int /\ c \in Int /\ d \in Int
    BY <1>3
  <2> HIDE DEF a, b, c, d
  <2>2. (a + b) * (c + d) - a * c \in Int
    BY <2>1
  <2> QED
    BY <2>2 DEF a, b, c, d
<1> HIDE DEF x, y, range
<1>8. ASSUME Consistent(Claimed(values))
      PROVE  Consistent(Claimed(values) \cup {Claim(result.form, error)})
  <2>1. /\ x.range.min <= x.exact /\ x.exact <= x.range.max
        /\ y.range.min <= y.exact /\ y.exact <= y.range.max
    BY <1>3 DEF Within
  <2> QED
    BY <1>3, <1>6, <1>8, <2>1, ConsistentMul
<1> HIDE DEF result, exact, error
<1>9. Supplied("mul", <<i, j>>, range, result, exact, error)
  <2>1. "mul" \in Ops /\ "mul" # "add" /\ "mul" # "sub"
    BY DEF Ops
  <2> QED
    BY <2>1, <1>2, <1>4, <1>5, <1>7, SuppliedTwo, Zenon
<1>10. Add("mul", <<i, j>>, range, result, exact, error)
  BY <1>1 DEF range, result, exact, error, x, y
<1> QED
  BY <1>8, <1>9, <1>10, AddStep

LEMMA RightShiftStep == ASSUME Inv, RightShift PROVE Inv'
<1>1. PICK i \in DOMAIN values, rounding \in {-RoundingError, RoundingError} :
        Add("shr", <<i>>, values[i].range, propagateShr(values[i].form, SymId),
            values[i].exact, values[i].error + rounding)
  BY DEF RightShift
<1> DEFINE x == values[i]  error == x.error + rounding
           term == AffineForm(0, RoundingError, SymId)
           result == propagateShr(x.form, SymId)
<1>2. i \in 1 .. Len(values) /\ i \in Nat
  BY DEF Inv, ValuesInv
<1>3. /\ x.range \in Intervals /\ x.form \in Forms /\ x.form.x0 = 0 /\ Below(x.form.xi, SymId)
      /\ x.exact \in Int /\ x.error \in Int /\ Within(x.exact, x.range) /\ SymId \in Nat
  BY <1>2, ValueIs DEF Inv
<1>4. RoundingError \in Int /\ rounding \in Int /\ Magnitude(rounding) <= RoundingError
  <2>1. RoundingError \in Nat
    BY RulesAssumption
  <2> QED
    BY <2>1 DEF Magnitude
<1>5. result = Returned(Sum(x.form, term), SymId + 1)
  BY DEF propagateShr
<1>6. IsResult(result, SymId)
  BY <1>3, <1>4, <1>5, NewTermResult
<1>7. result.form = Sum(x.form, term)
  BY <1>5 DEF Returned
<1>8. /\ Claimed(values) \in SUBSET Claims
      /\ \A c \in Claimed(values) : Below(c.form.xi, SymId)
      /\ Claim(x.form, x.error) \in Claimed(values)
  BY <1>2, ClaimedIs DEF Inv
<1>9. term \in Forms
  BY <1>3, <1>4, SingleIs DEF IsSingle
<1> HIDE DEF x, term, result
<1>10. ASSUME Consistent(Claimed(values))
       PROVE  Consistent(Claimed(values) \cup {Claim(result.form, error)})
  <2> DEFINE C1 == Claimed(values) \cup {Claim(term, rounding)}
             C2 == C1 \cup {Claim(Sum(x.form, term), error)}
  <2>1. Consistent(C1)
    BY <1>3, <1>4, <1>8, <1>10, ConsistentNewTerm DEF term
  <2>2. /\ C1 \in SUBSET Claims
        /\ Claim(x.form, x.error) \in C1 /\ Claim(term, rounding) \in C1
    BY <1>4, <1>8, <1>9 DEF Claim, Claims
  <2> HIDE DEF C1
  <2>3. Consistent(C2)
    BY <2>1, <2>2, ConsistentSumOf
  <2>4. Claimed(values) \cup {Claim(result.form, error)} \subseteq C2
    BY <1>7 DEF C1
  <2> HIDE DEF C2
  <2> QED
    BY <2>3, <2>4, ConsistentSubset
<1>11. error \in Int
  BY <1>3, <1>4
<1> HIDE DEF error
<1>12. Supplied("shr", <<i>>, x.range, result, x.exact, error)
  <2>1. "shr" \in Ops /\ "shr" \notin {"add", "sub"}
    BY DEF Ops
  <2> QED
    BY <2>1, <1>2, <1>3, <1>6, <1>11, SuppliedOne, Zenon
<1>13. Add("shr", <<i>>, x.range, result, x.exact, error)
  BY <1>1 DEF x, result, error
<1> QED
  BY <1>10, <1>12, <1>13, AddStep

LEMMA SelectionStep == ASSUME Inv, Selection PROVE Inv'
<1>1. PICK i \in DOMAIN values, j \in DOMAIN values : \E taken \in {values[i], values[j]} :
        Add("select", <<i, j>>, Hull(Ends(values[i].range) \cup Ends(values[j].range)),
            propagateSelect(values[i].form, values[j].form, SymId), taken.exact, taken.error)
  BY DEF Selection
<1>2. PICK taken \in {values[i], values[j]} :
        Add("select", <<i, j>>, Hull(Ends(values[i].range) \cup Ends(values[j].range)),
            propagateSelect(values[i].form, values[j].form, SymId), taken.exact, taken.error)
  BY <1>1
<1> DEFINE x == values[i]  y == values[j]
           range == Hull(Ends(x.range) \cup Ends(y.range))
           A == noiseTermsAbsSum(x.form)  B == noiseTermsAbsSum(y.form)  C == Max({A, B})
           result == propagateSelect(x.form, y.form, SymId)
<1>3. i \in 1 .. Len(values) /\ j \in 1 .. Len(values)
  BY DEF Inv, ValuesInv
<1>4. /\ x.range \in Intervals /\ x.form \in Forms /\ x.form.x0 = 0 /\ Below(x.form.xi, SymId)
      /\ x.exact \in Int /\ x.error \in Int /\ Within(x.exact, x.range)
      /\ y.range \in Intervals /\ y.form \in Forms /\ y.form.x0 = 0 /\ Below(y.form.xi, SymId)
      /\ y.exact \in Int /\ y.error \in Int /\ Within(y.exact, y.range) /\ SymId \in Nat
  BY <1>3, ValueIs DEF Inv
<1>5. taken.error \in Int /\ (Within(taken.exact, x.range) \/ Within(taken.exact, y.range))
  BY <1>4
<1>6. range \in Intervals /\ Within(taken.exact, range)
  BY <1>4, <1>5, UnionRange
<1>7. A \in Int /\ B \in Int
  BY <1>4, AbsSumIs DEF Forms
<1>8. result = Returned(AffineForm(0, C, SymId), SymId + 1)
  BY DEF propagateSelect
<1>9. /\ Claimed(values) \in SUBSET Claims
      /\ \A c \in Claimed(values) : Below(c.form.xi, SymId)
      /\ Claim(x.form, x.error) \in Claimed(values)
      /\ Claim(y.form, y.error) \in Claimed(values)
  BY <1>3, ClaimedIs DEF Inv
<1> HIDE DEF range, result, A, B
<1>10. C \in Int /\ A <= C /\ B <= C
  <2>1. {A, B} \in SUBSET Int
    BY <1>7
  <2>2. PICK m \in {A, B} : A <= m /\ B <= m
    BY <1>7
  <2>3. \A z \in {A, B} : z <= m
    BY <2>2
  <2>4. C = m
    BY <2>1, <2>3, MaxIs
  <2> QED
    BY <2>1, <2>2, <2>4
<1> HIDE DEF C
<1>11. IsResult(result, SymId)
  BY <1>4, <1>8, <1>10, NewTermResult
<1>12. result.form = AffineForm(0, C, SymId)
  BY <1>8 DEF Returned
<1>13. ASSUME Consistent(Claimed(values))
       PROVE  Consistent(Claimed(values) \cup {Claim(result.form, taken.error)})
  <2>1. Magnitude(x.error) <= A /\ Magnitude(y.error) <= B
    <3>1. /\ Claim(x.form, x.error).form = x.form /\ Claim(x.form, x.error).error = x.error
          /\ Claim(y.form, y.error).form = y.form /\ Claim(y.form, y.error).error = y.error
      BY DEF Claim
    <3> HIDE DEF x, y
    <3>2. /\ Magnitude(Claim(x.form, x.error).error)
               <= noiseTermsAbsSum(Claim(x.form, x.error).form)
          /\ Magnitude(Claim(y.form, y.error).error)
               <= noiseTermsAbsSum(Claim(y.form, y.error).form)
      BY <1>9, <1>13, ConsistentCovers
    <3> QED
      BY <3>1, <3>2 DEF A, B
  <2>2. Magnitude(taken.error) <= C
    <3> DEFINE u == x.error  v == y.error  z == taken.error
    <3>1. u \in Int /\ v \in Int /\ (z = u \/ z = v) /\ Magnitude(u) <= A /\ Magnitude(v) <= B
      BY <1>4, <2>1
    <3> HIDE DEF u, v, z
    <3>2. Magnitude(z) <= C
      BY <1>7, <1>10, <3>1 DEF Magnitude
    <3> QED
      BY <3>2 DEF z
  <2> QED
    BY <1>4, <1>5, <1>9, <1>10, <1>12, <1>13, <2>2, ConsistentNewTerm
<1>14. Supplied("select", <<i, j>>, range, result, taken.exact, taken.error)
  <2>1. "select" \in Ops /\ "select" # "add" /\ "select" # "sub"
    BY DEF Ops
  <2> QED
    BY <2>1, <1>3, <1>5, <1>6, <1>11, SuppliedTwo, Zenon
<1>15. Add("select", <<i, j>>, range, result, taken.exact, taken.error)
  BY <1>2 DEF range, result
<1> QED
  BY <1>13, <1>14, <1>15, AddStep

LEMMA ConversionStep == ASSUME Inv, Conversion PROVE Inv'
<1>1. PICK i \in DOMAIN values :
        Add("ext", <<i>>, values[i].range, unOpErrorPassThrough(values[i].form, SymId),
            values[i].exact, values[i].error)
  BY DEF Conversion
<1> DEFINE x == values[i]  result == unOpErrorPassThrough(x.form, SymId)
<1>2. i \in 1 .. Len(values)
  BY DEF Inv, ValuesInv
<1>3. /\ x.range \in Intervals /\ x.form \in Forms /\ x.form.x0 = 0 /\ Below(x.form.xi, SymId)
      /\ x.exact \in Int /\ x.error \in Int /\ Within(x.exact, x.range) /\ SymId \in Nat
  BY <1>2, ValueIs DEF Inv
<1>4. result = [form |-> x.form, next |-> SymId]
  BY DEF unOpErrorPassThrough, Returned
<1>5. Claim(x.form, x.error) \in Claimed(values)
  BY <1>2, ClaimedIs DEF Inv
<1> HIDE DEF x, result
<1>6. IsResult(result, SymId) /\ result.form = x.form
  BY <1>3, <1>4 DEF IsResult
<1>7. Claimed(values) \cup {Claim(result.form, x.error)} = Claimed(values)
  BY <1>5, <1>6
<1>8. Supplied("ext", <<i>>, x.range, result, x.exact, x.error)
  <2>1. "ext" \in Ops /\ "ext" \notin {"add", "sub"}
    BY DEF Ops
  <2> QED
    BY <2>1, <1>2, <1>3, <1>6, SuppliedOne, Zenon
<1>9. Add("ext", <<i>>, x.range, result, x.exact, x.error)
  BY <1>1 DEF x, result
<1> QED
  BY <1>7, <1>8, <1>9, AddStep

LEMMA NegationStep == ASSUME Inv, Negation PROVE Inv'
<1>1. PICK i \in DOMAIN values :
        Add("fneg", <<i>>, Hull({-a : a \in Ends(values[i].range)}),
            propagateFNeg(values[i].form, SymId), -values[i].exact, -values[i].error)
  BY DEF Negation
<1> DEFINE x == values[i]  range == Hull({-a : a \in Ends(x.range)})
           result == propagateFNeg(x.form, SymId)
<1>2. i \in 1 .. Len(values)
  BY DEF Inv, ValuesInv
<1>3. /\ x.range \in Intervals /\ x.form \in Forms /\ x.form.x0 = 0 /\ Below(x.form.xi, SymId)
      /\ x.exact \in Int /\ x.error \in Int /\ Within(x.exact, x.range) /\ SymId \in Nat
  BY <1>2, ValueIs DEF Inv
<1>4. range \in Intervals /\ Within(-x.exact, range) /\ -x.error \in Int
  BY <1>3, NegatedRange
<1>5. result = [form |-> x.form, next |-> SymId]
  BY DEF propagateFNeg, unOpErrorPassThrough, Returned
<1> HIDE DEF range, result
<1>6. IsResult(result, SymId)
  BY <1>3, <1>5 DEF IsResult
<1>7. Supplied("fneg", <<i>>, range, result, -x.exact, -x.error)
  <2>1. "fneg" \in Ops /\ "fneg" \notin {"add", "sub"}
    BY DEF Ops
  <2> QED
    BY <2>1, <1>2, <1>4, <1>6, SuppliedOne, Zenon
<1>8. Add("fneg", <<i>>, range, result, -x.exact, -x.error)
  BY <1>1 DEF range, result
<1> HIDE DEF x
<1> QED
  BY <1>7, <1>8, AddStep

LEMMA InitInv == Init => Inv
<1> SUFFICES ASSUME Init PROVE Inv
  OBVIOUS
<1>1. values = <<>> /\ SymId = 0
  BY DEF Init
<1>2. values \in Seq(Values) /\ Len(values) = 0
  BY <1>1
<1>3. ValuesInv
  BY <1>1, <1>2 DEF ValuesInv
<1>4. Claimed(values) = {}
  BY <1>2 DEF Claimed
<1>5. ClaimsInv
  BY <1>4, NothingConsistent DEF ClaimsInv
<1> QED
  BY <1>3, <1>5 DEF Inv

LEMMA StutterStep == ASSUME Inv, UNCHANGED vars PROVE Inv'
<1>1. values' = values /\ SymId' = SymId
  BY DEF vars
<1>2. ValuesInv'
  BY <1>1 DEF Inv, ValuesInv
<1>3. ClaimsInv'
  BY <1>1 DEF Inv, ClaimsInv
<1> QED
  BY <1>2, <1>3 DEF Inv

LEMMA Invariance == Spec => []Inv
<1>1. Inv /\ [Next]_vars => Inv'
  BY InputStep, AdditionStep, SubtractionStep, MultiplicationStep, RightShiftStep,
     SelectionStep, ConversionStep, NegationStep, StutterStep DEF Next
<1> QED
  BY InitInv, <1>1, PTL DEF Spec

-------------------------------------------------------------------------------
(* The theorems.                                                           *)

LEMMA InvTypeOK == Inv => TypeOK
<1> SUFFICES ASSUME Inv PROVE TypeOK
  OBVIOUS
<1>1. SymId \in Nat /\ DOMAIN values = 1 .. Len(values)
  BY DEF Inv, ValuesInv
<1>2. ASSUME NEW v \in 1 .. Len(values)
      PROVE  /\ values[v].range.min <= values[v].range.max
             /\ values[v].form.x0 = 0
             /\ values[v].form.xi \in Seq(Terms)
             /\ \A k \in DOMAIN values[v].args : values[v].args[k] \in 1 .. v - 1
  <2>1. /\ values[v].range \in Intervals /\ values[v].form.x0 = 0
        /\ values[v].form \in Forms /\ Below(values[v].form.xi, SymId)
        /\ values[v].args \in Seq(Nat)
    BY ValueIs DEF Inv, Values
  <2> DEFINE xi == values[v].form.xi
  <2>2. xi \in Seq(NoiseTerms) /\ Below(xi, SymId)
    BY <2>1 DEF Forms
  <2> HIDE DEF xi
  <2>3. ASSUME NEW k \in 1 .. Len(xi) PROVE xi[k] \in Terms
    <3> DEFINE s == xi[k].symbol
    <3>1. xi[k] \in NoiseTerms /\ s \in Nat /\ s < SymId
      BY <2>2, PlaceType DEF Below
    <3> HIDE DEF s
    <3>2. s \in 0 .. SymId - 1
      BY <1>1, <3>1
    <3> QED
      BY <3>1, <3>2 DEF NoiseTerms, Terms, s
  <2>4. xi \in Seq(Terms)
    BY <2>2, <2>3
  <2>5. values[v].range.min <= values[v].range.max
    BY <2>1 DEF Intervals
  <2>6. \A k \in DOMAIN values[v].args : values[v].args[k] \in 1 .. v - 1
    BY <2>1 DEF Inv, ValuesInv
  <2> QED
    BY <2>1, <2>4, <2>5, <2>6 DEF xi
<1> QED
  BY <1>1, <1>2 DEF TypeOK

\* Every value has a range, a form around zero over symbols drawn before, and operands
\* among the earlier values (Propagators.cpp, AffineForms.h).
THEOREM TypeCorrect == Spec => []TypeOK
  BY Invariance, InvTypeOK, PTL

LEMMA InvSorted == Inv => NoiseTermsSorted
<1> SUFFICES ASSUME Inv, NEW v \in DOMAIN values,
                    NEW k \in 1 .. Len(values[v].form.xi) - 1
             PROVE  values[v].form.xi[k].symbol <= values[v].form.xi[k + 1].symbol
  BY DEF NoiseTermsSorted
<1>1. v \in 1 .. Len(values)
  BY DEF Inv, ValuesInv
<1>2. values[v].form \in Forms
  BY <1>1, ValueIs DEF Inv
<1> QED
  BY <1>2 DEF Forms, Sorted

\* "NoiseTerm Ids must be sorted" (AffineForms.h:448): the merges and what is appended
\* after them keep the terms of every form in the order of their symbols.
THEOREM TermsStaySorted == Spec => []NoiseTermsSorted
  BY Invariance, InvSorted, PTL

LEMMA InvCover == Inv => ErrorsCover
<1> SUFFICES ASSUME Inv, \A v \in DOMAIN values : values[v].op # "fneg",
                    NEW v \in DOMAIN values
             PROVE  Covered(values[v])
  BY DEF ErrorsCover
<1>1. DOMAIN values = 1 .. Len(values)
  BY DEF Inv, ValuesInv
<1>2. Consistent(Claimed(values))
  BY <1>1 DEF Inv, ClaimsInv, NoNegations
<1>3. /\ Claimed(values) \in SUBSET Claims
      /\ Claim(values[v].form, values[v].error) \in Claimed(values)
  BY <1>1, ClaimedIs DEF Inv
<1>4. /\ Claim(values[v].form, values[v].error).form = values[v].form
      /\ Claim(values[v].form, values[v].error).error = values[v].error
  BY DEF Claim
<1>5. Magnitude(Claim(values[v].form, values[v].error).error)
        <= noiseTermsAbsSum(Claim(values[v].form, values[v].error).form)
  BY <1>2, <1>3, ConsistentCovers
<1> QED
  BY <1>4, <1>5 DEF Covered

\* What the pass computes errors for: in a program without negations no execution makes
\* an error larger than the absolute error claimed for the instruction, whichever
\* symbols its operands share.
THEOREM ClaimedErrorsCover == Spec => []ErrorsCover
  BY Invariance, InvCover, PTL

\* Forms with the same values have the same absolute sum.
LEMMA AbsSumAtMost ==
  ASSUME NEW f \in Forms, NEW g \in Forms,
         \A eps \in Assignments : Value(eps, f.xi) = Value(eps, g.xi)
  PROVE  noiseTermsAbsSum(f) <= noiseTermsAbsSum(g)
<1> DEFINE sgn == Signs(f.xi)  A == noiseTermsAbsSum(f)  B == noiseTermsAbsSum(g)
<1>1. f.xi \in Seq(NoiseTerms) /\ A \in Int /\ A >= 0 /\ B \in Int
  BY AbsSumIs DEF Forms
<1>2. sgn \in Assignments /\ \A t, p \in Nat : sgn[t][p] \in {-1, 1}
  BY <1>1, SignsMatch
<1>3. Value(sgn, f.xi) = A
  BY AbsSumAttained
<1> HIDE DEF sgn, A, B
<1>4. BoundedBy(sgn, 1)
  <2>1. ASSUME NEW z \in Int, -1 <= z, z <= 1 PROVE Magnitude(z) <= 1
    BY <2>1 DEF Magnitude
  <2>2. \A z \in {-1, 1} : z \in Int /\ -1 <= z /\ z <= 1
    OBVIOUS
  <2>3. \A t, p \in Nat : Magnitude(sgn[t][p]) <= 1
    BY <1>2, <2>1, <2>2
  <2> QED
    BY <2>3 DEF BoundedBy
<1>5. Magnitude(Value(sgn, g.xi)) <= 1 * B
  BY <1>2, <1>4, ValueBounded DEF B
<1>6. Value(sgn, g.xi) = A
  BY <1>2, <1>3
<1>7. Magnitude(A) = A
  BY <1>1 DEF Magnitude
<1>8. A <= B
  BY <1>1, <1>5, <1>6, <1>7
<1> QED
  BY <1>8 DEF A, B

LEMMA InvCancel == Inv => MatchingErrorsCancel
<1> SUFFICES ASSUME Inv, NEW v \in DOMAIN values,
                    NEW x \in 1 .. v - 1, NEW y \in 1 .. v - 1, NEW sum \in 1 .. v - 1,
                    values[v].op = "sub", values[v].args = <<sum, y>>,
                    values[sum].op = "add", values[sum].args = <<x, y>>
             PROVE  noiseTermsAbsSum(values[v].form) = noiseTermsAbsSum(values[x].form)
  BY DEF MatchingErrorsCancel
<1> DEFINE f == values[x].form  g == values[y].form  h == values[sum].form
           d == values[v].form
<1>1. /\ v \in 1 .. Len(values) /\ x \in 1 .. Len(values) /\ y \in 1 .. Len(values)
      /\ sum \in 1 .. Len(values)
  BY DEF Inv, ValuesInv
<1>2. f \in Forms /\ g \in Forms /\ h \in Forms /\ d \in Forms
  BY <1>1, ValueIs DEF Inv
<1>3. FormOf(v, values) /\ FormOf(sum, values)
  BY <1>1 DEF Inv, ValuesInv
<1>4. /\ <<sum, y>>[1] = sum /\ <<sum, y>>[2] = y
      /\ <<x, y>>[1] = x /\ <<x, y>>[2] = y
  OBVIOUS
<1>5. d = Difference(h, g) /\ h = Sum(f, g)
  BY <1>3, <1>4 DEF FormOf
<1> HIDE DEF f, g, h, d
<1>6. ASSUME NEW eps \in Assignments
      PROVE  Value(eps, d.xi) = Value(eps, f.xi)
  <2> DEFINE a == Value(eps, f.xi)  b == Value(eps, g.xi)  c == Value(eps, h.xi)
             e == Value(eps, d.xi)
  <2>1. a \in Int /\ b \in Int
    BY <1>2, ValueTermsType DEF Forms
  <2>2. c = a + b
    BY <1>2, <1>5, SumIs
  <2>3. e = c - b
    BY <1>2, <1>5, DifferenceIs
  <2> HIDE DEF a, b, c, e
  <2>4. e = a
    BY <2>1, <2>2, <2>3
  <2> QED
    BY <2>4 DEF a, e
<1> DEFINE A == noiseTermsAbsSum(f)  D == noiseTermsAbsSum(d)
<1>7. A <= D /\ D <= A
  BY <1>2, <1>6, AbsSumAtMost
<1>8. A \in Int /\ D \in Int
  BY <1>2, AbsSumIs DEF Forms
<1> HIDE DEF A, D
<1>9. A = D
  BY <1>7, <1>8
<1> QED
  BY <1>9 DEF A, D, f, d

\* Errors that are the same cancel: (x + y) - y is claimed to have the error of x,
\* because the sums match the terms with one symbol (mergeSumNoiseTerms).
THEOREM SameErrorsCancel == Spec => []MatchingErrorsCancel
  BY Invariance, InvCancel, PTL
=============================================================================
