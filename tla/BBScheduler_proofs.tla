------------------------- MODULE BBScheduler_proofs -------------------------
(***************************************************************************)
(* Proofs about the schedule of the basic blocks, for every function.      *)
(***************************************************************************)
EXTENDS BBScheduler, RecursionLemmas, SequenceTheorems, FiniteSetTheorems

CFG == [Blocks -> Seq(Blocks)]

-----------------------------------------------------------------------------
(* Reachability.                                                           *)

Grow(G, avoid, R) == R \cup ((UNION {ToSet(G[b]) : b \in R}) \ avoid)

\* r is computed as Reach computes it.
Explores(r, G, from, avoid) ==
  /\ r[0] = from \ avoid
  /\ \A n \in 1 .. Cardinality(Blocks) : r[n] = Grow(G, avoid, r[n - 1])
  /\ Reach(G, from, avoid) = r[Cardinality(Blocks)]

\* The successors of a block are blocks.
LEMMA SuccessorsAreBlocks ==
  ASSUME NEW G \in CFG, NEW b \in Blocks
  PROVE  ToSet(G[b]) \subseteq Blocks
<1>1. G[b] \in Seq(Blocks)
  BY DEF CFG
<1>2. \A i \in DOMAIN G[b] : G[b][i] \in Blocks
  BY <1>1, LenProperties, ElementOfSeq
<1> QED
  BY <1>2 DEF ToSet

\* The recursion of Reach, unfolded.
LEMMA ReachIsIterated ==
  ASSUME NEW G \in CFG, NEW from \in SUBSET Blocks, NEW avoid
  PROVE  \E f \in [0 .. Cardinality(Blocks) -> SUBSET Blocks] :
           Explores(f, G, from, avoid)
<1> DEFINE N == Cardinality(Blocks)
           X == SUBSET Blocks
           step == [n \in 1 .. N |-> [R \in X |-> Grow(G, avoid, R)]]
           Rec(r) == r = [n \in 0 .. N |-> IF n = 0 THEN from \ avoid
                            ELSE r[n - 1] \cup ((UNION {ToSet(G[b]) : b \in r[n - 1]}) \ avoid)]
<1>1. N \in Nat
  BY GraphsAssumption, FS_CardinalityType
<1> HIDE DEF N
<1>2. \A R \in X : Grow(G, avoid, R) \in X
  BY SuccessorsAreBlocks DEF Grow
<1>3. from \ avoid \in X
  OBVIOUS
<1>4. step \in [1 .. N -> [X -> X]]
  BY <1>2
<1> HIDE DEF step, X
<1>5. PICK f \in [0 .. N -> X] : Computes(f, from \ avoid, step, N)
  BY <1>1, <1>3, <1>4, RecursiveFunction, Zenon
<1>6. \A n \in 1 .. N : f[n - 1] \in X /\ f[n] = Grow(G, avoid, f[n - 1])
  <2> SUFFICES ASSUME NEW n \in 1 .. N PROVE f[n - 1] \in X /\ f[n] = Grow(G, avoid, f[n - 1])
    OBVIOUS
  <2>1. n - 1 \in 0 .. N
    BY <1>1
  <2>2. f[n - 1] \in X
    BY <2>1, <1>5
  <2>3. step[n][f[n - 1]] = Grow(G, avoid, f[n - 1])
    BY <2>2 DEF step
  <2> QED
    BY <2>2, <2>3, <1>5 DEF Computes
<1>7. Rec(f)
  <2>1. \A n \in 0 .. N : n # 0 => n \in 1 .. N
    BY <1>1
  <2>2. \A n \in 0 .. N : f[n] = IF n = 0 THEN from \ avoid
                            ELSE f[n - 1] \cup ((UNION {ToSet(G[b]) : b \in f[n - 1]}) \ avoid)
    BY <2>1, <1>5, <1>6 DEF Grow, Computes
  <2> QED
    BY <1>5, <2>2
<1> DEFINE g == CHOOSE r : Rec(r)
<1>8. Rec(g)
  BY <1>7
<1>9. Reach(G, from, avoid) = g[N]
  BY DEF Reach, N
<1> HIDE DEF g
<1>10. g[0] = from \ avoid /\ \A n \in 1 .. N : g[n] = Grow(G, avoid, g[n - 1])
  <2>1. 0 \in 0 .. N /\ \A n \in 1 .. N : n \in 0 .. N /\ n # 0
    BY <1>1
  <2> QED
    BY <1>8, <2>1 DEF Grow
<1>11. DOMAIN g = 0 .. N /\ g = [n \in 0 .. N |-> g[n]]
  BY <1>8
<1>12. \A n \in 0 .. N : g[n] \in X
  <2> DEFINE T == {n \in 0 .. N : g[n] \in X}
  <2>1. 0 \in T
    <3>1. 0 \in 0 .. N /\ from \ avoid \in X
      BY <1>1, <1>3
    <3> QED
      BY <3>1, <1>10
  <2>2. \A n \in 0 .. N : n + 1 \in 0 .. N /\ n \in T => n + 1 \in T
    <3> SUFFICES ASSUME NEW n \in 0 .. N, n + 1 \in 0 .. N, g[n] \in X PROVE g[n + 1] \in X
      OBVIOUS
    <3>1. n + 1 \in 1 .. N /\ (n + 1) - 1 = n
      BY <1>1
    <3> QED
      BY <3>1, <1>2, <1>10
  <2> HIDE DEF T
  <2>3. \A n \in 0 .. N : n \in T
    BY <1>1, <2>1, <2>2, InductionUpTo
  <2> QED
    BY <2>3 DEF T
<1>13. g \in [0 .. N -> X]
  BY <1>11, <1>12
<1>14. Explores(g, G, from, avoid)
  BY <1>9, <1>10 DEF Explores, N
<1> QED
  BY <1>13, <1>14 DEF N, X

\* What Reach computes: the least set that holds from and is closed under the
\* successors, those in avoid apart.
LEMMA ReachIsClosure ==
  ASSUME NEW G \in CFG, NEW from \in SUBSET Blocks, NEW avoid
  PROVE  /\ Reach(G, from, avoid) \subseteq Blocks
         /\ from \ avoid \subseteq Reach(G, from, avoid)
         /\ \A b \in Reach(G, from, avoid) : ToSet(G[b]) \ avoid \subseteq Reach(G, from, avoid)
         /\ \A S : /\ from \ avoid \subseteq S
                   /\ \A b \in S \cap Blocks : ToSet(G[b]) \ avoid \subseteq S
                   => Reach(G, from, avoid) \subseteq S
<1> DEFINE N == Cardinality(Blocks)
<1>1. N \in Nat /\ IsFiniteSet(Blocks)
  BY GraphsAssumption, FS_CardinalityType
<1>9. PICK f \in [0 .. N -> SUBSET Blocks] : Explores(f, G, from, avoid)
  BY ReachIsIterated, Zenon
<1>2. /\ f[0] = from \ avoid
      /\ \A n \in 1 .. N : f[n] = Grow(G, avoid, f[n - 1])
      /\ Reach(G, from, avoid) = f[N]
  BY <1>9 DEF Explores
<1> HIDE DEF N
<1>3. N \in 0 .. N /\ 0 \in 0 .. N
  BY <1>1
<1>4. \A n \in 0 .. N : n + 1 \in 0 .. N => f[n + 1] = Grow(G, avoid, f[n])
  <2> SUFFICES ASSUME NEW n \in 0 .. N, n + 1 \in 0 .. N PROVE f[n + 1] = Grow(G, avoid, f[n])
    OBVIOUS
  <2>1. n + 1 \in 1 .. N /\ (n + 1) - 1 = n
    BY <1>1
  <2> QED
    BY <2>1, <1>2
<1>5. from \ avoid \subseteq f[N]
  <2> DEFINE T == {n \in 0 .. N : from \ avoid \subseteq f[n]}
  <2>1. 0 \in T
    BY <1>2, <1>3
  <2>2. \A n \in 0 .. N : n + 1 \in 0 .. N /\ n \in T => n + 1 \in T
    BY <1>4 DEF Grow
  <2> HIDE DEF T
  <2>3. N \in T
    BY <1>1, <1>3, <2>1, <2>2, InductionUpTo
  <2> QED
    BY <2>3 DEF T
<1>6. ASSUME NEW S, from \ avoid \subseteq S,
             \A b \in S \cap Blocks : ToSet(G[b]) \ avoid \subseteq S
      PROVE  f[N] \subseteq S
  <2> DEFINE T == {n \in 0 .. N : f[n] \subseteq S}
  <2>1. 0 \in T
    BY <1>2, <1>3, <1>6
  <2>2. ASSUME NEW n \in 0 .. N, n + 1 \in 0 .. N, n \in T PROVE n + 1 \in T
    <3>1. f[n] \subseteq S \cap Blocks
      BY <2>2, <1>2
    <3>2. (UNION {ToSet(G[b]) : b \in f[n]}) \ avoid \subseteq S
      BY <3>1, <1>6
    <3> QED
      BY <3>1, <3>2, <1>4, <2>2 DEF Grow
  <2> HIDE DEF T
  <2>3. N \in T
    BY <1>1, <1>3, <2>1, <2>2, InductionUpTo
  <2> QED
    BY <2>3 DEF T
<1>7. \A b \in f[N] : ToSet(G[b]) \ avoid \subseteq f[N]
  <2> DEFINE Closed(R) == Grow(G, avoid, R) = R
             T == {n \in 0 .. N : Closed(f[n]) \/ Cardinality(f[n]) > n}
  <2>1. \A R \in SUBSET Blocks : IsFiniteSet(R) /\ Cardinality(R) \in Nat /\ Cardinality(R) <= N
    BY <1>1, FS_Subset, FS_CardinalityType DEF N
  <2>2. 0 \in T
    <3>1. CASE f[0] = {}
      <4>1. Closed(f[0])
        BY <3>1 DEF Grow
      <4> QED
        BY <4>1, <1>3
    <3>2. CASE f[0] # {}
      <4>1. f[0] \in SUBSET Blocks
        BY <1>2, <1>3
      <4>2. Cardinality(f[0]) # 0
        BY <3>2, <4>1, <2>1, FS_EmptySet
      <4>3. Cardinality(f[0]) > 0
        BY <4>2, <4>1, <2>1
      <4> QED
        BY <4>3, <1>3
    <3> QED
      BY <3>1, <3>2
  <2>3. ASSUME NEW n \in 0 .. N, n + 1 \in 0 .. N, n \in T PROVE n + 1 \in T
    <3>1. f[n] \in SUBSET Blocks /\ f[n + 1] \in SUBSET Blocks /\ f[n + 1] = Grow(G, avoid, f[n])
      BY <1>2, <1>4, <2>3
    <3>2. CASE Closed(f[n])
      <4>1. Closed(f[n + 1])
        BY <3>1, <3>2
      <4> QED
        BY <4>1, <2>3
    <3>3. CASE ~ Closed(f[n])
      <4>1. f[n] \subseteq f[n + 1] /\ f[n] # f[n + 1]
        BY <3>1, <3>3 DEF Grow
      <4>2. Cardinality(f[n]) <= Cardinality(f[n + 1]) /\ Cardinality(f[n]) # Cardinality(f[n + 1])
        BY <4>1, <3>1, <2>1, FS_Subset
      <4>3. Cardinality(f[n]) > n
        BY <3>3, <2>3
      <4>4. Cardinality(f[n + 1]) > n + 1
        BY <4>2, <4>3, <3>1, <2>1
      <4> QED
        BY <4>4, <2>3
    <3> QED
      BY <3>2, <3>3
  <2> HIDE DEF T, Closed
  <2>4. N \in T
    BY <1>1, <1>3, <2>2, <2>3, InductionUpTo
  <2>5. f[N] \in SUBSET Blocks
    BY <1>2, <1>3
  <2>6. Cardinality(f[N]) <= N /\ Cardinality(f[N]) \in Nat
    BY <2>1, <2>5
  <2>7. Closed(f[N])
    BY <2>4, <2>6, <1>1 DEF T
  <2> QED
    BY <2>7 DEF Closed, Grow
<1>8. f[N] \subseteq Blocks
  BY <1>2, <1>3
<1> QED
  BY <1>2, <1>5, <1>6, <1>7, <1>8

-----------------------------------------------------------------------------
(* Sequences: what Pick picks, and how often an element occurs.            *)

\* r is computed as Pick computes it.
Picks(r, s, S) ==
  /\ r[0] = <<>>
  /\ \A n \in 1 .. Len(s) : r[n] = IF s[n] \in S THEN Append(r[n - 1], s[n]) ELSE r[n - 1]
  /\ Pick(s, S) = r[Len(s)]

\* The recursion of Pick, unfolded.
LEMMA PickIsIterated ==
  ASSUME NEW s \in Seq(Blocks), NEW S
  PROVE  \E f \in [0 .. Len(s) -> Seq(Blocks)] : Picks(f, s, S)
<1> DEFINE N == Len(s)
           X == Seq(Blocks)
           one(n, t) == IF s[n] \in S THEN Append(t, s[n]) ELSE t
           step == [n \in 1 .. N |-> [t \in X |-> one(n, t)]]
           Rec(r) == r = [n \in 0 .. N |-> IF n = 0 THEN <<>>
                            ELSE IF s[n] \in S THEN Append(r[n - 1], s[n]) ELSE r[n - 1]]
<1>1. N \in Nat
  BY LenProperties
<1>2. \A n \in 1 .. N : s[n] \in Blocks
  BY ElementOfSeq
<1> HIDE DEF N
<1>3. \A n \in 1 .. N, t \in X : one(n, t) \in X
  BY <1>2, AppendProperties
<1>4. <<>> \in X
  BY EmptySeq
<1> HIDE DEF one
<1>5. step \in [1 .. N -> [X -> X]]
  BY <1>3
<1> HIDE DEF step, X
<1>6. PICK f \in [0 .. N -> X] : Computes(f, <<>>, step, N)
  BY <1>1, <1>4, <1>5, RecursiveFunction, Zenon
<1>7. ASSUME NEW n \in 1 .. N PROVE f[n - 1] \in X /\ f[n] = one(n, f[n - 1])
  <2>1. n - 1 \in 0 .. N
    BY <1>1
  <2>2. f[n - 1] \in X
    BY <2>1, <1>6
  <2>3. step[n][f[n - 1]] = one(n, f[n - 1])
    BY <2>2 DEF step
  <2> QED
    BY <2>2, <2>3, <1>6 DEF Computes
<1>8. Rec(f)
  <2>1. \A n \in 0 .. N : n # 0 => n \in 1 .. N
    BY <1>1
  <2>2. \A n \in 0 .. N : f[n] = IF n = 0 THEN <<>>
                            ELSE IF s[n] \in S THEN Append(f[n - 1], s[n]) ELSE f[n - 1]
    BY <2>1, <1>6, <1>7 DEF one, Computes
  <2> QED
    BY <1>6, <2>2
<1> DEFINE g == CHOOSE r : Rec(r)
<1>9. Rec(g)
  BY <1>8
<1>10. Pick(s, S) = g[N]
  BY DEF Pick, N
<1> HIDE DEF g
<1>11. g[0] = <<>> /\ \A n \in 1 .. N : g[n] = IF s[n] \in S THEN Append(g[n - 1], s[n]) ELSE g[n - 1]
  <2>1. 0 \in 0 .. N /\ \A n \in 1 .. N : n \in 0 .. N /\ n # 0
    BY <1>1
  <2> QED
    BY <1>9, <2>1
<1>12. DOMAIN g = 0 .. N /\ g = [n \in 0 .. N |-> g[n]]
  BY <1>9
<1>13. \A n \in 0 .. N : g[n] \in X
  <2> DEFINE T == {n \in 0 .. N : g[n] \in X}
  <2>1. 0 \in T
    <3>1. 0 \in 0 .. N
      BY <1>1
    <3> QED
      BY <3>1, <1>4, <1>11
  <2>2. \A n \in 0 .. N : n + 1 \in 0 .. N /\ n \in T => n + 1 \in T
    <3> SUFFICES ASSUME NEW n \in 0 .. N, n + 1 \in 0 .. N, g[n] \in X PROVE g[n + 1] \in X
      OBVIOUS
    <3>1. n + 1 \in 1 .. N /\ (n + 1) - 1 = n
      BY <1>1
    <3>2. g[n + 1] = one(n + 1, g[n])
      BY <3>1, <1>11 DEF one
    <3> QED
      BY <3>1, <3>2, <1>3
  <2> HIDE DEF T
  <2>3. \A n \in 0 .. N : n \in T
    BY <1>1, <2>1, <2>2, InductionUpTo
  <2> QED
    BY <2>3 DEF T
<1>14. g \in [0 .. N -> X]
  BY <1>12, <1>13
<1>15. Picks(g, s, S)
  BY <1>10, <1>11 DEF Picks, N
<1> QED
  BY <1>14, <1>15 DEF N, X

\* Appending adds one element.
LEMMA ElementsOfAppend ==
  ASSUME NEW S, NEW s \in Seq(S), NEW x \in S
  PROVE  ToSet(Append(s, x)) = ToSet(s) \cup {x}
<1>1. /\ Len(s) \in Nat /\ DOMAIN s = 1 .. Len(s)
      /\ DOMAIN Append(s, x) = 1 .. (Len(s) + 1)
      /\ \A i \in 1 .. Len(s) : Append(s, x)[i] = s[i]
      /\ Append(s, x)[Len(s) + 1] = x
  BY LenProperties, AppendProperties
<1>2. 1 .. (Len(s) + 1) = (1 .. Len(s)) \cup {Len(s) + 1}
  BY <1>1
<1> QED
  BY <1>1, <1>2 DEF ToSet

\* Pick keeps the elements of s that are in S.
LEMMA PickIsFilter ==
  ASSUME NEW s \in Seq(Blocks), NEW S
  PROVE  Pick(s, S) \in Seq(Blocks) /\ ToSet(Pick(s, S)) = ToSet(s) \cap S
<1> DEFINE N == Len(s)
           before(n) == {s[i] : i \in 1 .. n}
<1>1. N \in Nat /\ DOMAIN s = 1 .. N /\ \A n \in 1 .. N : s[n] \in Blocks
  BY LenProperties, ElementOfSeq
<1>2. PICK f \in [0 .. N -> Seq(Blocks)] : Picks(f, s, S)
  BY PickIsIterated, Zenon
<1>3. f[0] = <<>> /\ Pick(s, S) = f[N] /\
      \A n \in 1 .. N : f[n] = IF s[n] \in S THEN Append(f[n - 1], s[n]) ELSE f[n - 1]
  BY <1>2 DEF Picks
<1> HIDE DEF N
<1> DEFINE T == {n \in 0 .. N : ToSet(f[n]) = before(n) \cap S}
<1>4. 0 \in T
  <2>1. before(0) = {} /\ ToSet(<<>>) = {}
    BY DEF ToSet
  <2> QED
    BY <2>1, <1>1, <1>3
<1>5. ASSUME NEW n \in 0 .. N, n + 1 \in 0 .. N, n \in T PROVE n + 1 \in T
  <2>1. n + 1 \in 1 .. N /\ (n + 1) - 1 = n
    BY <1>1, <1>5
  <2>2. f[n] \in Seq(Blocks) /\ s[n + 1] \in Blocks
    BY <2>1, <1>1, <1>2
  <2>3. f[n + 1] = IF s[n + 1] \in S THEN Append(f[n], s[n + 1]) ELSE f[n]
    BY <2>1, <1>3
  <2>4. 1 .. (n + 1) = (1 .. n) \cup {n + 1}
    BY <1>1
  <2>5. before(n + 1) = before(n) \cup {s[n + 1]}
    BY <2>4
  <2>6. ToSet(f[n]) = before(n) \cap S
    BY <1>5
  <2> HIDE DEF before
  <2>7. ToSet(f[n + 1]) = before(n + 1) \cap S
    BY <2>2, <2>3, <2>5, <2>6, ElementsOfAppend
  <2> QED
    BY <1>5, <2>7
<1> HIDE DEF T
<1>6. N \in T
  <2>1. \A n \in 0 .. N : n \in T
    BY <1>1, <1>4, <1>5, InductionUpTo
  <2> QED
    BY <2>1, <1>1
<1>7. ToSet(f[N]) = before(N) \cap S
  BY <1>6 DEF T
<1>8. before(N) = ToSet(s)
  BY <1>1 DEF ToSet
<1>9. f[N] \in Seq(Blocks)
  BY <1>1, <1>2
<1> QED
  BY <1>3, <1>7, <1>8, <1>9

\* How often x occurs in s.
Count(s, x) == Cardinality({k \in DOMAIN s : s[k] = x})

\* The occurrences in a sequence are finitely many; none means it is not an element.
LEMMA CountIsNat ==
  ASSUME NEW S, NEW s \in Seq(S), NEW x
  PROVE  /\ IsFiniteSet({k \in DOMAIN s : s[k] = x})
         /\ Count(s, x) \in Nat
         /\ Count(s, x) = 0 <=> x \notin ToSet(s)
<1> DEFINE P == {k \in DOMAIN s : s[k] = x}
<1>1. DOMAIN s = 1 .. Len(s) /\ Len(s) \in Nat
  BY LenProperties
<1>2. IsFiniteSet(DOMAIN s)
  BY <1>1, FS_Interval
<1>3. IsFiniteSet(P)
  BY <1>2, FS_Subset
<1>4. P = {} <=> x \notin ToSet(s)
  BY DEF ToSet
<1> HIDE DEF P
<1>5. Cardinality(P) \in Nat /\ (Cardinality(P) = 0 <=> P = {})
  BY <1>3, FS_CardinalityType, FS_EmptySet
<1> QED
  BY <1>3, <1>4, <1>5 DEF Count, P

\* An element occurs in s \o t as often as in s and in t together.
LEMMA CountOfConcat ==
  ASSUME NEW S, NEW s \in Seq(S), NEW t \in Seq(S), NEW x
  PROVE  Count(s \o t, x) = Count(s, x) + Count(t, x)
<1> DEFINE P == {k \in DOMAIN s : s[k] = x}
           Q == {k \in DOMAIN t : t[k] = x}
           R == {k \in DOMAIN (s \o t) : (s \o t)[k] = x}
           M == {k \in R : k > Len(s)}
           f == [k \in Q |-> Len(s) + k]
<1>1. /\ DOMAIN s = 1 .. Len(s) /\ Len(s) \in Nat
      /\ DOMAIN t = 1 .. Len(t) /\ Len(t) \in Nat
      /\ DOMAIN (s \o t) = 1 .. (Len(s) + Len(t))
      /\ \A i \in 1 .. (Len(s) + Len(t)) : (s \o t)[i] = IF i <= Len(s) THEN s[i] ELSE t[i - Len(s)]
  BY LenProperties, ConcatProperties
<1>2. R = P \cup M /\ P \cap M = {}
  <2>1. P \subseteq R
    BY <1>1
  <2>2. \A k \in R : k \in M \/ k \in P
    BY <1>1
  <2>3. \A k \in P : k \notin M
    BY <1>1
  <2> QED
    BY <2>1, <2>2, <2>3
<1>3. f \in [Q -> M]
  <2> SUFFICES ASSUME NEW k \in Q PROVE Len(s) + k \in M
    OBVIOUS
  <2>1. Len(s) + k \in 1 .. (Len(s) + Len(t)) /\ Len(s) + k > Len(s) /\ (Len(s) + k) - Len(s) = k
    BY <1>1
  <2> QED
    BY <2>1, <1>1
<1>4. \A a, b \in Q : f[a] = f[b] => a = b
  BY <1>1
<1>5. \A y \in M : \E k \in Q : f[k] = y
  <2> SUFFICES ASSUME NEW y \in M PROVE \E k \in Q : f[k] = y
    OBVIOUS
  <2>1. y \in 1 .. (Len(s) + Len(t)) /\ y > Len(s) /\ (s \o t)[y] = x
    BY <1>1
  <2>2. y - Len(s) \in 1 .. Len(t) /\ Len(s) + (y - Len(s)) = y
    BY <2>1, <1>1
  <2>3. t[y - Len(s)] = x
    BY <2>1, <2>2, <1>1
  <2> QED
    BY <2>2, <2>3, <1>1
<1>6. ExistsBijection(Q, M)
  <2> HIDE DEF f, Q, M
  <2>1. f \in Bijection(Q, M)
    BY <1>3, <1>4, <1>5 DEF Bijection, Injection, Surjection, IsInjective
  <2> QED
    BY <2>1 DEF ExistsBijection
<1>7. IsFiniteSet(P) /\ IsFiniteSet(Q)
  BY CountIsNat
<1> HIDE DEF P, Q, R, M
<1>8. IsFiniteSet(M) /\ Cardinality(M) = Cardinality(Q)
  BY <1>6, <1>7, FS_Bijection
<1>9. Cardinality(R) = Cardinality(P) + Cardinality(M) - Cardinality(P \cap M)
  BY <1>2, <1>7, <1>8, FS_Union
<1>10. Cardinality(P \cap M) = 0
  BY <1>2, FS_EmptySet
<1>11. Cardinality(P) \in Nat /\ Cardinality(Q) \in Nat
  BY <1>7, FS_CardinalityType
<1>12. Cardinality(R) = Cardinality(P) + Cardinality(Q)
  BY <1>8, <1>9, <1>10, <1>11
<1> QED
  BY <1>12 DEF Count, P, Q, R

\* A sequence of one element.
LEMMA CountOfOne ==
  ASSUME NEW x, NEW y
  PROVE  Count(<<y>>, x) = IF x = y THEN 1 ELSE 0
<1>1. CASE x = y
  <2>1. {k \in DOMAIN <<y>> : <<y>>[k] = x} = {1}
    BY <1>1
  <2> QED
    BY <2>1, <1>1, FS_Singleton DEF Count
<1>2. CASE x # y
  <2>1. {k \in DOMAIN <<y>> : <<y>>[k] = x} = {}
    BY <1>2
  <2> QED
    BY <2>1, <1>2, FS_EmptySet DEF Count
<1> QED
  BY <1>1, <1>2

\* Reversing a sequence does not change how often an element occurs in it.
LEMMA CountOfReverse ==
  ASSUME NEW S, NEW s \in Seq(S), NEW x
  PROVE  Count(Reverse(s), x) = Count(s, x)
<1> DEFINE n == Len(s)
           P == {k \in DOMAIN s : s[k] = x}
           R == {k \in DOMAIN Reverse(s) : Reverse(s)[k] = x}
           f == [k \in P |-> (n - k) + 1]
<1>1. DOMAIN s = 1 .. n /\ n \in Nat
  BY LenProperties
<1>2. /\ DOMAIN Reverse(s) = 1 .. n
      /\ \A k \in 1 .. n : Reverse(s)[k] = s[(n - k) + 1]
  BY <1>1 DEF Reverse
<1>3. \A k \in 1 .. n : (n - k) + 1 \in 1 .. n /\ (n - ((n - k) + 1)) + 1 = k
  BY <1>1
<1>4. f \in [P -> R]
  BY <1>1, <1>2, <1>3
<1>5. \A a, b \in P : f[a] = f[b] => a = b
  BY <1>1
<1>6. \A y \in R : \E k \in P : f[k] = y
  <2> SUFFICES ASSUME NEW y \in R PROVE \E k \in P : f[k] = y
    OBVIOUS
  <2>1. (n - y) + 1 \in P
    BY <1>1, <1>2, <1>3
  <2>2. f[(n - y) + 1] = y
    BY <2>1, <1>2, <1>3
  <2> QED
    BY <2>1, <2>2
<1>7. ExistsBijection(P, R)
  <2> HIDE DEF f, P, R
  <2>1. f \in Bijection(P, R)
    BY <1>4, <1>5, <1>6 DEF Bijection, Injection, Surjection, IsInjective
  <2> QED
    BY <2>1 DEF ExistsBijection
<1>8. IsFiniteSet(P)
  BY CountIsNat
<1> HIDE DEF P, R
<1>9. Cardinality(R) = Cardinality(P)
  BY <1>7, <1>8, FS_Bijection
<1> QED
  BY <1>9 DEF Count, P, R

\* The elements of s \o t are those of s and those of t.
LEMMA ElementsOfConcat ==
  ASSUME NEW S, NEW s \in Seq(S), NEW t \in Seq(S)
  PROVE  s \o t \in Seq(S) /\ ToSet(s \o t) = ToSet(s) \cup ToSet(t)
<1>1. /\ DOMAIN s = 1 .. Len(s) /\ Len(s) \in Nat
      /\ DOMAIN t = 1 .. Len(t) /\ Len(t) \in Nat
      /\ DOMAIN (s \o t) = 1 .. (Len(s) + Len(t))
      /\ \A i \in 1 .. (Len(s) + Len(t)) : (s \o t)[i] = IF i <= Len(s) THEN s[i] ELSE t[i - Len(s)]
  BY LenProperties, ConcatProperties
<1>2. \A k \in 1 .. Len(s) : k \in DOMAIN (s \o t) /\ (s \o t)[k] = s[k]
  BY <1>1
<1>3. \A k \in 1 .. Len(t) : Len(s) + k \in DOMAIN (s \o t) /\ (s \o t)[Len(s) + k] = t[k]
  BY <1>1
<1>4. \A k \in DOMAIN (s \o t) : \/ k \in DOMAIN s /\ (s \o t)[k] = s[k]
                                 \/ k - Len(s) \in DOMAIN t /\ (s \o t)[k] = t[k - Len(s)]
  BY <1>1
<1>5. ToSet(s) \subseteq ToSet(s \o t)
  BY <1>1, <1>2 DEF ToSet
<1>6. ToSet(t) \subseteq ToSet(s \o t)
  BY <1>1, <1>3 DEF ToSet
<1>7. ToSet(s \o t) \subseteq ToSet(s) \cup ToSet(t)
  BY <1>4 DEF ToSet
<1> QED
  BY <1>5, <1>6, <1>7, ConcatProperties

\* A sequence is its first element and the rest.
LEMMA FirstAndRest ==
  ASSUME NEW S, NEW s \in Seq(S), s # <<>>
  PROVE  /\ Head(s) \in S /\ Tail(s) \in Seq(S)
         /\ s = <<Head(s)>> \o Tail(s)
         /\ ToSet(s) = {Head(s)} \cup ToSet(Tail(s))
<1>1. Head(s) \in S /\ Tail(s) \in Seq(S) /\ Len(Tail(s)) = Len(s) - 1 /\ Head(s) = s[1]
      /\ Len(s) \in Nat \ {0}
      /\ \A i \in 1 .. Len(Tail(s)) : Tail(s)[i] = s[i + 1]
  BY HeadTailProperties, EmptySeq
<1> DEFINE one == <<Head(s)>>
           rest == Tail(s)
<1>2. one \in Seq(S) /\ Len(one) = 1 /\ one[1] = Head(s)
  BY <1>1
<1>3. rest \in Seq(S) /\ Len(rest) = Len(s) - 1 /\ \A i \in 1 .. Len(rest) : rest[i] = s[i + 1]
  BY <1>1
<1> HIDE DEF one, rest
<1>4. one \o rest \in Seq(S) /\ Len(one \o rest) = Len(one) + Len(rest)
      /\ \A i \in 1 .. (Len(one) + Len(rest)) : (one \o rest)[i] = IF i <= Len(one) THEN one[i] ELSE rest[i - Len(one)]
  <2>1. one \in Seq(S) /\ rest \in Seq(S)
    BY <1>2, <1>3
  <2> QED
    BY <2>1, ConcatProperties, Zenon
<1>5. Len(one) + Len(rest) = Len(s) /\ Len(s) \in Nat
  BY <1>1, <1>2, <1>3
<1>6. \A i \in 1 .. Len(s) : s[i] = (one \o rest)[i]
  <2> SUFFICES ASSUME NEW i \in 1 .. Len(s) PROVE s[i] = (one \o rest)[i]
    OBVIOUS
  <2>1. CASE i = 1
    BY <2>1, <1>1, <1>2, <1>4, <1>5
  <2>2. CASE i # 1
    <3>1. i - 1 \in 1 .. Len(rest) /\ (i - 1) + 1 = i /\ ~ (i <= 1)
      BY <2>2, <1>2, <1>3, <1>5
    <3>2. rest[i - 1] = s[i]
      BY <3>1, <1>3
    <3> QED
      BY <3>1, <3>2, <1>2, <1>4, <1>5
  <2> QED
    BY <2>1, <2>2
<1>7. s = one \o rest
  BY <1>4, <1>5, <1>6, SeqEqual
<1>8. ToSet(one) = {Head(s)}
  <2>1. DOMAIN one = {1}
    BY <1>2, LenProperties
  <2> QED
    BY <2>1, <1>2 DEF ToSet
<1>9. ToSet(s) = {Head(s)} \cup ToSet(rest)
  <2>1. ToSet(one \o rest) = ToSet(one) \cup ToSet(rest)
    BY <1>2, <1>3, ElementsOfConcat
  <2> QED
    BY <2>1, <1>7, <1>8
<1> QED
  BY <1>1, <1>7, <1>9 DEF one, rest

-----------------------------------------------------------------------------
(* The calls a block makes.                                                *)

enqueue(b) == [do |-> "enqueue", bb |-> b]
push(b) == [do |-> "push", bb |-> b]

\* The blocks of a loop that are queued twice.
Twice(b) == loop[b] # NoLoop /\ isLoopExiting(loop[b], b) /\ ~isLoopLatch(loop[b], b)
Visits(b) == IF Twice(b) THEN 2 ELSE 1

\* Enqueues of blocks are items, one per block.
LEMMA EnqueuesOf ==
  ASSUME NEW bs \in Seq(Blocks)
  PROVE  /\ Enqueues(bs) \in Seq(Items)
         /\ ToSet(Enqueues(bs)) = {enqueue(d) : d \in ToSet(bs)}
         /\ \A d : Count(Enqueues(bs), push(d)) = 0
<1>1. DOMAIN bs = 1 .. Len(bs) /\ Len(bs) \in Nat /\ \A k \in 1 .. Len(bs) : bs[k] \in Blocks
  BY LenProperties, ElementOfSeq
<1>2. Enqueues(bs) \in [1 .. Len(bs) -> Items]
  BY <1>1 DEF Enqueues, Items
<1>3. Enqueues(bs) \in Seq(Items)
  BY <1>1, <1>2
<1>4. DOMAIN Enqueues(bs) = DOMAIN bs /\ \A k \in DOMAIN bs : Enqueues(bs)[k] = enqueue(bs[k])
  BY DEF Enqueues, enqueue
<1>5. ToSet(Enqueues(bs)) = {enqueue(d) : d \in ToSet(bs)}
  BY <1>4 DEF ToSet
<1>6. \A d : push(d) \notin ToSet(Enqueues(bs))
  BY <1>5 DEF enqueue, push
<1>7. \A d : Count(Enqueues(bs), push(d)) = 0
  BY <1>3, <1>6, CountIsNat
<1> QED
  BY <1>3, <1>5, <1>7

\* One push_back.
LEMMA PushBackOf ==
  ASSUME NEW b \in Blocks
  PROVE  /\ PushBack(b) \in Seq(Items) /\ ToSet(PushBack(b)) = {push(b)}
         /\ \A d : Count(PushBack(b), push(d)) = IF d = b THEN 1 ELSE 0
<1>1. push(b) \in Items /\ PushBack(b) = <<push(b)>>
  BY DEF push, Items, PushBack
<1>2. PushBack(b) \in Seq(Items)
  BY <1>1
<1>3. ToSet(PushBack(b)) = {push(b)}
  BY <1>1 DEF ToSet
<1>4. \A d : push(d) = push(b) <=> d = b
  BY DEF push
<1>5. \A d : Count(PushBack(b), push(d)) = IF push(d) = push(b) THEN 1 ELSE 0
  BY <1>1, CountOfOne
<1> QED
  BY <1>2, <1>3, <1>4, <1>5

\* A block in a loop: what it puts off, between the blocks that leave the loop and the others.
Middle(b) == IF isLoopExiting(loop[b], b) /\ ~isLoopLatch(loop[b], b) THEN PushBack(b) ELSE <<>>

\* enqueueChildren enqueues each successor, and queues the block once or twice.
LEMMA CallsOf ==
  ASSUME succ \in CFG, NEW b \in Blocks
  PROVE  /\ Children(b) \in Seq(Items) /\ Calls(b) \in Seq(Items)
         /\ ToSet(Calls(b)) = {enqueue(d) : d \in ToSet(succ[b])} \cup {push(b)}
         /\ \A d : Count(Calls(b), push(d)) = IF d = b THEN Visits(b) ELSE 0
<1>1. succ[b] \in Seq(Blocks)
  BY DEF CFG
<1>2. PushBack(b) \in Seq(Items) /\ ToSet(PushBack(b)) = {push(b)}
      /\ \A d : Count(PushBack(b), push(d)) = IF d = b THEN 1 ELSE 0
  BY PushBackOf
<1>3. /\ Children(b) \in Seq(Items)
      /\ {enqueue(d) : d \in ToSet(succ[b])} \subseteq ToSet(Children(b))
      /\ ToSet(Children(b)) \subseteq {enqueue(d) : d \in ToSet(succ[b])} \cup {push(b)}
      /\ \A d : Count(Children(b), push(d)) = IF d = b THEN Visits(b) - 1 ELSE 0
  <2>1. CASE loop[b] = NoLoop
    <3>1. Children(b) = Enqueues(succ[b]) /\ Visits(b) = 1
      BY <2>1 DEF Children, Visits, Twice
    <3> QED
      BY <3>1, <1>1, EnqueuesOf
  <2>2. CASE loop[b] # NoLoop
    <3> DEFINE s == Pick(succ[b], Outward(b))
               t == Pick(succ[b], ToSet(succ[b]) \ Outward(b))
               A == Enqueues(s)
               B == Middle(b)
               C == Enqueues(t)
    <3>1. s \in Seq(Blocks) /\ t \in Seq(Blocks)
          /\ ToSet(s) = ToSet(succ[b]) \cap Outward(b)
          /\ ToSet(t) = ToSet(succ[b]) \cap (ToSet(succ[b]) \ Outward(b))
      BY <1>1, PickIsFilter
    <3>2. Children(b) = A \o B \o C
      BY <2>2 DEF Children, Middle
    <3> HIDE DEF s, t
    <3>3. A \in Seq(Items) /\ C \in Seq(Items)
          /\ ToSet(A) = {enqueue(d) : d \in ToSet(s)} /\ ToSet(C) = {enqueue(d) : d \in ToSet(t)}
          /\ (\A d : Count(A, push(d)) = 0) /\ (\A d : Count(C, push(d)) = 0)
      BY <3>1, EnqueuesOf
    <3>4. B \in Seq(Items) /\ ToSet(B) \subseteq {push(b)}
          /\ \A d : Count(B, push(d)) = IF d = b THEN Visits(b) - 1 ELSE 0
      <4>1. CASE Twice(b)
        <5>1. B = PushBack(b) /\ Visits(b) = 2
          BY <4>1 DEF Twice, Visits, Middle
        <5> QED
          BY <5>1, <1>2
      <4>2. CASE ~ Twice(b)
        <5>1. B = <<>> /\ Visits(b) = 1
          BY <4>2, <2>2 DEF Twice, Visits, Middle
        <5>2. <<>> \in Seq(Items) /\ ToSet(<<>>) = {}
          BY DEF ToSet
        <5>3. \A d : Count(<<>>, push(d)) = 0
          BY <5>2, CountIsNat
        <5> QED
          BY <5>1, <5>2, <5>3
      <4> QED
        BY <4>1, <4>2
    <3> HIDE DEF A, B, C
    <3> DEFINE AB == A \o B
    <3>5. AB \in Seq(Items) /\ ToSet(AB) = ToSet(A) \cup ToSet(B)
      BY <3>3, <3>4, ElementsOfConcat
    <3>6. \A d : Count(AB, push(d)) = Count(A, push(d)) + Count(B, push(d))
      BY <3>3, <3>4, CountOfConcat
    <3>12. Children(b) = AB \o C
      BY <3>2
    <3> HIDE DEF AB
    <3>7. AB \o C \in Seq(Items) /\ ToSet(AB \o C) = ToSet(A) \cup ToSet(B) \cup ToSet(C)
      BY <3>3, <3>5, ElementsOfConcat
    <3>8. \A d : Count(AB \o C, push(d)) = Count(AB, push(d)) + Count(C, push(d))
      BY <3>3, <3>5, CountOfConcat
    <3>9. \A d : Count(AB \o C, push(d)) = IF d = b THEN Visits(b) - 1 ELSE 0
      BY <3>3, <3>4, <3>6, <3>8 DEF Visits
    <3>10. ToSet(s) \cup ToSet(t) = ToSet(succ[b])
      BY <3>1
    <3>11. ToSet(A) \cup ToSet(C) = {enqueue(d) : d \in ToSet(succ[b])}
      BY <3>3, <3>10
    <3> QED
      BY <3>12, <3>4, <3>7, <3>9, <3>11
  <2> QED
    BY <2>1, <2>2
<1>4. Calls(b) \in Seq(Items) /\ ToSet(Calls(b)) = ToSet(Children(b)) \cup ToSet(PushBack(b))
  BY <1>2, <1>3, ElementsOfConcat DEF Calls
<1>5. \A d : Count(Calls(b), push(d)) = Count(Children(b), push(d)) + Count(PushBack(b), push(d))
  BY <1>2, <1>3, CountOfConcat DEF Calls
<1>6. \A d : Count(Calls(b), push(d)) = IF d = b THEN Visits(b) ELSE 0
  BY <1>2, <1>3, <1>5 DEF Visits
<1> QED
  BY <1>2, <1>3, <1>4, <1>6

-----------------------------------------------------------------------------
(* Every block that can be executed is scheduled.                          *)

\* What every state satisfies: what is left to do leads to every successor of a
\* visited block, and the pushes made and still to be made are those of the
\* visited blocks, two for a block that its loop is left from.
ScheduleInv ==
  /\ succ \in Graphs /\ loop = LoopInfo(succ) /\ TypeOK
  /\ Set \subseteq Reachable(succ)
  /\ \A b \in Blocks : enqueue(b) \in ToSet(todo) => b \in Reachable(succ)
  /\ \A b \in Set : \A d \in ToSet(succ[b]) : d \in Set \/ enqueue(d) \in ToSet(todo)
  /\ Entry \in Set \/ enqueue(Entry) \in ToSet(todo)
  /\ \A b \in Blocks :
       Count(Queue, b) + Count(todo, push(b)) = IF b \in Set THEN Visits(b) ELSE 0

\* A graph is what the assumption says; its reachable blocks are closed.
LEMMA ReachableIsClosed ==
  ASSUME NEW G \in Graphs
  PROVE  /\ G \in CFG /\ Reachable(G) \subseteq Blocks /\ Entry \in Reachable(G)
         /\ \A b \in Reachable(G) : ToSet(G[b]) \subseteq Reachable(G)
         /\ \A S : Entry \in S /\ (\A b \in S \cap Blocks : ToSet(G[b]) \subseteq S)
                     => Reachable(G) \subseteq S
<1>1. G \in CFG /\ {Entry} \in SUBSET Blocks
  BY GraphsAssumption DEF CFG
<1>2. \A A : A \ {} = A
  OBVIOUS
<1> QED
  BY <1>1, <1>2, ReachIsClosure DEF Reachable

\* The first item, whichever it is.
LEMMA FirstItem ==
  ASSUME todo \in Seq(Items), todo # <<>>
  PROVE  /\ Head(todo) \in Items /\ Tail(todo) \in Seq(Items) /\ Head(todo).bb \in Blocks
         /\ ToSet(todo) = {Head(todo)} \cup ToSet(Tail(todo))
         /\ Head(todo).do = "enqueue" => Head(todo) = enqueue(Head(todo).bb)
         /\ Head(todo).do = "push" => Head(todo) = push(Head(todo).bb)
         /\ \A d : Count(todo, push(d)) =
                     (IF Head(todo) = push(d) THEN 1 ELSE 0) + Count(Tail(todo), push(d))
         /\ \A d : Count(Tail(todo), push(d)) \in Nat
<1>1. Head(todo) \in Items /\ Tail(todo) \in Seq(Items)
      /\ todo = <<Head(todo)>> \o Tail(todo)
      /\ ToSet(todo) = {Head(todo)} \cup ToSet(Tail(todo))
  BY FirstAndRest
<1>2. \A d : Count(<<Head(todo)>> \o Tail(todo), push(d)) = Count(<<Head(todo)>>, push(d)) + Count(Tail(todo), push(d))
  <2>1. <<Head(todo)>> \in Seq(Items)
    BY <1>1
  <2> QED
    BY <1>1, <2>1, CountOfConcat
<1>3. \A d : Count(<<Head(todo)>>, push(d)) = IF push(d) = Head(todo) THEN 1 ELSE 0
  BY CountOfOne
<1>4. \A d : Count(todo, push(d)) =
                     (IF Head(todo) = push(d) THEN 1 ELSE 0) + Count(Tail(todo), push(d))
  BY <1>1, <1>2, <1>3
<1>5. \A d : Count(Tail(todo), push(d)) \in Nat
  BY <1>1, CountIsNat
<1>6. /\ Head(todo).bb \in Blocks
      /\ Head(todo).do = "enqueue" => Head(todo) = enqueue(Head(todo).bb)
      /\ Head(todo).do = "push" => Head(todo) = push(Head(todo).bb)
  BY <1>1 DEF Items, enqueue, push
<1> QED
  BY <1>1, <1>4, <1>5, <1>6

\* enqueue and push items differ.
LEMMA ItemsDiffer ==
  ASSUME NEW b, NEW d
  PROVE  enqueue(b) # push(d) /\ (enqueue(b) = enqueue(d) <=> b = d) /\ (push(b) = push(d) <=> b = d)
BY DEF enqueue, push

LEMMA ItemFields ==
  ASSUME NEW b
  PROVE  /\ enqueue(b).do = "enqueue" /\ enqueue(b).bb = b
         /\ push(b).do = "push" /\ push(b).bb = b
         /\ "enqueue" # "push"
BY DEF enqueue, push

LEMMA ScheduleInit == Init => ScheduleInv
<1> SUFFICES ASSUME Init PROVE ScheduleInv
  OBVIOUS
<1>1. succ \in Graphs /\ succ \in CFG /\ loop = LoopInfo(succ) /\ Queue = <<>> /\ Set = {}
  BY GraphsAssumption DEF Init, CFG
<1>2. <<Entry>> \in Seq(Blocks) /\ ToSet(<<Entry>>) = {Entry}
  BY GraphsAssumption DEF ToSet
<1>3. todo \in Seq(Items) /\ ToSet(todo) = {enqueue(d) : d \in {Entry}}
      /\ \A d : Count(todo, push(d)) = 0
  BY <1>2, EnqueuesOf DEF Init
<1>4. Queue \in Seq(Set) /\ \A b : Count(Queue, b) = 0
  <2>1. <<>> \in Seq({}) /\ ToSet(<<>>) = {}
    BY DEF ToSet
  <2> QED
    BY <2>1, <1>1, CountIsNat
<1>5. TypeOK
  BY <1>1, <1>3, <1>4 DEF TypeOK, CFG
<1>6. \A b : enqueue(b) \in ToSet(todo) => b \in Reachable(succ)
  BY <1>1, <1>3, ReachableIsClosed, ItemsDiffer
<1> QED
  BY <1>1, <1>3, <1>4, <1>5, <1>6 DEF ScheduleInv

LEMMA ScheduleStep == ScheduleInv /\ [Next]_vars => ScheduleInv'
<1> SUFFICES ASSUME ScheduleInv, [Next]_vars PROVE ScheduleInv'
  OBVIOUS
<1>1. /\ succ \in Graphs /\ succ \in CFG /\ loop = LoopInfo(succ)
      /\ todo \in Seq(Items) /\ Queue \in Seq(Set) /\ Set \subseteq Blocks
  BY ReachableIsClosed DEF ScheduleInv, TypeOK
<1>2. /\ Set \subseteq Reachable(succ)
      /\ \A b \in Blocks : enqueue(b) \in ToSet(todo) => b \in Reachable(succ)
      /\ \A b \in Set : \A d \in ToSet(succ[b]) : d \in Set \/ enqueue(d) \in ToSet(todo)
      /\ Entry \in Set \/ enqueue(Entry) \in ToSet(todo)
      /\ \A b \in Blocks : Count(Queue, b) + Count(todo, push(b)) = IF b \in Set THEN Visits(b) ELSE 0
  BY DEF ScheduleInv
<1>3. CASE UNCHANGED vars
  BY <1>3 DEF ScheduleInv, TypeOK, vars, Visits, Twice, isLoopExiting, isLoopLatch
<1>4. ASSUME todo # <<>>, succ' = succ, loop' = loop,
             todo' \in Seq(Items), Queue' \in Seq(Set'), Set' \subseteq Reachable(succ),
             \A b \in Blocks : enqueue(b) \in ToSet(todo') => b \in Reachable(succ),
             \A b \in Set' : \A d \in ToSet(succ[b]) : d \in Set' \/ enqueue(d) \in ToSet(todo'),
             Entry \in Set' \/ enqueue(Entry) \in ToSet(todo'),
             \A b \in Blocks : Count(Queue', b) + Count(todo', push(b)) = IF b \in Set' THEN Visits(b) ELSE 0
      PROVE  ScheduleInv'
  <2>1. TypeOK'
    BY <1>1, <1>4, ReachableIsClosed DEF TypeOK, CFG
  <2>2. \A b : Visits(b)' = Visits(b)
    BY <1>4 DEF Visits, Twice, isLoopExiting, isLoopLatch
  <2>3. \A b \in Blocks : Count(Queue', b) + Count(todo', push(b)) = IF b \in Set' THEN Visits(b)' ELSE 0
    BY <1>4, <2>2
  <2> QED
    BY <1>1, <1>4, <2>1, <2>3 DEF ScheduleInv, enqueue, push, Count
<1> DEFINE b == Head(todo).bb
           rest == Tail(todo)
<1>5. ASSUME AlreadyVisited PROVE ScheduleInv'
  <2>1. todo # <<>> /\ Head(todo).do = "enqueue" /\ b \in Set /\ todo' = rest
        /\ succ' = succ /\ loop' = loop /\ Queue' = Queue /\ Set' = Set
    BY <1>5 DEF AlreadyVisited, AtItem
  <2>2. Head(todo) = enqueue(b) /\ b \in Blocks /\ rest \in Seq(Items)
        /\ ToSet(todo) = {enqueue(b)} \cup ToSet(rest)
        /\ (\A d : Count(todo, push(d)) = (IF enqueue(b) = push(d) THEN 1 ELSE 0) + Count(rest, push(d)))
        /\ \A d : Count(rest, push(d)) \in Nat
    BY <1>1, <2>1, FirstItem
  <2> HIDE DEF b, rest
  <2>3. \A d : Count(todo, push(d)) = Count(rest, push(d))
    BY <2>2, ItemsDiffer
  <2> QED
    BY <1>1, <1>2, <1>4, <2>1, <2>2, <2>3, ItemsDiffer
<1>6. ASSUME Push PROVE ScheduleInv'
  <2>1. todo # <<>> /\ Head(todo).do = "push" /\ todo' = rest /\ Queue' = Append(Queue, b)
        /\ succ' = succ /\ loop' = loop /\ Set' = Set
    BY <1>6 DEF Push, AtItem
  <2>2. Head(todo) = push(b) /\ b \in Blocks /\ rest \in Seq(Items)
        /\ ToSet(todo) = {push(b)} \cup ToSet(rest)
        /\ (\A d : Count(todo, push(d)) = (IF push(b) = push(d) THEN 1 ELSE 0) + Count(rest, push(d)))
        /\ \A d : Count(rest, push(d)) \in Nat
    BY <1>1, <2>1, FirstItem
  <2> HIDE DEF b, rest
  <2>3. \A d : Count(Queue, d) \in Nat
    BY <1>1, CountIsNat
  <2>4. b \in Set
    <3>1. Count(todo, push(b)) = 1 + Count(rest, push(b))
      BY <2>2
    <3>2. Count(Queue, b) + Count(todo, push(b)) = IF b \in Set THEN Visits(b) ELSE 0
      BY <1>2, <2>2
    <3> QED
      BY <3>1, <3>2, <2>2, <2>3
  <2>5. Append(Queue, b) \in Seq(Set) /\ Append(Queue, b) = Queue \o <<b>>
    BY <1>1, <2>4, AppendProperties, AppendIsConcat
  <2>6. \A d : Count(Queue \o <<b>>, d) = Count(Queue, d) + (IF d = b THEN 1 ELSE 0)
    <3>1. <<b>> \in Seq(Set)
      BY <2>4
    <3>2. \A d : Count(Queue \o <<b>>, d) = Count(Queue, d) + Count(<<b>>, d)
      BY <1>1, <3>1, CountOfConcat
    <3> QED
      BY <3>2, CountOfOne
  <2>7. \A d \in Blocks : Count(Queue', d) + Count(todo', push(d)) = Count(Queue, d) + Count(todo, push(d))
    <3> SUFFICES ASSUME NEW d \in Blocks
                 PROVE  Count(Queue', d) + Count(todo', push(d)) = Count(Queue, d) + Count(todo, push(d))
      OBVIOUS
    <3>1. Count(Queue', d) = Count(Queue, d) + (IF d = b THEN 1 ELSE 0)
      BY <2>1, <2>5, <2>6
    <3>2. Count(todo, push(d)) = (IF d = b THEN 1 ELSE 0) + Count(todo', push(d))
      BY <2>1, <2>2, ItemsDiffer
    <3> QED
      BY <3>1, <3>2, <2>1, <2>2, <2>3
  <2>8. \A d \in Blocks : Count(Queue', d) + Count(todo', push(d)) = IF d \in Set' THEN Visits(d) ELSE 0
    BY <1>2, <2>1, <2>7
  <2>9. \A d : enqueue(d) \in ToSet(todo) <=> enqueue(d) \in ToSet(todo')
    BY <2>1, <2>2, ItemsDiffer
  <2>10. Queue' \in Seq(Set') /\ todo' \in Seq(Items)
    BY <2>1, <2>2, <2>5
  <2> QED
    BY <1>1, <1>2, <1>4, <2>1, <2>8, <2>9, <2>10
<1>7. ASSUME Visit PROVE ScheduleInv'
  <2>1. todo # <<>> /\ Head(todo).do = "enqueue" /\ b \notin Set /\ todo' = Calls(b) \o rest
        /\ succ' = succ /\ loop' = loop /\ Queue' = Queue /\ Set' = Set \cup {b}
    BY <1>7 DEF Visit, AtItem
  <2>2. Head(todo) = enqueue(b) /\ b \in Blocks /\ rest \in Seq(Items)
        /\ ToSet(todo) = {enqueue(b)} \cup ToSet(rest)
        /\ (\A d : Count(todo, push(d)) = (IF enqueue(b) = push(d) THEN 1 ELSE 0) + Count(rest, push(d)))
        /\ \A d : Count(rest, push(d)) \in Nat
    BY <1>1, <2>1, FirstItem
  <2> HIDE DEF b, rest
  <2>3. Calls(b) \in Seq(Items)
        /\ ToSet(Calls(b)) = {enqueue(d) : d \in ToSet(succ[b])} \cup {push(b)}
        /\ \A d : Count(Calls(b), push(d)) = IF d = b THEN Visits(b) ELSE 0
    BY <1>1, <2>2, CallsOf
  <2>4. todo' \in Seq(Items) /\ ToSet(todo') = ToSet(Calls(b)) \cup ToSet(rest)
    BY <2>1, <2>2, <2>3, ElementsOfConcat
  <2>5. \A d : Count(todo', push(d)) = Count(Calls(b), push(d)) + Count(rest, push(d))
    BY <2>1, <2>2, <2>3, CountOfConcat
  <2>6. \A d : Count(Queue, d) \in Nat
    BY <1>1, CountIsNat
  <2>7. \A d \in Blocks : Count(Queue', d) + Count(todo', push(d)) = IF d \in Set' THEN Visits(d) ELSE 0
    <3> SUFFICES ASSUME NEW d \in Blocks
                 PROVE  Count(Queue', d) + Count(todo', push(d)) = IF d \in Set' THEN Visits(d) ELSE 0
      OBVIOUS
    <3>1. Count(Queue, d) + Count(rest, push(d)) = IF d \in Set THEN Visits(d) ELSE 0
      BY <1>2, <2>2, ItemsDiffer
    <3>2. Count(todo', push(d)) = (IF d = b THEN Visits(b) ELSE 0) + Count(rest, push(d))
      BY <2>3, <2>5
    <3>3. Visits(b) \in Nat
      BY DEF Visits
    <3> QED
      BY <3>1, <3>2, <3>3, <2>1, <2>2, <2>6
  <2>8. b \in Reachable(succ) /\ ToSet(succ[b]) \subseteq Reachable(succ)
    BY <1>1, <1>2, <2>2, ReachableIsClosed
  <2>9. \A d \in Blocks : enqueue(d) \in ToSet(todo') => d \in Reachable(succ)
    BY <1>2, <2>2, <2>3, <2>4, <2>8, ItemsDiffer
  <2>10. Queue' \in Seq(Set')
    BY <1>1, <2>1, SeqMonotonic
  <2>11. \A d : enqueue(d) \in ToSet(todo) => d = b \/ enqueue(d) \in ToSet(todo')
    BY <2>2, <2>4, ItemsDiffer
  <2>12. \A d \in ToSet(succ[b]) : enqueue(d) \in ToSet(todo')
    BY <2>3, <2>4
  <2>13. \A c \in Set' : \A d \in ToSet(succ[c]) : d \in Set' \/ enqueue(d) \in ToSet(todo')
    BY <1>2, <2>1, <2>11, <2>12
  <2>14. Set' \subseteq Reachable(succ) /\ (Entry \in Set' \/ enqueue(Entry) \in ToSet(todo'))
    BY <1>2, <2>1, <2>8, <2>11
  <2> QED
    BY <1>4, <2>1, <2>4, <2>7, <2>9, <2>10, <2>13, <2>14
<1> QED
  BY <1>3, <1>5, <1>6, <1>7 DEF Next

\* Every state has its type, and only visited blocks are queued.
THEOREM TypeCorrect == Spec => []TypeOK
<1>1. ScheduleInv => TypeOK
  BY DEF ScheduleInv
<1> QED
  BY ScheduleInit, ScheduleStep, <1>1, PTL DEF Spec

\* Once nothing is left to do, the invariant says what is in the schedule.
LEMMA InvariantMeansScheduled == ScheduleInv => AllBlocksScheduled
<1> SUFFICES ASSUME ScheduleInv, todo = <<>>, NEW b \in Blocks
             PROVE  /\ Positions(b) # {} <=> b \in Reachable(succ)
                    /\ Cardinality(Positions(b)) > 1 =>
                         /\ Cardinality(Positions(b)) = 2
                         /\ loop[b] # NoLoop /\ isLoopExiting(loop[b], b) /\ ~isLoopLatch(loop[b], b)
  BY DEF AllBlocksScheduled, Scheduled
<1>1. succ \in Graphs /\ Queue \in Seq(Set) /\ Set \subseteq Reachable(succ)
      /\ Count(Queue, b) + Count(todo, push(b)) = IF b \in Set THEN Visits(b) ELSE 0
  BY DEF ScheduleInv, TypeOK
<1>2. ToSet(todo) = {} /\ Count(todo, push(b)) = 0
  <2>1. todo \in Seq({}) /\ ToSet(todo) = {}
    BY DEF ToSet
  <2> QED
    BY <2>1, CountIsNat
<1>3. Reachable(succ) \subseteq Set
  <2>1. Entry \in Set /\ \A c \in Set : ToSet(succ[c]) \subseteq Set
    BY <1>2 DEF ScheduleInv
  <2> QED
    BY <1>1, <2>1, ReachableIsClosed
<1>4. IsFiniteSet(Positions(b)) /\ Cardinality(Positions(b)) = Count(Queue, b)
  <2>1. Reverse(Queue) \in Seq(Set)
    <3>1. DOMAIN Queue = 1 .. Len(Queue) /\ Len(Queue) \in Nat
          /\ \A k \in 1 .. Len(Queue) : Queue[k] \in Set
      BY <1>1, LenProperties, ElementOfSeq
    <3>2. \A k \in 1 .. Len(Queue) : (Len(Queue) - k) + 1 \in 1 .. Len(Queue)
      BY <3>1
    <3>3. Reverse(Queue) \in [1 .. Len(Queue) -> Set]
      BY <3>1, <3>2 DEF Reverse
    <3> QED
      BY <3>1, <3>3
  <2>2. IsFiniteSet({k \in DOMAIN Reverse(Queue) : Reverse(Queue)[k] = b})
    BY <2>1, CountIsNat
  <2>3. Count(Reverse(Queue), b) = Count(Queue, b)
    BY <1>1, CountOfReverse
  <2> QED
    BY <2>2, <2>3 DEF Positions, Schedule, Count
<1>5. Count(Queue, b) = IF b \in Reachable(succ) THEN Visits(b) ELSE 0
  <2>1. Count(Queue, b) \in Nat
    BY <1>1, CountIsNat
  <2> QED
    BY <2>1, <1>1, <1>2, <1>3
<1>6. Positions(b) = {} <=> Cardinality(Positions(b)) = 0
  BY <1>4, FS_EmptySet
<1> QED
  BY <1>4, <1>5, <1>6 DEF Visits, Twice

\* When the recursion ends, the schedule holds the blocks that can be executed
\* and no others, each once, or twice if its loop is left from it.
THEOREM EveryBlockOnce == Spec => []AllBlocksScheduled
BY ScheduleInit, ScheduleStep, InvariantMeansScheduled, PTL DEF Spec

-----------------------------------------------------------------------------
(* Blocks are evaluated before the blocks they branch to.                  *)

\* Each visited block is reached without passing any block not visited yet.
Dominated(G, S) == \A v \in Blocks \ S : S \subseteq Reach(G, {Entry}, {v})

\* u is reached along F from each block to be pushed after position i of items.
Below(F, items, i, u) ==
  \A j \in DOMAIN items : j > i /\ items[j].do = "push" => u \in Reach(F, {items[j].bb}, {})

\* An item to be enqueued is a successor of a visited block below the unfinished ones.
CalledFrom(G, S, items) ==
  \A i \in DOMAIN items : items[i].do = "enqueue" =>
    \E u \in S : items[i].bb \in ToSet(G[u]) /\ Below(Forward(G), items, i, u)

\* The unfinished blocks form a path of the graph without its back edges.
Nested(F, items) ==
  \A i \in DOMAIN items : items[i].do = "push" => Below(F, items, i, items[i].bb)

\* A successor not visited yet is enqueued before the block is finished.
Pending(F, S, items) ==
  \A b \in S : \A d \in ToSet(F[b]) :
    d \in S \/ \E i, j \in DOMAIN items : i < j /\ items[i] = enqueue(d) /\ items[j] = push(b)

\* A finished block comes after its successors in Queue, which are finished too.
Finished(F, S, items, Q) ==
  \A b \in S : push(b) \notin ToSet(items) =>
    \A d \in ToSet(F[b]) :
      /\ push(d) \notin ToSet(items)
      /\ \E k \in DOMAIN Q : Q[k] = b /\ \A m \in DOMAIN Q : Q[m] = d => m < k

\* What ForwardOrder rests on, in every state.
OrderInv ==
  /\ Dominated(succ, Set)
  /\ (Set = {} /\ todo = Enqueues(<<Entry>>)) \/ CalledFrom(succ, Set, todo)
  /\ Nested(Forward(succ), todo)
  /\ Pending(Forward(succ), Set, todo)
  /\ Reducible => Finished(Forward(succ), Set, todo, Queue)

\* The graph without its back edges.
LEMMA ForwardEdges ==
  ASSUME NEW G \in CFG
  PROVE  /\ Forward(G) \in CFG
         /\ \A b \in Blocks : ToSet(Forward(G)[b]) = {d \in ToSet(G[b]) : <<b, d>> \notin BackEdges(G)}
<1> DEFINE edges == BackEdges(G)
           F == [b \in Blocks |-> Pick(G[b], {d \in Blocks : <<b, d>> \notin edges})]
<1>1. Forward(G) = F
  BY DEF Forward
<1> HIDE DEF edges
<1>2. ASSUME NEW b \in Blocks
      PROVE  F[b] \in Seq(Blocks) /\ ToSet(F[b]) = {d \in ToSet(G[b]) : <<b, d>> \notin edges}
  <2> DEFINE S == {d \in Blocks : <<b, d>> \notin edges}
  <2>1. G[b] \in Seq(Blocks) /\ F[b] = Pick(G[b], S)
    BY DEF CFG
  <2>2. ToSet(G[b]) \subseteq Blocks
    BY SuccessorsAreBlocks
  <2>3. ToSet(G[b]) \cap S = {d \in ToSet(G[b]) : <<b, d>> \notin edges}
    BY <2>2
  <2> HIDE DEF S, F
  <2>4. F[b] \in Seq(Blocks) /\ ToSet(F[b]) = ToSet(G[b]) \cap S
    BY <2>1, PickIsFilter
  <2> QED
    BY <2>3, <2>4
<1>3. F \in CFG
  BY <1>2 DEF CFG
<1> QED
  BY <1>1, <1>2, <1>3 DEF edges

\* A back edge leads to a block that dominates its origin.
LEMMA BackEdgeIs ==
  ASSUME NEW G, NEW u, NEW v
  PROVE  <<u, v>> \in BackEdges(G) <=>
           u \in Reachable(G) /\ v \in ToSet(G[u]) /\ u \notin Reach(G, {Entry}, {v})
<1> DEFINE back(b) == {<<b, h>> : h \in {d \in ToSet(G[b]) : b \notin Reach(G, {Entry}, {d})}}
<1>1. BackEdges(G) = UNION {back(b) : b \in Reachable(G)}
  BY DEF BackEdges
<1>2. \A b : <<u, v>> \in back(b) <=>
               u = b /\ v \in ToSet(G[u]) /\ u \notin Reach(G, {Entry}, {v})
  OBVIOUS
<1> HIDE DEF back
<1>3. <<u, v>> \in UNION {back(b) : b \in Reachable(G)} <=> \E b \in Reachable(G) : <<u, v>> \in back(b)
  OBVIOUS
<1> QED
  BY <1>1, <1>2, <1>3

\* An edge from a visited block to one not visited is no back edge.
LEMMA TreeEdgesGoForward ==
  ASSUME NEW G \in Graphs, NEW S \in SUBSET Blocks, Dominated(G, S),
         NEW u \in S, NEW v \in ToSet(G[u]), v \notin S
  PROVE  v \in ToSet(Forward(G)[u])
<1>1. G \in CFG /\ v \in Blocks /\ u \in Blocks
  BY ReachableIsClosed, SuccessorsAreBlocks
<1>2. u \in Reach(G, {Entry}, {v})
  BY <1>1 DEF Dominated
<1>3. <<u, v>> \notin BackEdges(G)
  BY <1>2, BackEdgeIs
<1> QED
  BY <1>1, <1>3, ForwardEdges

\* Reaching without avoiding anything.
LEMMA ReachFrom ==
  ASSUME NEW G \in CFG, NEW d \in Blocks
  PROVE  /\ d \in Reach(G, {d}, {}) /\ Reach(G, {d}, {}) \subseteq Blocks
         /\ \A b \in Reach(G, {d}, {}) : ToSet(G[b]) \subseteq Reach(G, {d}, {})
<1>1. {d} \in SUBSET Blocks /\ \A A : A \ {} = A
  OBVIOUS
<1> QED
  BY <1>1, ReachIsClosure

\* Where the items of s and of t are in s \o t.
LEMMA PlacesInConcat ==
  ASSUME NEW S, NEW s \in Seq(S), NEW t \in Seq(S)
  PROVE  /\ Len(s) \in Nat /\ DOMAIN s = 1 .. Len(s) /\ DOMAIN t = 1 .. Len(t)
         /\ \A i \in DOMAIN s : i \in DOMAIN (s \o t) /\ (s \o t)[i] = s[i]
         /\ \A i \in DOMAIN t : Len(s) + i \in DOMAIN (s \o t) /\ (s \o t)[Len(s) + i] = t[i]
         /\ \A i \in DOMAIN (s \o t) :
              \/ i \in DOMAIN s /\ (s \o t)[i] = s[i]
              \/ i - Len(s) \in DOMAIN t /\ i > Len(s) /\ (s \o t)[i] = t[i - Len(s)]
<1>1. /\ DOMAIN s = 1 .. Len(s) /\ Len(s) \in Nat
      /\ DOMAIN t = 1 .. Len(t) /\ Len(t) \in Nat
      /\ DOMAIN (s \o t) = 1 .. (Len(s) + Len(t))
      /\ \A i \in 1 .. (Len(s) + Len(t)) : (s \o t)[i] = IF i <= Len(s) THEN s[i] ELSE t[i - Len(s)]
  BY LenProperties, ConcatProperties
<1>2. \A i \in DOMAIN s : i \in DOMAIN (s \o t) /\ (s \o t)[i] = s[i]
  BY <1>1
<1>3. \A i \in DOMAIN t : Len(s) + i \in DOMAIN (s \o t) /\ (s \o t)[Len(s) + i] = t[i]
  BY <1>1
<1>4. \A i \in DOMAIN (s \o t) :
              \/ i \in DOMAIN s /\ (s \o t)[i] = s[i]
              \/ i - Len(s) \in DOMAIN t /\ i > Len(s) /\ (s \o t)[i] = t[i - Len(s)]
  BY <1>1
<1> QED
  BY <1>1, <1>2, <1>3, <1>4

\* Where the items of s are in its rest.
LEMMA PlacesInTail ==
  ASSUME NEW S, NEW s \in Seq(S), s # <<>>
  PROVE  /\ 1 \in DOMAIN s /\ s[1] = Head(s) /\ DOMAIN s \subseteq Nat
         /\ \A i \in DOMAIN Tail(s) : i + 1 \in DOMAIN s /\ i + 1 # 1 /\ Tail(s)[i] = s[i + 1]
         /\ \A i \in DOMAIN s : i = 1 \/ (i - 1 \in DOMAIN Tail(s) /\ Tail(s)[i - 1] = s[i])
<1>1. Tail(s) \in Seq(S) /\ Len(Tail(s)) = Len(s) - 1 /\ Len(s) \in Nat \ {0}
      /\ DOMAIN s = 1 .. Len(s) /\ DOMAIN Tail(s) = 1 .. Len(Tail(s))
      /\ \A i \in 1 .. Len(Tail(s)) : Tail(s)[i] = s[i + 1]
  BY HeadTailProperties, EmptySeq, LenProperties
<1>2. \A i \in DOMAIN s : i = 1 \/ (i - 1 \in DOMAIN Tail(s) /\ Tail(s)[i - 1] = s[i])
  <2> SUFFICES ASSUME NEW i \in DOMAIN s, i # 1 PROVE i - 1 \in DOMAIN Tail(s) /\ Tail(s)[i - 1] = s[i]
    OBVIOUS
  <2>1. i - 1 \in 1 .. Len(Tail(s)) /\ (i - 1) + 1 = i
    BY <1>1
  <2> QED
    BY <2>1, <1>1
<1>3. \A i \in DOMAIN Tail(s) : i + 1 \in DOMAIN s /\ i + 1 # 1 /\ Tail(s)[i] = s[i + 1]
  BY <1>1
<1>4. 1 \in DOMAIN s /\ s[1] = Head(s) /\ DOMAIN s \subseteq Nat
  BY <1>1
<1> QED
  BY <1>2, <1>3, <1>4

\* The last thing enqueueChildren does is to queue its block.
LEMMA LastCall ==
  ASSUME succ \in CFG, NEW b \in Blocks
  PROVE  /\ DOMAIN Calls(b) = 1 .. Len(Calls(b)) /\ Len(Calls(b)) \in Nat
         /\ Len(Calls(b)) \in DOMAIN Calls(b) /\ Calls(b)[Len(Calls(b))] = push(b)
         /\ \A i \in DOMAIN Calls(b) :
              \/ Calls(b)[i] = push(b)
              \/ \E d \in ToSet(succ[b]) : Calls(b)[i] = enqueue(d) /\ i < Len(Calls(b))
         /\ \A d \in ToSet(succ[b]) : \E i \in DOMAIN Calls(b) : Calls(b)[i] = enqueue(d) /\ i < Len(Calls(b))
<1>1. Children(b) \in Seq(Items) /\ Calls(b) \in Seq(Items)
      /\ ToSet(Calls(b)) = {enqueue(d) : d \in ToSet(succ[b])} \cup {push(b)}
  BY CallsOf
<1>2. Calls(b) = Append(Children(b), push(b)) /\ push(b) \in Items
  <2>1. push(b) \in Items /\ PushBack(b) = <<push(b)>>
    BY DEF push, Items, PushBack
  <2> QED
    BY <2>1, <1>1, AppendIsConcat DEF Calls
<1>3. Len(Children(b)) \in Nat /\ Len(Calls(b)) = Len(Children(b)) + 1 /\ Calls(b)[Len(Children(b)) + 1] = push(b)
  BY <1>1, <1>2, AppendProperties, LenProperties
<1>4. DOMAIN Calls(b) = 1 .. Len(Calls(b)) /\ Len(Calls(b)) \in Nat
      /\ Len(Calls(b)) \in DOMAIN Calls(b) /\ Calls(b)[Len(Calls(b))] = push(b)
  BY <1>1, <1>3, LenProperties
<1>5. \A i \in DOMAIN Calls(b) : Calls(b)[i] = push(b) \/ \E d \in ToSet(succ[b]) : Calls(b)[i] = enqueue(d)
  BY <1>1 DEF ToSet
<1>6. \A d \in ToSet(succ[b]) : \E i \in DOMAIN Calls(b) : Calls(b)[i] = enqueue(d)
  BY <1>1 DEF ToSet
<1>7. \A i \in DOMAIN Calls(b) : \A d : Calls(b)[i] = enqueue(d) => i < Len(Calls(b))
  BY <1>4, ItemsDiffer
<1> QED
  BY <1>4, <1>5, <1>6, <1>7

\* What is below the items of s is below them in the rest of s.
LEMMA BelowInTail ==
  ASSUME NEW s \in Seq(Items), s # <<>>, NEW F, NEW i \in Nat, NEW u, Below(F, s, i + 1, u)
  PROVE  Below(F, Tail(s), i, u)
<1> SUFFICES ASSUME NEW j \in DOMAIN Tail(s), j > i, Tail(s)[j].do = "push"
             PROVE  u \in Reach(F, {Tail(s)[j].bb}, {})
  BY DEF Below
<1>1. j + 1 \in DOMAIN s /\ Tail(s)[j] = s[j + 1] /\ j \in Nat
  <2>1. Tail(s) \in Seq(Items)
    BY HeadTailProperties
  <2>2. j \in Nat
    BY <2>1, LenProperties
  <2> QED
    BY <2>2, PlacesInTail
<1>2. j + 1 > i + 1
  BY <1>1
<1> QED
  BY <1>1, <1>2 DEF Below

\* What is below an item of t is below it in s \o t.
LEMMA BelowInSecond ==
  ASSUME NEW s \in Seq(Items), NEW t \in Seq(Items), NEW F, NEW i \in Nat, NEW u, Below(F, t, i, u)
  PROVE  Below(F, s \o t, Len(s) + i, u)
<1> SUFFICES ASSUME NEW j \in DOMAIN (s \o t), j > Len(s) + i, (s \o t)[j].do = "push"
             PROVE  u \in Reach(F, {(s \o t)[j].bb}, {})
  BY DEF Below
<1>1. Len(s) \in Nat /\ DOMAIN s = 1 .. Len(s)
  BY PlacesInConcat
<1>2. \/ j \in DOMAIN s /\ (s \o t)[j] = s[j]
      \/ j - Len(s) \in DOMAIN t /\ j > Len(s) /\ (s \o t)[j] = t[j - Len(s)]
  BY PlacesInConcat, Zenon
<1>3. j - Len(s) \in DOMAIN t /\ (s \o t)[j] = t[j - Len(s)]
  BY <1>1, <1>2
<1>4. DOMAIN t \subseteq Nat
  BY PlacesInConcat
<1>5. j - Len(s) > i
  <2>1. s \o t \in Seq(Items)
    BY ConcatProperties
  <2>2. j \in Nat
    BY <2>1, LenProperties
  <2> QED
    BY <2>2, <1>1
<1> QED
  BY <1>3, <1>5 DEF Below

\* What is below an item of s and below everything in t is below it in s \o t.
LEMMA BelowInFirst ==
  ASSUME NEW s \in Seq(Items), NEW t \in Seq(Items), NEW F, NEW i \in Nat, NEW u,
         Below(F, s, i, u), Below(F, t, 0, u)
  PROVE  Below(F, s \o t, i, u)
<1> SUFFICES ASSUME NEW j \in DOMAIN (s \o t), j > i, (s \o t)[j].do = "push"
             PROVE  u \in Reach(F, {(s \o t)[j].bb}, {})
  BY DEF Below
<1>1. \/ j \in DOMAIN s /\ (s \o t)[j] = s[j]
      \/ j - Len(s) \in DOMAIN t /\ j > Len(s) /\ (s \o t)[j] = t[j - Len(s)]
  BY PlacesInConcat, Zenon
<1>2. CASE j \in DOMAIN s /\ (s \o t)[j] = s[j]
  BY <1>2 DEF Below
<1>3. CASE j - Len(s) \in DOMAIN t /\ j > Len(s) /\ (s \o t)[j] = t[j - Len(s)]
  <2>1. Len(t) \in Nat /\ DOMAIN t = 1 .. Len(t)
    BY LenProperties
  <2>2. j - Len(s) > 0
    BY <2>1, <1>3
  <2> QED
    BY <2>2, <1>3 DEF Below
<1> QED
  BY <1>1, <1>2, <1>3

\* The rest of the items keeps the order of the items.
LEMMA OrderOfRest ==
  ASSUME NEW G, NEW S, NEW s \in Seq(Items), s # <<>>
  PROVE  /\ CalledFrom(G, S, s) => CalledFrom(G, S, Tail(s))
         /\ Nested(Forward(G), s) => Nested(Forward(G), Tail(s))
<1> DEFINE F == Forward(G)
<1> HIDE DEF F
<1>1. DOMAIN Tail(s) \subseteq Nat
  <2>1. Tail(s) \in Seq(Items)
    BY HeadTailProperties
  <2> QED
    BY <2>1, LenProperties
<1>2. ASSUME CalledFrom(G, S, s) PROVE CalledFrom(G, S, Tail(s))
  <2> SUFFICES ASSUME NEW i \in DOMAIN Tail(s), Tail(s)[i].do = "enqueue"
               PROVE  \E u \in S : Tail(s)[i].bb \in ToSet(G[u]) /\ Below(F, Tail(s), i, u)
    BY DEF CalledFrom, F
  <2>1. i \in Nat /\ i + 1 \in DOMAIN s /\ Tail(s)[i] = s[i + 1]
    BY <1>1, PlacesInTail
  <2>2. PICK u \in S : s[i + 1].bb \in ToSet(G[u]) /\ Below(F, s, i + 1, u)
    BY <1>2, <2>1 DEF CalledFrom, F
  <2> QED
    BY <2>1, <2>2, BelowInTail
<1>3. ASSUME Nested(F, s) PROVE Nested(F, Tail(s))
  <2> SUFFICES ASSUME NEW i \in DOMAIN Tail(s), Tail(s)[i].do = "push"
               PROVE  Below(F, Tail(s), i, Tail(s)[i].bb)
    BY DEF Nested
  <2>1. i \in Nat /\ i + 1 \in DOMAIN s /\ Tail(s)[i] = s[i + 1]
    BY <1>1, PlacesInTail
  <2>2. Below(F, s, i + 1, s[i + 1].bb)
    BY <1>3, <2>1 DEF Nested
  <2> QED
    BY <2>1, <2>2, BelowInTail
<1> QED
  BY <1>2, <1>3 DEF F

\* What is pending stays pending, unless it is the first item.
LEMMA PendingInRest ==
  ASSUME NEW F, NEW S, NEW s \in Seq(Items), s # <<>>, Pending(F, S, s),
         NEW b \in S, NEW d \in ToSet(F[b]), d \notin S
  PROVE  \/ s[1] = enqueue(d)
         \/ \E i, j \in DOMAIN Tail(s) : i < j /\ Tail(s)[i] = enqueue(d) /\ Tail(s)[j] = push(b)
<1>1. PICK i, j \in DOMAIN s : i < j /\ s[i] = enqueue(d) /\ s[j] = push(b)
  BY DEF Pending
<1>2. i = 1 \/ (i - 1 \in DOMAIN Tail(s) /\ Tail(s)[i - 1] = s[i])
  BY PlacesInTail
<1>3. j = 1 \/ (j - 1 \in DOMAIN Tail(s) /\ Tail(s)[j - 1] = s[j])
  BY PlacesInTail
<1>4. i \in Nat /\ j \in Nat /\ (\A k \in DOMAIN s : k = 1 \/ k > 1)
  BY LenProperties
<1>5. CASE i # 1
  <2>1. j # 1 /\ i - 1 < j - 1
    BY <1>1, <1>4, <1>5
  <2> QED
    BY <1>1, <1>2, <1>3, <1>5, <2>1
<1> QED
  BY <1>1, <1>5

LEMMA OrderInit == Init => OrderInv
<1> SUFFICES ASSUME Init PROVE OrderInv
  OBVIOUS
<1>1. Set = {} /\ todo = Enqueues(<<Entry>>)
  BY DEF Init
<1>2. \A i \in DOMAIN todo : todo[i].do = "enqueue"
  BY <1>1 DEF Enqueues
<1>3. Nested(Forward(succ), todo)
  BY <1>2 DEF Nested
<1> QED
  BY <1>1, <1>3 DEF OrderInv, Dominated, Pending, Finished

\* The block visited next is below everything left to be pushed.
LEMMA VisitedBelow ==
  ASSUME ScheduleInv, OrderInv, todo # <<>>, Head(todo).do = "enqueue", Head(todo).bb \notin Set
  PROVE  Below(Forward(succ), Tail(todo), 0, Head(todo).bb)
<1> DEFINE b == Head(todo).bb
           F == Forward(succ)
<1>1. succ \in Graphs /\ succ \in CFG /\ F \in CFG /\ todo \in Seq(Items) /\ Set \in SUBSET Blocks
      /\ Tail(todo) \in Seq(Items) /\ b \in Blocks
  BY ReachableIsClosed, ForwardEdges, FirstItem DEF ScheduleInv, TypeOK
<1>2. 1 \in DOMAIN todo /\ todo[1] = Head(todo)
  BY <1>1, PlacesInTail
<1>3. CASE Set = {} /\ todo = Enqueues(<<Entry>>)
  <2>1. \A i \in DOMAIN todo : todo[i].do = "enqueue"
    BY <1>3 DEF Enqueues
  <2>2. \A i \in DOMAIN Tail(todo) : Tail(todo)[i].do = "enqueue"
    BY <2>1, <1>1, PlacesInTail
  <2> QED
    BY <2>2 DEF Below
<1>4. CASE CalledFrom(succ, Set, todo)
  <2>1. PICK u \in Set : b \in ToSet(succ[u]) /\ Below(F, todo, 1, u)
    BY <1>2, <1>4 DEF CalledFrom
  <2>2. Below(F, Tail(todo), 0, u)
    <3>1. Below(F, todo, 0 + 1, u)
      BY <2>1
    <3> HIDE DEF F
    <3> QED
      BY <3>1, <1>1, BelowInTail
  <2>3. b \in ToSet(F[u])
    BY <2>1, <1>1, TreeEdgesGoForward DEF OrderInv
  <2> HIDE DEF F, b
  <2>4. ASSUME NEW j \in DOMAIN Tail(todo), j > 0, Tail(todo)[j].do = "push"
        PROVE  b \in Reach(F, {Tail(todo)[j].bb}, {})
    <3>1. u \in Reach(F, {Tail(todo)[j].bb}, {})
      BY <2>2, <2>4 DEF Below
    <3>2. Tail(todo)[j].bb \in Blocks
      <4>1. Tail(todo)[j] \in Items
        BY <1>1, LenProperties, ElementOfSeq
      <4> QED
        BY <4>1 DEF Items
    <3> QED
      BY <3>1, <3>2, <2>3, <1>1, ReachFrom
  <2> QED
    BY <2>4 DEF Below, F, b
<1> QED
  BY <1>3, <1>4 DEF OrderInv

\* A visit keeps the unfinished blocks on a path.
LEMMA OrderOfVisit ==
  ASSUME ScheduleInv, OrderInv, todo # <<>>, Head(todo).do = "enqueue", Head(todo).bb \notin Set
  PROVE  LET b == Head(todo).bb
             items == Calls(b) \o Tail(todo)
         IN  /\ Dominated(succ, Set \cup {b})
             /\ CalledFrom(succ, Set \cup {b}, items)
             /\ Nested(Forward(succ), items)
             /\ Pending(Forward(succ), Set \cup {b}, items)
<1> DEFINE b == Head(todo).bb
           F == Forward(succ)
           C == Calls(b)
           rest == Tail(todo)
           items == C \o rest
           S == Set \cup {b}
<1>1. succ \in Graphs /\ succ \in CFG /\ F \in CFG /\ todo \in Seq(Items) /\ Set \in SUBSET Blocks
      /\ rest \in Seq(Items) /\ b \in Blocks /\ Head(todo) = enqueue(b)
  BY ReachableIsClosed, ForwardEdges, FirstItem DEF ScheduleInv, TypeOK
<1>2. C \in Seq(Items) /\ ToSet(C) = {enqueue(d) : d \in ToSet(succ[b])} \cup {push(b)}
  BY <1>1, CallsOf
<1>3. /\ DOMAIN C = 1 .. Len(C) /\ Len(C) \in Nat /\ Len(C) \in DOMAIN C /\ C[Len(C)] = push(b)
      /\ \A i \in DOMAIN C : \/ C[i] = push(b)
                             \/ \E d \in ToSet(succ[b]) : C[i] = enqueue(d) /\ i < Len(C)
      /\ \A d \in ToSet(succ[b]) : \E i \in DOMAIN C : C[i] = enqueue(d) /\ i < Len(C)
  BY <1>1, LastCall
<1>4. Below(F, rest, 0, b)
  BY VisitedBelow
<1>5. \/ Set = {} /\ todo = Enqueues(<<Entry>>)
      \/ CalledFrom(succ, Set, todo)
  BY DEF OrderInv
<1>6. Dominated(succ, Set) /\ Nested(F, todo) /\ Pending(F, Set, todo)
  BY DEF OrderInv
<1>7. \A i \in DOMAIN items :
        \/ i \in DOMAIN C /\ items[i] = C[i]
        \/ i - Len(C) \in DOMAIN rest /\ i > Len(C) /\ items[i] = rest[i - Len(C)]
  BY <1>1, <1>2, PlacesInConcat
<1>8. /\ \A i \in DOMAIN C : i \in DOMAIN items /\ items[i] = C[i]
      /\ \A i \in DOMAIN rest : Len(C) + i \in DOMAIN items /\ items[Len(C) + i] = rest[i]
  BY <1>1, <1>2, PlacesInConcat
<1>9. todo[1] = enqueue(b) /\ DOMAIN rest \subseteq Nat
  <2>1. DOMAIN rest \subseteq Nat
    BY <1>1, LenProperties
  <2> QED
    BY <2>1, <1>1, PlacesInTail
<1>10. items \in Seq(Items) /\ DOMAIN items \subseteq Nat
  <2>1. items \in Seq(Items)
    BY <1>1, <1>2, ConcatProperties
  <2> QED
    BY <2>1, LenProperties
<1>11. \A i \in DOMAIN items : i - Len(C) \in DOMAIN rest => i - Len(C) \in Nat /\ i = Len(C) + (i - Len(C))
  BY <1>3, <1>9, <1>10
<1>12. Dominated(succ, S)
  <2> SUFFICES ASSUME NEW v \in Blocks \ S PROVE S \subseteq Reach(succ, {Entry}, {v})
    BY DEF Dominated
  <2>1. Set \subseteq Reach(succ, {Entry}, {v})
    BY <1>6 DEF Dominated
  <2>2. /\ {Entry} \ {v} \subseteq Reach(succ, {Entry}, {v})
        /\ \A c \in Reach(succ, {Entry}, {v}) : ToSet(succ[c]) \ {v} \subseteq Reach(succ, {Entry}, {v})
    <3>1. {Entry} \in SUBSET Blocks
      BY GraphsAssumption
    <3> QED
      BY <1>1, <3>1, ReachIsClosure
  <2>3. b # v
    OBVIOUS
  <2>4. CASE Set = {} /\ todo = Enqueues(<<Entry>>)
    <3>1. b = Entry
      BY <2>4, <1>9 DEF Enqueues, enqueue
    <3> QED
      BY <3>1, <2>1, <2>2, <2>3
  <2>5. CASE CalledFrom(succ, Set, todo)
    <3>1. 1 \in DOMAIN todo /\ todo[1].do = "enqueue" /\ todo[1].bb = b
      BY <1>1, <1>9, PlacesInTail DEF enqueue
    <3>2. PICK u \in Set : b \in ToSet(succ[u])
      BY <3>1, <2>5 DEF CalledFrom
    <3> QED
      BY <3>2, <2>1, <2>2, <2>3
  <2> QED
    BY <2>4, <2>5, <1>5
<1>17. \A i \in DOMAIN C : /\ C[i].do = "push" => C[i].bb = b
                           /\ C[i].do = "enqueue" => C[i].bb \in ToSet(succ[b])
  <2> HIDE DEF C, b
  <2> SUFFICES ASSUME NEW i \in DOMAIN C
               PROVE  /\ C[i].do = "push" => C[i].bb = b
                      /\ C[i].do = "enqueue" => C[i].bb \in ToSet(succ[b])
    OBVIOUS
  <2>1. CASE C[i] = push(b)
    BY <2>1, ItemFields
  <2>2. ASSUME NEW d \in ToSet(succ[b]), C[i] = enqueue(d)
        PROVE  /\ C[i].do = "push" => C[i].bb = b
               /\ C[i].do = "enqueue" => C[i].bb \in ToSet(succ[b])
    BY <2>2, ItemFields
  <2> QED
    BY <2>1, <2>2, <1>3
<1>13. \A i \in DOMAIN C : Below(F, items, i, b)
  <2> SUFFICES ASSUME NEW i \in DOMAIN C PROVE Below(F, items, i, b)
    OBVIOUS
  <2>1. b \in Reach(F, {b}, {})
    BY <1>1, ReachFrom
  <2>3. Below(F, C, i, b)
    BY <2>1, <1>17 DEF Below
  <2>4. i \in Nat
    BY <1>3
  <2> HIDE DEF F, C, rest, b
  <2> QED
    BY <2>3, <2>4, <1>1, <1>2, <1>4, BelowInFirst
<1>14. CalledFrom(succ, S, items)
  <2> SUFFICES ASSUME NEW i \in DOMAIN items, items[i].do = "enqueue"
               PROVE  \E u \in S : items[i].bb \in ToSet(succ[u]) /\ Below(F, items, i, u)
    BY DEF CalledFrom
  <2>1. CASE i \in DOMAIN C /\ items[i] = C[i]
    <3>1. items[i].bb \in ToSet(succ[b])
      BY <2>1, <1>17
    <3> QED
      BY <3>1, <2>1, <1>13
  <2>2. CASE i - Len(C) \in DOMAIN rest /\ i > Len(C) /\ items[i] = rest[i - Len(C)]
    <3>1. CASE Set = {} /\ todo = Enqueues(<<Entry>>)
      <4>1. i - Len(C) + 1 \in DOMAIN todo /\ i - Len(C) + 1 # 1
        BY <2>2, <1>1, PlacesInTail
      <4>2. DOMAIN todo = {1}
        BY <3>1 DEF Enqueues
      <4> QED
        BY <4>1, <4>2
    <3>2. CASE CalledFrom(succ, Set, todo)
      <4>1. CalledFrom(succ, Set, rest)
        BY <3>2, <1>1, OrderOfRest
      <4>2. PICK u \in Set : rest[i - Len(C)].bb \in ToSet(succ[u]) /\ Below(F, rest, i - Len(C), u)
        BY <4>1, <2>2 DEF CalledFrom
      <4>3. i - Len(C) \in Nat /\ i = Len(C) + (i - Len(C))
        BY <2>2, <1>11
      <4> HIDE DEF F, C, rest
      <4>4. Below(F, C \o rest, Len(C) + (i - Len(C)), u)
        BY <4>2, <4>3, <1>1, <1>2, BelowInSecond
      <4> QED
        BY <4>2, <4>3, <4>4, <2>2
    <3> QED
      BY <3>1, <3>2, <1>5
  <2> QED
    BY <2>1, <2>2, <1>7
<1>15. Nested(F, items)
  <2> SUFFICES ASSUME NEW i \in DOMAIN items, items[i].do = "push"
               PROVE  Below(F, items, i, items[i].bb)
    BY DEF Nested
  <2>1. CASE i \in DOMAIN C /\ items[i] = C[i]
    <3>1. items[i].bb = b
      BY <2>1, <1>17
    <3> QED
      BY <3>1, <2>1, <1>13
  <2>2. CASE i - Len(C) \in DOMAIN rest /\ i > Len(C) /\ items[i] = rest[i - Len(C)]
    <3>1. Nested(F, rest)
      BY <1>1, <1>6, OrderOfRest
    <3>2. Below(F, rest, i - Len(C), rest[i - Len(C)].bb)
      BY <3>1, <2>2 DEF Nested
    <3>3. i - Len(C) \in Nat /\ i = Len(C) + (i - Len(C))
      BY <2>2, <1>11
    <3> HIDE DEF F, C, rest
    <3>4. Below(F, C \o rest, Len(C) + (i - Len(C)), rest[i - Len(C)].bb)
      BY <3>2, <3>3, <1>1, <1>2, BelowInSecond
    <3> QED
      BY <3>3, <3>4, <2>2
  <2> QED
    BY <2>1, <2>2, <1>7
<1>16. Pending(F, S, items)
  <2> SUFFICES ASSUME NEW c \in S, NEW d \in ToSet(F[c]), d \notin S
               PROVE  \E i, j \in DOMAIN items : i < j /\ items[i] = enqueue(d) /\ items[j] = push(c)
    BY DEF Pending
  <2>1. CASE c = b
    <3>1. d \in ToSet(succ[b])
      BY <2>1, <1>1, ForwardEdges
    <3>2. PICK i \in DOMAIN C : C[i] = enqueue(d) /\ i < Len(C)
      BY <3>1, <1>3
    <3> QED
      BY <3>2, <2>1, <1>3, <1>8
  <2>2. CASE c # b
    <3>1. c \in Set /\ d \notin Set /\ todo[1] # enqueue(d)
      BY <2>2, <1>9, ItemsDiffer
    <3>2. PICK i, j \in DOMAIN rest : i < j /\ rest[i] = enqueue(d) /\ rest[j] = push(c)
      <4> HIDE DEF F
      <4> QED
        BY <3>1, <1>1, <1>6, PendingInRest
    <3>3. Len(C) + i < Len(C) + j
      BY <3>2, <1>3, <1>9
    <3> QED
      BY <3>2, <3>3, <1>8
  <2> QED
    BY <2>1, <2>2
<1> QED
  BY <1>12, <1>14, <1>15, <1>16

\* In a reducible graph a block is not below one of its successors.
LEMMA NoCycle ==
  ASSUME succ \in Graphs, Reducible, NEW b \in Reachable(succ), NEW d \in ToSet(Forward(succ)[b])
  PROVE  b \notin Reach(Forward(succ), {d}, {}) /\ b # d
<1>1. b \notin Reach(Forward(succ), {d}, {})
  BY DEF Reducible
<1>2. Forward(succ) \in CFG /\ b \in Blocks
  BY ReachableIsClosed, ForwardEdges
<1>3. d \in Blocks
  BY <1>2, SuccessorsAreBlocks
<1>4. d \in Reach(Forward(succ), {d}, {})
  BY <1>2, <1>3, ReachFrom
<1> QED
  BY <1>1, <1>4

LEMMA OrderStep == ScheduleInv /\ OrderInv /\ [Next]_vars => OrderInv'
<1> SUFFICES ASSUME ScheduleInv, OrderInv, [Next]_vars PROVE OrderInv'
  OBVIOUS
<1> DEFINE F == Forward(succ)
           b == Head(todo).bb
           rest == Tail(todo)
<1>1. /\ succ \in Graphs /\ succ \in CFG /\ F \in CFG
      /\ todo \in Seq(Items) /\ Queue \in Seq(Set) /\ Set \subseteq Reachable(succ) /\ Set \subseteq Blocks
  BY ReachableIsClosed, ForwardEdges DEF ScheduleInv, TypeOK
<1>2. /\ Dominated(succ, Set)
      /\ (Set = {} /\ todo = Enqueues(<<Entry>>)) \/ CalledFrom(succ, Set, todo)
      /\ Nested(F, todo) /\ Pending(F, Set, todo)
      /\ Reducible => Finished(F, Set, todo, Queue)
  BY DEF OrderInv
<1>3. CASE UNCHANGED vars
  BY <1>3 DEF OrderInv, vars, Reducible
<1>4. ASSUME succ' = succ, Dominated(succ, Set'), CalledFrom(succ, Set', todo'),
             Nested(F, todo'), Pending(F, Set', todo'),
             Reducible => Finished(F, Set', todo', Queue')
      PROVE  OrderInv'
  <2>1. Reducible' = Reducible
    BY <1>4 DEF Reducible
  <2> QED
    BY <1>4, <2>1 DEF OrderInv
<1>5. ASSUME todo # <<>>, Set' = Set, todo' = rest, Set # {}
      PROVE  CalledFrom(succ, Set', todo') /\ Nested(F, todo') /\ Dominated(succ, Set')
  BY <1>1, <1>2, <1>5, OrderOfRest
<1>6. ASSUME AlreadyVisited PROVE OrderInv'
  <2>1. todo # <<>> /\ Head(todo).do = "enqueue" /\ b \in Set /\ todo' = rest
        /\ succ' = succ /\ Queue' = Queue /\ Set' = Set
    BY <1>6 DEF AlreadyVisited, AtItem
  <2>2. Head(todo) = enqueue(b) /\ ToSet(todo) = {Head(todo)} \cup ToSet(rest) /\ todo[1] = Head(todo)
    BY <1>1, <2>1, FirstItem, PlacesInTail
  <2> HIDE DEF F, b, rest
  <2>3. Pending(F, Set, rest)
    <3> SUFFICES ASSUME NEW c \in Set, NEW d \in ToSet(F[c]), d \notin Set
                 PROVE  \E i, j \in DOMAIN rest : i < j /\ rest[i] = enqueue(d) /\ rest[j] = push(c)
      BY DEF Pending
    <3>1. todo[1] # enqueue(d)
      BY <2>1, <2>2, ItemsDiffer
    <3> QED
      BY <3>1, <1>1, <1>2, <2>1, PendingInRest DEF rest
  <2>4. \A d : push(d) \in ToSet(todo) <=> push(d) \in ToSet(rest)
    BY <2>2, ItemsDiffer
  <2>5. Reducible => Finished(F, Set, rest, Queue)
    BY <2>4, <1>2 DEF Finished
  <2> QED
    BY <1>4, <1>5, <2>1, <2>3, <2>5
<1>7. ASSUME Push PROVE OrderInv'
  <2>1. todo # <<>> /\ Head(todo).do = "push" /\ todo' = rest /\ Queue' = Append(Queue, b)
        /\ succ' = succ /\ Set' = Set
    BY <1>7 DEF Push, AtItem
  <2>2. Head(todo) = push(b) /\ ToSet(todo) = {Head(todo)} \cup ToSet(rest) /\ todo[1] = Head(todo)
        /\ rest \in Seq(Items) /\ b \in Blocks /\ 1 \in DOMAIN todo /\ DOMAIN rest \subseteq Nat
    <3>1. rest \in Seq(Items)
      BY <1>1, <2>1, FirstItem
    <3>2. DOMAIN rest \subseteq Nat
      BY <3>1, LenProperties
    <3> QED
      BY <1>1, <2>1, <3>1, <3>2, FirstItem, PlacesInTail
  <2>3. Queue' \in Seq(Set') /\ b \in Set
    <3>1. Queue' \in Seq(Set')
      BY <2>1, ScheduleStep DEF ScheduleInv, TypeOK
    <3>2. Len(Queue') = Len(Queue) + 1 /\ Queue'[Len(Queue) + 1] = b /\ Len(Queue) \in Nat
      BY <1>1, <2>1, LenProperties
    <3>3. Len(Queue) + 1 \in 1 .. Len(Queue')
      BY <3>2
    <3> QED
      BY <2>1, <3>1, <3>2, <3>3, ElementOfSeq
  <2>4. /\ DOMAIN Queue = 1 .. Len(Queue) /\ Len(Queue) \in Nat /\ DOMAIN Queue' = 1 .. (Len(Queue) + 1)
        /\ Queue'[Len(Queue) + 1] = b
        /\ \A k \in DOMAIN Queue : Queue'[k] = Queue[k]
    BY <1>1, <2>1, <2>3, AppendProperties, LenProperties
  <2>5. Nested(F, rest) /\ Below(F, rest, 0, b)
    <3>1. Below(F, todo, 1, b)
      BY <1>2, <2>1, <2>2 DEF Nested
    <3>2. Below(F, todo, 0 + 1, b)
      BY <3>1
    <3> HIDE DEF F, b
    <3>3. Below(F, rest, 0, b)
      BY <3>2, <1>1, <2>1, BelowInTail
    <3> QED
      BY <3>3, <1>1, <1>2, <2>1, OrderOfRest DEF F
  <2>6. CalledFrom(succ, Set', todo') /\ Nested(F, todo') /\ Dominated(succ, Set')
    BY <1>5, <2>1, <2>3
  <2> HIDE DEF F, b, rest
  <2>7. Pending(F, Set, rest)
    <3> SUFFICES ASSUME NEW c \in Set, NEW d \in ToSet(F[c]), d \notin Set
                 PROVE  \E i, j \in DOMAIN rest : i < j /\ rest[i] = enqueue(d) /\ rest[j] = push(c)
      BY DEF Pending
    <3>1. todo[1] # enqueue(d)
      BY <2>2, ItemsDiffer
    <3> QED
      BY <3>1, <1>1, <1>2, <2>1, PendingInRest DEF rest
  <2>8. ASSUME Reducible PROVE Finished(F, Set, rest, Queue')
    <3> SUFFICES ASSUME NEW c \in Set, push(c) \notin ToSet(rest), NEW d \in ToSet(F[c])
                 PROVE  /\ push(d) \notin ToSet(rest)
                        /\ \E k \in DOMAIN Queue' : Queue'[k] = c /\ \A m \in DOMAIN Queue' : Queue'[m] = d => m < k
      BY DEF Finished
    <3>1. CASE c = b
      <4>1. d \in Set
        <5> SUFFICES ASSUME d \notin Set PROVE FALSE
          OBVIOUS
        <5>1. PICK i, j \in DOMAIN rest : i < j /\ rest[i] = enqueue(d) /\ rest[j] = push(c)
          <6>1. todo[1] # enqueue(d)
            BY <2>2, ItemsDiffer
          <6> QED
            BY <6>1, <1>1, <1>2, <2>1, PendingInRest DEF rest
        <5> QED
          BY <5>1 DEF ToSet
      <4>2. c \notin Reach(F, {d}, {}) /\ c # d
        BY <1>1, <2>8, NoCycle DEF F
      <4>3. push(d) \notin ToSet(rest)
        <5> SUFFICES ASSUME NEW j \in DOMAIN rest, rest[j] = push(d) PROVE FALSE
          BY DEF ToSet
        <5>1. j > 0 /\ rest[j].do = "push" /\ rest[j].bb = d
          <6>1. j > 0
            BY <2>2, LenProperties
          <6> QED
            BY <6>1, ItemFields
        <5>2. b \in Reach(F, {d}, {})
          BY <5>1, <2>5 DEF Below
        <5> QED
          BY <5>2, <4>2, <3>1
      <4>4. \A m \in DOMAIN Queue' : Queue'[m] = d => m < Len(Queue) + 1
        BY <2>4, <3>1, <4>2
      <4> QED
        BY <4>3, <4>4, <2>4, <3>1
    <3>2. CASE c # b
      <4>1. push(c) \notin ToSet(todo)
        BY <3>2, <2>2, ItemsDiffer
      <4>2. push(d) \notin ToSet(todo)
        BY <4>1, <1>2, <2>8 DEF Finished
      <4>3. PICK k \in DOMAIN Queue : Queue[k] = c /\ \A m \in DOMAIN Queue : Queue[m] = d => m < k
        BY <4>1, <1>2, <2>8 DEF Finished
      <4>4. d # b
        BY <4>2, <2>2
      <4>5. \A m \in DOMAIN Queue' : Queue'[m] = d => m \in DOMAIN Queue /\ Queue[m] = d
        BY <4>4, <2>4
      <4>6. k \in DOMAIN Queue' /\ Queue'[k] = c
        BY <4>3, <2>4
      <4> QED
        BY <4>2, <4>3, <4>5, <4>6, <2>2
    <3> QED
      BY <3>1, <3>2
  <2> QED
    BY <1>4, <2>1, <2>6, <2>7, <2>8
<1>8. ASSUME Visit PROVE OrderInv'
  <2>1. todo # <<>> /\ Head(todo).do = "enqueue" /\ b \notin Set /\ todo' = Calls(b) \o rest
        /\ succ' = succ /\ Queue' = Queue /\ Set' = Set \cup {b}
    BY <1>8 DEF Visit, AtItem
  <2>2. /\ Dominated(succ, Set') /\ CalledFrom(succ, Set', todo')
        /\ Nested(F, todo') /\ Pending(F, Set', todo')
    BY <2>1, OrderOfVisit
  <2>3. Head(todo) = enqueue(b) /\ ToSet(todo) = {Head(todo)} \cup ToSet(rest) /\ b \in Blocks
        /\ rest \in Seq(Items) /\ todo[1] = Head(todo)
    BY <1>1, <2>1, FirstItem, PlacesInTail
  <2>4. Calls(b) \in Seq(Items) /\ ToSet(Calls(b)) = {enqueue(d) : d \in ToSet(succ[b])} \cup {push(b)}
    BY <1>1, <2>3, CallsOf
  <2> HIDE DEF F, b, rest
  <2>5. ToSet(todo') = ToSet(Calls(b)) \cup ToSet(rest)
    BY <2>1, <2>3, <2>4, ElementsOfConcat
  <2>6. \A d : push(d) \in ToSet(todo') <=> d = b \/ push(d) \in ToSet(todo)
    BY <2>3, <2>4, <2>5, ItemsDiffer
  <2>7. ASSUME Reducible PROVE Finished(F, Set', todo', Queue')
    <3> SUFFICES ASSUME NEW c \in Set', push(c) \notin ToSet(todo'), NEW d \in ToSet(F[c])
                 PROVE  /\ push(d) \notin ToSet(todo')
                        /\ \E k \in DOMAIN Queue : Queue[k] = c /\ \A m \in DOMAIN Queue : Queue[m] = d => m < k
      BY <2>1 DEF Finished
    <3>1. c # b /\ c \in Set /\ push(c) \notin ToSet(todo)
      BY <2>1, <2>6
    <3>2. /\ push(d) \notin ToSet(todo)
          /\ \E k \in DOMAIN Queue : Queue[k] = c /\ \A m \in DOMAIN Queue : Queue[m] = d => m < k
      BY <3>1, <1>2, <2>7 DEF Finished
    <3>3. d \in Set
      <4> SUFFICES ASSUME d \notin Set PROVE FALSE
        OBVIOUS
      <4>1. PICK i, j \in DOMAIN todo : todo[j] = push(c)
        BY <3>1, <1>2 DEF Pending
      <4> QED
        BY <4>1, <3>1 DEF ToSet
    <3> QED
      BY <3>2, <3>3, <2>1, <2>6
  <2> QED
    BY <1>4, <2>1, <2>2, <2>7
<1> QED
  BY <1>3, <1>6, <1>7, <1>8 DEF Next

\* The schedule is Queue, backwards.
LEMMA PositionsAre ==
  ASSUME NEW S, Queue \in Seq(S), NEW b
  PROVE  /\ Len(Queue) \in Nat /\ DOMAIN Queue = 1 .. Len(Queue)
         /\ Positions(b) \subseteq 1 .. Len(Queue)
         /\ \A k \in DOMAIN Queue : Queue[k] = b => (Len(Queue) - k) + 1 \in Positions(b)
         /\ \A p \in Positions(b) :
              (Len(Queue) - p) + 1 \in DOMAIN Queue /\ Queue[(Len(Queue) - p) + 1] = b
         /\ Positions(b) # {} =>
              /\ FirstVisit(b) \in Positions(b) /\ LastVisit(b) \in Positions(b)
              /\ \A p \in Positions(b) : FirstVisit(b) <= p /\ p <= LastVisit(b)
<1> DEFINE n == Len(Queue)
<1>1. n \in Nat /\ DOMAIN Queue = 1 .. n
  BY LenProperties
<1>2. DOMAIN Schedule = 1 .. n /\ \A k \in 1 .. n : Schedule[k] = Queue[(n - k) + 1]
  BY <1>1 DEF Schedule, Reverse
<1>3. \A k \in 1 .. n : (n - k) + 1 \in 1 .. n /\ (n - ((n - k) + 1)) + 1 = k
  BY <1>1
<1>4. Positions(b) = {k \in 1 .. n : Queue[(n - k) + 1] = b}
  BY <1>2 DEF Positions
<1>5. \A k \in DOMAIN Queue : Queue[k] = b => (n - k) + 1 \in Positions(b)
  BY <1>1, <1>3, <1>4
<1>6. \A p \in Positions(b) : (n - p) + 1 \in DOMAIN Queue /\ Queue[(n - p) + 1] = b
  BY <1>1, <1>3, <1>4
<1>7. Positions(b) \subseteq 1 .. n
  BY <1>4
<1>8. ASSUME Positions(b) # {}
      PROVE  /\ FirstVisit(b) \in Positions(b) /\ LastVisit(b) \in Positions(b)
             /\ \A p \in Positions(b) : FirstVisit(b) <= p /\ p <= LastVisit(b)
  <2>1. Positions(b) \subseteq Nat /\ Positions(b) \subseteq 0 .. n
    BY <1>1, <1>7
  <2>2. \E x \in Positions(b) : \A y \in Positions(b) : x <= y
    BY <2>1, <1>8, LeastNumber
  <2>3. FirstVisit(b) \in Positions(b) /\ \A y \in Positions(b) : FirstVisit(b) <= y
    BY <2>2 DEF FirstVisit, Min
  <2>4. \E x \in Positions(b) : \A y \in Positions(b) : y <= x
    BY <2>1, <1>1, <1>8, GreatestNumber
  <2>5. \E x \in Positions(b) : \A y \in Positions(b) : x >= y
    BY <2>1, <2>4
  <2>6. LastVisit(b) \in Positions(b) /\ \A y \in Positions(b) : LastVisit(b) >= y
    BY <2>5 DEF LastVisit, Max
  <2> QED
    BY <2>1, <2>3, <2>6
<1> QED
  BY <1>1, <1>5, <1>6, <1>7, <1>8

\* The first visit of a block is its last occurrence in Queue.
LEMMA InvariantMeansForward == ScheduleInv /\ OrderInv => ForwardOrder
<1> SUFFICES ASSUME ScheduleInv, OrderInv, todo = <<>>, Reducible,
                    NEW b \in Reachable(succ), NEW d \in ToSet(succ[b]), <<b, d>> \notin BackEdges(succ)
             PROVE  FirstVisit(b) < FirstVisit(d)
  BY DEF ForwardOrder, Scheduled
<1>1. succ \in Graphs /\ succ \in CFG /\ Queue \in Seq(Set) /\ Reachable(succ) \subseteq Blocks
  BY ReachableIsClosed DEF ScheduleInv, TypeOK
<1>2. d \in Reachable(succ) /\ d \in Blocks /\ b \in Blocks
  BY <1>1, ReachableIsClosed
<1>3. Positions(b) # {} /\ Positions(d) # {} /\ b \in Set
  <2>1. Positions(b) # {} /\ Positions(d) # {}
    BY <1>2, InvariantMeansScheduled DEF AllBlocksScheduled, Scheduled
  <2>2. PICK p \in Positions(b) : TRUE
    BY <2>1
  <2>3. (Len(Queue) - p) + 1 \in DOMAIN Queue /\ Queue[(Len(Queue) - p) + 1] = b
    BY <1>1, PositionsAre
  <2>4. \A k \in DOMAIN Queue : Queue[k] \in Set
    BY <1>1, LenProperties, ElementOfSeq
  <2> QED
    BY <2>1, <2>3, <2>4
<1>4. d \in ToSet(Forward(succ)[b])
  BY <1>1, <1>2, ForwardEdges
<1>5. PICK k \in DOMAIN Queue : Queue[k] = b /\ \A m \in DOMAIN Queue : Queue[m] = d => m < k
  <2>1. push(b) \notin ToSet(todo)
    BY DEF ToSet
  <2>2. Finished(Forward(succ), Set, todo, Queue)
    BY DEF OrderInv
  <2> QED
    BY <2>1, <2>2, <1>3, <1>4 DEF Finished
<1> DEFINE n == Len(Queue)
<1>6. (n - k) + 1 \in Positions(b) /\ n \in Nat /\ k \in 1 .. n
  BY <1>1, <1>5, PositionsAre
<1>7. FirstVisit(b) \in 1 .. n /\ FirstVisit(b) <= (n - k) + 1
  BY <1>1, <1>3, <1>6, PositionsAre
<1>8. FirstVisit(d) \in 1 .. n /\ (n - FirstVisit(d)) + 1 \in DOMAIN Queue /\ Queue[(n - FirstVisit(d)) + 1] = d
  BY <1>1, <1>3, PositionsAre
<1>9. (n - FirstVisit(d)) + 1 < k
  BY <1>5, <1>8
<1> HIDE DEF n
<1> QED
  BY <1>6, <1>7, <1>8, <1>9

\* In a reducible graph a block is evaluated for the first time before any block
\* it branches to, except back to the header of a loop.
THEOREM BlocksInForwardOrder == Spec => []ForwardOrder
<1>1. Init => ScheduleInv /\ OrderInv
  BY ScheduleInit, OrderInit
<1>2. (ScheduleInv /\ OrderInv) /\ [Next]_vars => (ScheduleInv /\ OrderInv)'
  BY ScheduleStep, OrderStep
<1> QED
  BY <1>1, <1>2, InvariantMeansForward, PTL DEF Spec

-----------------------------------------------------------------------------
(* Natural loops: the innermost loop around a block is one.                *)

Latches(G, h) == {u \in Reachable(G) : <<u, h>> \in BackEdges(G)}

\* The blocks of the loop of h, h apart.
Inside(G, h) == {b \in Reachable(G) \ {h} : Reach(G, {b}, {h}) \cap Latches(G, h) # {}}

\* R is what a block x reaches without passing h.
IsAround(R, G, x, h) ==
  /\ R \subseteq Blocks
  /\ {x} \ {h} \subseteq R
  /\ \A b \in R : ToSet(G[b]) \ {h} \subseteq R
  /\ \A S : {x} \ {h} \subseteq S /\ (\A b \in S \cap Blocks : ToSet(G[b]) \ {h} \subseteq S) => R \subseteq S

LEMMA ReachIsAround ==
  ASSUME NEW G \in CFG, NEW x \in Blocks, NEW h
  PROVE  IsAround(Reach(G, {x}, {h}), G, x, h)
<1> DEFINE from == {x}
           avoid == {h}
<1>1. from \in SUBSET Blocks
  OBVIOUS
<1> HIDE DEF from, avoid
<1> DEFINE R == Reach(G, from, avoid)
<1>2. /\ R \subseteq Blocks
      /\ from \ avoid \subseteq R
      /\ \A b \in R : ToSet(G[b]) \ avoid \subseteq R
      /\ \A S : from \ avoid \subseteq S /\ (\A b \in S \cap Blocks : ToSet(G[b]) \ avoid \subseteq S) => R \subseteq S
  BY <1>1, ReachIsClosure
<1> HIDE DEF R
<1>3. R = Reach(G, {x}, {h})
  BY DEF R, from, avoid
<1>4. IsAround(R, G, x, h)
  BY <1>2 DEF IsAround, from, avoid
<1> QED
  BY <1>3, <1>4

\* Reaching from one block without passing another.
LEMMA ReachAround ==
  ASSUME NEW G \in CFG, NEW x \in Blocks, NEW h
  PROVE  /\ Reach(G, {x}, {h}) \subseteq Blocks \ {h}
         /\ x # h => x \in Reach(G, {x}, {h})
         /\ \A b \in Reach(G, {x}, {h}) : ToSet(G[b]) \ {h} \subseteq Reach(G, {x}, {h})
         /\ \A S : (x # h => x \in S) /\ (\A b \in S \cap Blocks : ToSet(G[b]) \ {h} \subseteq S)
                     => Reach(G, {x}, {h}) \subseteq S
         /\ \A y \in Reach(G, {x}, {h}) : Reach(G, {y}, {h}) \subseteq Reach(G, {x}, {h})
<1>1. IsAround(Reach(G, {x}, {h}), G, x, h)
  BY ReachIsAround, Zenon
<1>2. /\ Reach(G, {x}, {h}) \subseteq Blocks
      /\ x # h => x \in Reach(G, {x}, {h})
      /\ \A b \in Reach(G, {x}, {h}) : ToSet(G[b]) \ {h} \subseteq Reach(G, {x}, {h})
  BY <1>1 DEF IsAround
<1>3. \A S : (x # h => x \in S) /\ (\A b \in S \cap Blocks : ToSet(G[b]) \ {h} \subseteq S)
               => Reach(G, {x}, {h}) \subseteq S
  BY <1>1 DEF IsAround
<1>4. Reach(G, {x}, {h}) \subseteq Blocks \ {h}
  <2>1. \A b \in (Blocks \ {h}) \cap Blocks : ToSet(G[b]) \ {h} \subseteq Blocks \ {h}
    BY SuccessorsAreBlocks
  <2>2. x # h => x \in Blocks \ {h}
    OBVIOUS
  <2> QED
    BY <2>1, <2>2, <1>3
<1>5. ASSUME NEW y \in Reach(G, {x}, {h}) PROVE Reach(G, {y}, {h}) \subseteq Reach(G, {x}, {h})
  <2>1. {y} \in SUBSET Blocks /\ {y} \ {h} \subseteq Reach(G, {x}, {h})
    BY <1>2, <1>5
  <2> DEFINE S == Reach(G, {x}, {h})
  <2>2. \A b \in S \cap Blocks : ToSet(G[b]) \ {h} \subseteq S
    BY <1>2
  <2>3. {y} \ {h} \subseteq S
    BY <2>1
  <2> HIDE DEF S
  <2>4. Reach(G, {y}, {h}) \subseteq S
    BY <2>1, <2>2, <2>3, ReachIsClosure
  <2> QED
    BY <2>4 DEF S
<1> QED
  BY <1>2, <1>3, <1>4, <1>5

\* Back edges are pairs of blocks.
LEMMA BackEdgesArePairs ==
  ASSUME NEW G, NEW e \in BackEdges(G)
  PROVE  e = <<e[1], e[2]>>
<1> DEFINE back(b) == {<<b, h>> : h \in {d \in ToSet(G[b]) : b \notin Reach(G, {Entry}, {d})}}
<1>1. BackEdges(G) = UNION {back(b) : b \in Reachable(G)}
  BY DEF BackEdges
<1>2. ASSUME NEW b, NEW a \in back(b) PROVE a = <<a[1], a[2]>>
  <2>1. PICK h \in {d \in ToSet(G[b]) : b \notin Reach(G, {Entry}, {d})} : a = <<b, h>>
    OBVIOUS
  <2> QED
    BY <2>1
<1> HIDE DEF back
<1>3. PICK b \in Reachable(G) : e \in back(b)
  BY <1>1
<1> QED
  BY <1>2, <1>3

\* What LoopOf and BackEdges give a header.
LEMMA LoopOfIs ==
  ASSUME NEW G, NEW h
  PROVE  /\ LoopOf(G, BackEdges(G), h).header = h
         /\ LoopOf(G, BackEdges(G), h).blocks = {h} \cup Inside(G, h)
<1> DEFINE latches == {e[1] : e \in {d \in BackEdges(G) : d[2] = h}}
<1>1. LoopOf(G, BackEdges(G), h) =
        [header |-> h,
         blocks |-> {h} \cup {b \in Reachable(G) \ {h} : Reach(G, {b}, {h}) \cap latches # {}}]
  BY DEF LoopOf
<1>2. \A e \in BackEdges(G) : e = <<e[1], e[2]>>
  BY BackEdgesArePairs
<1>3. latches = Latches(G, h)
  <2>1. \A u \in latches : <<u, h>> \in BackEdges(G)
    BY <1>2
  <2>2. \A u : <<u, h>> \in BackEdges(G) => u \in latches
    <3> SUFFICES ASSUME NEW u, <<u, h>> \in BackEdges(G) PROVE u \in latches
      OBVIOUS
    <3>1. <<u, h>>[1] = u /\ <<u, h>>[2] = h
      OBVIOUS
    <3> QED
      BY <3>1
  <2>3. \A u : <<u, h>> \in BackEdges(G) => u \in Reachable(G)
    BY BackEdgeIs
  <2> HIDE DEF latches
  <2> QED
    BY <2>1, <2>2, <2>3 DEF Latches
<1> HIDE DEF latches
<1> QED
  BY <1>1, <1>3 DEF Inside

\* The header of a loop dominates its blocks, and only the header is entered from outside.
LEMMA LoopIsEnteredAtHeader ==
  ASSUME NEW G \in Graphs, NEW h
  PROVE  /\ Inside(G, h) \subseteq Reachable(G) \ {h}
         /\ \A b \in Inside(G, h) : b \notin Reach(G, {Entry}, {h})
         /\ \A b \in Reachable(G) \ {h} : ToSet(G[b]) \cap Inside(G, h) # {} => b \in Inside(G, h)
         /\ Latches(G, h) \ {h} \subseteq Inside(G, h)
<1>1. G \in CFG /\ Reachable(G) \subseteq Blocks /\ Entry \in Blocks
  BY ReachableIsClosed, GraphsAssumption
<1>2. ASSUME NEW b \in Inside(G, h), b \in Reach(G, {Entry}, {h}) PROVE FALSE
  <2>1. PICK l \in Reach(G, {b}, {h}) : l \in Latches(G, h)
    BY <1>2 DEF Inside
  <2>2. l \in Reach(G, {Entry}, {h})
    BY <2>1, <1>1, <1>2, ReachAround
  <2> QED
    BY <2>1, <2>2, BackEdgeIs DEF Latches
<1>3. ASSUME NEW b \in Reachable(G) \ {h}, NEW c \in ToSet(G[b]), c \in Inside(G, h)
      PROVE  b \in Inside(G, h)
  <2>1. PICK l \in Reach(G, {c}, {h}) : l \in Latches(G, h)
    BY <1>3 DEF Inside
  <2>2. c # h /\ b \in Blocks
    BY <1>1, <1>3 DEF Inside
  <2>3. c \in Reach(G, {b}, {h})
    BY <2>2, <1>1, <1>3, ReachAround
  <2>4. l \in Reach(G, {b}, {h})
    BY <2>1, <2>2, <2>3, <1>1, ReachAround
  <2> QED
    BY <2>1, <2>4, <1>3 DEF Inside
<1>4. ASSUME NEW l \in Latches(G, h), l # h PROVE l \in Inside(G, h)
  <2>1. l \in Reachable(G) /\ l \in Blocks
    BY <1>1 DEF Latches
  <2>2. l \in Reach(G, {l}, {h})
    BY <2>1, <1>1, <1>4, ReachAround
  <2> QED
    BY <2>1, <2>2, <1>4 DEF Inside
<1>5. Inside(G, h) \subseteq Reachable(G) \ {h}
  BY DEF Inside
<1> QED
  BY <1>2, <1>3, <1>4, <1>5

\* Of two headers, one is reached without passing the other.
LEMMA HeadersCompare ==
  ASSUME NEW G \in Graphs, NEW h \in Reachable(G) \ {Entry}, NEW k \in Reachable(G) \ {Entry}, h # k
  PROVE  h \in Reach(G, {Entry}, {k}) \/ k \in Reach(G, {Entry}, {h})
<1> SUFFICES ASSUME h \notin Reach(G, {Entry}, {k}), k \notin Reach(G, {Entry}, {h}) PROVE FALSE
  OBVIOUS
<1> DEFINE S == Reach(G, {Entry}, {k}) \cap Reach(G, {Entry}, {h})
<1>1. G \in CFG /\ Entry \in Blocks /\ Entry # h /\ Entry # k
  BY ReachableIsClosed, GraphsAssumption
<1>2. /\ Entry \in Reach(G, {Entry}, {k})
      /\ \A b \in Reach(G, {Entry}, {k}) : ToSet(G[b]) \ {k} \subseteq Reach(G, {Entry}, {k})
  <2>1. IsAround(Reach(G, {Entry}, {k}), G, Entry, k)
    BY <1>1, ReachIsAround, Zenon
  <2> QED
    BY <1>1, <2>1 DEF IsAround
<1>3. /\ Entry \in Reach(G, {Entry}, {h})
      /\ \A b \in Reach(G, {Entry}, {h}) : ToSet(G[b]) \ {h} \subseteq Reach(G, {Entry}, {h})
  <2>1. IsAround(Reach(G, {Entry}, {h}), G, Entry, h)
    BY <1>1, ReachIsAround, Zenon
  <2> QED
    BY <1>1, <2>1 DEF IsAround
<1>4. \A b \in S : ToSet(G[b]) \subseteq S
  BY <1>2, <1>3
<1>5. Reachable(G) \subseteq S
  BY <1>2, <1>3, <1>4, ReachableIsClosed
<1> QED
  BY <1>5

\* Two loops that share a block are nested: the loop whose header is reached
\* without passing the other's is the outer one.
LEMMA LoopsAreNested ==
  ASSUME NEW G \in Graphs, NEW h \in Reachable(G) \ {Entry}, NEW k \in Reachable(G) \ {Entry},
         h # k, h \in Reach(G, {Entry}, {k}),
         NEW b, b \in {h} \cup Inside(G, h), b \in {k} \cup Inside(G, k)
  PROVE  {k} \cup Inside(G, k) \subseteq Inside(G, h)
<1>1. G \in CFG /\ Entry \in Blocks /\ h \in Blocks /\ k \in Blocks /\ Reachable(G) \subseteq Blocks
  BY ReachableIsClosed, GraphsAssumption
<1>2. h \notin Inside(G, k)
  BY LoopIsEnteredAtHeader
<1>3. b \in Inside(G, h) /\ b \notin Reach(G, {Entry}, {k}) /\ b \in Reachable(G)
  <2>1. k \notin Reach(G, {Entry}, {k})
    BY <1>1, ReachAround
  <2>2. b \notin Reach(G, {Entry}, {k})
    BY <2>1, LoopIsEnteredAtHeader
  <2> QED
    BY <2>2, LoopIsEnteredAtHeader
<1>4. b \in Reach(G, {k}, {h})
  <2> DEFINE S == Reach(G, {Entry}, {k}) \cup Reach(G, {k}, {h})
  <2>1. /\ Entry \in Reach(G, {Entry}, {k})
        /\ \A c \in Reach(G, {Entry}, {k}) : ToSet(G[c]) \ {k} \subseteq Reach(G, {Entry}, {k})
    BY <1>1, ReachAround
  <2>2. /\ k \in Reach(G, {k}, {h})
        /\ \A c \in Reach(G, {k}, {h}) : ToSet(G[c]) \ {h} \subseteq Reach(G, {k}, {h})
    BY <1>1, ReachAround
  <2>3. \A c \in S : ToSet(G[c]) \subseteq S
    BY <2>1, <2>2
  <2>4. Reachable(G) \subseteq S
    BY <2>1, <2>3, ReachableIsClosed
  <2> QED
    BY <2>4, <1>3
<1>5. k \in Inside(G, h)
  <2>1. PICK l \in Reach(G, {b}, {h}) : l \in Latches(G, h)
    BY <1>3 DEF Inside
  <2>2. l \in Reach(G, {k}, {h})
    BY <2>1, <1>1, <1>4, ReachAround
  <2> QED
    BY <2>1, <2>2 DEF Inside
<1>6. ASSUME NEW c \in Inside(G, k), c \notin Inside(G, h) PROVE FALSE
  <2> DEFINE Y == {x \in Reachable(G) \ {k} : x \notin Inside(G, k) \/ x \notin Inside(G, h)}
  <2>1. c \in Y /\ c \in Blocks
    BY <1>1, <1>6 DEF Inside
  <2>2. ASSUME NEW x \in Y, NEW v \in ToSet(G[x]), v # k PROVE v \in Y
    <3>1. v \in Reachable(G)
      BY <2>2, ReachableIsClosed
    <3> SUFFICES ASSUME v \in Inside(G, k), v \in Inside(G, h) PROVE FALSE
      BY <3>1, <2>2
    <3>2. x \in Inside(G, k)
      BY <2>2, LoopIsEnteredAtHeader
    <3>3. x # h /\ x \notin Inside(G, h) /\ x \in Reachable(G)
      BY <3>2, <2>2, <1>2
    <3> QED
      BY <3>3, LoopIsEnteredAtHeader
  <2>3. PICK l \in Reach(G, {c}, {k}) : l \in Latches(G, k)
    BY <1>6 DEF Inside
  <2>4. l \in Y
    <3>1. (c # k => c \in Y) /\ \A x \in Y \cap Blocks : ToSet(G[x]) \ {k} \subseteq Y
      BY <2>1, <2>2
    <3> HIDE DEF Y
    <3>2. Reach(G, {c}, {k}) \subseteq Y
      BY <3>1, <1>1, <2>1, ReachAround
    <3> QED
      BY <3>2, <2>3
  <2>5. l # k /\ l \in Reachable(G) /\ l \in Inside(G, k)
    BY <2>3, <2>4, LoopIsEnteredAtHeader
  <2>6. l \notin Inside(G, h) /\ l # h
    BY <2>4, <2>5, <1>2
  <2>7. k \in ToSet(G[l])
    BY <2>3, BackEdgeIs DEF Latches
  <2> QED
    BY <2>5, <2>6, <2>7, <1>5, LoopIsEnteredAtHeader
<1> QED
  BY <1>5, <1>6

Headers(G) == {e[2] : e \in BackEdges(G)}
LoopsAround(G, b) ==
  {L \in {LoopOf(G, BackEdges(G), h) : h \in Headers(G)} : b \in L.blocks}

\* A loop around b is the natural loop of a header, of reachable blocks.
LEMMA LoopAround ==
  ASSUME NEW G \in Graphs, NEW b, NEW L \in LoopsAround(G, b)
  PROVE  /\ L.header \in Reachable(G) \ {Entry}
         /\ L = LoopOf(G, BackEdges(G), L.header)
         /\ L.blocks = {L.header} \cup Inside(G, L.header) /\ b \in L.blocks
         /\ L.blocks \subseteq Blocks
<1>1. PICK h \in Headers(G) : L = LoopOf(G, BackEdges(G), h)
  BY DEF LoopsAround
<1>2. L.header = h /\ L.blocks = {h} \cup Inside(G, h)
  BY <1>1, LoopOfIs
<1>3. PICK e \in BackEdges(G) : h = e[2]
  BY DEF Headers
<1>4. e = <<e[1], h>>
  BY <1>3, BackEdgesArePairs
<1>5. e[1] \in Reachable(G) /\ h \in ToSet(G[e[1]])
  BY <1>3, <1>4, BackEdgeIs
<1>6. h \in Reachable(G) /\ h # Entry /\ Reachable(G) \subseteq Blocks
  BY <1>5, ReachableIsClosed, GraphsAssumption
<1>7. Inside(G, h) \subseteq Reachable(G)
  BY DEF Inside
<1> QED
  BY <1>1, <1>2, <1>6, <1>7 DEF LoopsAround

\* The loops around a block have an innermost one.
LEMMA InnermostLoop ==
  ASSUME NEW G \in Graphs, NEW b, LoopsAround(G, b) # {}
  PROVE  \E L \in LoopsAround(G, b) : \A K \in LoopsAround(G, b) : L.blocks \subseteq K.blocks
<1> DEFINE A == LoopsAround(G, b)
           Sizes == {Cardinality(L.blocks) : L \in A}
<1>1. \A L \in A : L.blocks \subseteq Blocks
  BY LoopAround
<1>2. \A L \in A : IsFiniteSet(L.blocks) /\ Cardinality(L.blocks) \in Nat
  BY <1>1, GraphsAssumption, FS_Subset, FS_CardinalityType
<1>3. Sizes \subseteq Nat /\ Sizes # {}
  BY <1>2
<1>4. PICK n \in Sizes : \A m \in Sizes : n <= m
  BY <1>3, LeastNumber
<1>5. PICK L \in A : n = Cardinality(L.blocks)
  BY <1>4
<1>6. ASSUME NEW K \in A PROVE L.blocks \subseteq K.blocks
  <2>1. Cardinality(L.blocks) <= Cardinality(K.blocks)
    BY <1>4, <1>5
  <2>2. L.blocks \subseteq K.blocks \/ K.blocks \subseteq L.blocks
    <3> DEFINE h == L.header
               k == K.header
    <3>1. /\ h \in Reachable(G) \ {Entry} /\ k \in Reachable(G) \ {Entry}
          /\ L.blocks = {h} \cup Inside(G, h) /\ K.blocks = {k} \cup Inside(G, k)
          /\ b \in L.blocks /\ b \in K.blocks
      BY LoopAround
    <3>2. CASE h = k
      BY <3>1, <3>2
    <3> HIDE DEF h, k
    <3>3. CASE h # k /\ h \in Reach(G, {Entry}, {k})
      BY <3>1, <3>3, LoopsAreNested
    <3>4. CASE h # k /\ k \in Reach(G, {Entry}, {h})
      BY <3>1, <3>4, LoopsAreNested
    <3> QED
      BY <3>1, <3>2, <3>3, <3>4, HeadersCompare
  <2>3. ASSUME K.blocks \subseteq L.blocks PROVE L.blocks \subseteq K.blocks
    <3>1. Cardinality(K.blocks) <= Cardinality(L.blocks)
      BY <2>3, <1>2, FS_Subset
    <3>2. Cardinality(K.blocks) = Cardinality(L.blocks)
      BY <3>1, <2>1, <1>2
    <3> QED
      BY <3>2, <2>3, <1>2, FS_Subset
  <2> QED
    BY <2>2, <2>3
<1> QED
  BY <1>5, <1>6

\* The loop LoopInfo gives a block is a natural loop around it.
LEMMA LoopInfoIs ==
  ASSUME NEW G \in Graphs, NEW b \in Blocks, LoopInfo(G)[b] # NoLoop
  PROVE  LoopInfo(G)[b] \in LoopsAround(G, b)
<1>1. LoopInfo(G)[b] =
        IF LoopsAround(G, b) = {} THEN NoLoop
        ELSE CHOOSE L \in LoopsAround(G, b) : \A K \in LoopsAround(G, b) : L.blocks \subseteq K.blocks
  BY DEF LoopInfo, LoopsAround, Headers
<1>2. LoopsAround(G, b) # {}
  BY <1>1
<1> QED
  BY <1>1, <1>2, InnermostLoop

-----------------------------------------------------------------------------
(* Loops left from their header are evaluated as a whole.                  *)

\* The headers that are exiting and no latch, of loops that nothing else leaves.
WholeHeaders ==
  {h \in ExitingHeaders : \A b \in loop[h].blocks \ {h} : ~isLoopExiting(loop[h], b)}

Body(h) == loop[h].blocks \ {h}
Exits(h) == ToSet(succ[h]) \ loop[h].blocks
ForwardExits(h) == IF Reducible THEN ToSet(Forward(succ)[h]) \ loop[h].blocks ELSE {}

\* What is left to do for the body comes before a push of the header.
Enclosed(h, B, items) ==
  \A i \in DOMAIN items : items[i].bb \in B => \E j \in DOMAIN items : j > i /\ items[j] = push(h)

\* Before the header is queued its body is not visited, and comes after a push of it.
Untouched(h, B, S, items, Q) ==
  h \notin ToSet(Q) =>
    /\ S \cap B = {}
    /\ \A i \in DOMAIN items : items[i].do = "enqueue" /\ items[i].bb \in B =>
         \E j \in DOMAIN items : j < i /\ items[j] = push(h)

\* The body is queued between two pushes of the header.
Between(h, B, items, Q) ==
  \A k \in DOMAIN Q : Q[k] \in B =>
    /\ \E m \in DOMAIN Q : m < k /\ Q[m] = h
    /\ push(h) \in ToSet(items) \/ \E m \in DOMAIN Q : m > k /\ Q[m] = h

\* Before the header is queued, what the loop is left to is visited or comes first.
ExitsFirst(h, D, S, items, Q) ==
  h \in S /\ h \notin ToSet(Q) =>
    \A d \in D : d \in S \/ \E i \in DOMAIN items :
                                  items[i] = enqueue(d) /\ \A j \in DOMAIN items : items[j] = push(h) => i < j

\* Once the header is queued, what the loop is left to has been.
ExitsDone(h, E, S, items, Q) ==
  h \in ToSet(Q) =>
    \A d \in E : /\ d \in S /\ push(d) \notin ToSet(items)
                 /\ \A k, m \in DOMAIN Q : Q[k] = h /\ Q[m] = d => m < k

HeaderInv(h, B, D, E, S, items, Q) ==
  /\ Enclosed(h, B, items) /\ Untouched(h, B, S, items, Q) /\ Between(h, B, items, Q)
  /\ ExitsFirst(h, D, S, items, Q) /\ ExitsDone(h, E, S, items, Q)

\* What WhileLoopsAreWhole rests on, in every state.
WholeInv ==
  \A h \in WholeHeaders :
    HeaderInv(h, Body(h), Exits(h), ForwardExits(h), Set, todo, Queue)

\* The body of such a loop is entered from its header only.
LEMMA HeaderFacts ==
  ASSUME ScheduleInv, NEW h \in WholeHeaders
  PROVE  /\ h \in Blocks /\ Twice(h) /\ h \notin Body(h) /\ Entry \notin Body(h)
         /\ Body(h) \subseteq Reachable(succ) /\ h \in loop[h].blocks
         /\ \A u \in Reachable(succ) \ {h} : ToSet(succ[u]) \cap Body(h) # {} => u \in Body(h)
         /\ \A d \in ToSet(succ[h]) : (d \in Outward(h) <=> d \notin Body(h)) /\ d # h
         /\ Exits(h) \subseteq Outward(h)
<1>1. /\ h \in Blocks /\ Twice(h) /\ loop[h].header = h /\ succ \in Graphs /\ loop = LoopInfo(succ)
      /\ \A b \in loop[h].blocks \ {h} : ~isLoopExiting(loop[h], b)
  BY DEF WholeHeaders, ExitingHeaders, ScheduleInv, Twice
<1>2. loop[h] \in LoopsAround(succ, h)
  BY <1>1, LoopInfoIs DEF Twice
<1>3. loop[h].blocks = {h} \cup Inside(succ, h)
  BY <1>1, <1>2, LoopAround
<1>4. /\ Inside(succ, h) \subseteq Reachable(succ) \ {h}
      /\ \A b \in Inside(succ, h) : b \notin Reach(succ, {Entry}, {h})
      /\ \A b \in Reachable(succ) \ {h} : ToSet(succ[b]) \cap Inside(succ, h) # {} => b \in Inside(succ, h)
  BY <1>1, LoopIsEnteredAtHeader
<1>5. Body(h) = Inside(succ, h)
  BY <1>3, <1>4 DEF Body
<1>6. Entry \notin Body(h)
  <2> SUFFICES ASSUME Entry \in Inside(succ, h) PROVE FALSE
    BY <1>5
  <2>1. Entry # h /\ Entry \in Blocks /\ succ \in CFG
    BY <1>1, <1>4, GraphsAssumption, ReachableIsClosed
  <2>2. Entry \in Reach(succ, {Entry}, {h})
    BY <2>1, ReachAround
  <2> QED
    BY <2>2, <1>4
<1>7. h \notin ToSet(succ[h])
  BY <1>1, <1>3 DEF Twice, isLoopLatch
<1>8. ASSUME NEW d \in ToSet(succ[h]) PROVE (d \in Outward(h) <=> d \notin Body(h)) /\ d # h
  <2>1. d # h
    BY <1>7
  <2>2. d \in Outward(h) <=> (d \in loop[h].blocks => isLoopExiting(loop[h], d))
    BY DEF Outward, isExiting
  <2> QED
    BY <2>1, <2>2, <1>1 DEF Body
<1>9. Exits(h) \subseteq Outward(h)
  BY <1>8 DEF Exits, Body
<1> QED
  BY <1>1, <1>3, <1>4, <1>5, <1>6, <1>8, <1>9

\* What a header in the middle of its loop does first, and what after.
LEMMA CallsOfHeader ==
  ASSUME succ \in CFG, NEW h \in Blocks, Twice(h)
  PROVE  \E p \in DOMAIN Calls(h) :
           /\ Calls(h)[p] = push(h)
           /\ \A i \in DOMAIN Calls(h) : i < p => \E d \in Outward(h) : Calls(h)[i] = enqueue(d)
           /\ \A d \in Outward(h) : \E i \in DOMAIN Calls(h) : i < p /\ Calls(h)[i] = enqueue(d)
<1> DEFINE s == Pick(succ[h], Outward(h))
           t == Pick(succ[h], ToSet(succ[h]) \ Outward(h))
           A == Enqueues(s)
           B == PushBack(h)
           C == Enqueues(t)
           AB == A \o B
           ABC == AB \o C
<1>1. succ[h] \in Seq(Blocks) /\ Outward(h) \subseteq ToSet(succ[h])
  BY DEF CFG, Outward
<1>2. s \in Seq(Blocks) /\ t \in Seq(Blocks) /\ ToSet(s) = Outward(h)
  BY <1>1, PickIsFilter
<1>3. Calls(h) = ABC \o PushBack(h)
  BY DEF Calls, Children, Twice
<1> HIDE DEF s, t
<1>4. A \in Seq(Items) /\ C \in Seq(Items) /\ ToSet(A) = {enqueue(d) : d \in Outward(h)}
  BY <1>2, EnqueuesOf
<1>5. B \in Seq(Items) /\ Len(B) = 1 /\ B[1] = push(h) /\ PushBack(h) \in Seq(Items) /\ 1 \in DOMAIN B
  <2>1. B = <<push(h)>> /\ push(h) \in Items
    BY DEF PushBack, push, Items
  <2> QED
    BY <2>1
<1> HIDE DEF A, B, C
<1> DEFINE n == Len(A)
<1>6. AB \in Seq(Items) /\ n \in Nat /\ DOMAIN A = 1 .. n
      /\ n + 1 \in DOMAIN AB /\ AB[n + 1] = push(h)
      /\ \A i \in DOMAIN A : i \in DOMAIN AB /\ AB[i] = A[i]
  BY <1>4, <1>5, PlacesInConcat, ConcatProperties
<1> HIDE DEF n, AB
<1>7. ABC \in Seq(Items) /\ \A i \in DOMAIN AB : i \in DOMAIN ABC /\ ABC[i] = AB[i]
  BY <1>4, <1>6, PlacesInConcat, ConcatProperties
<1> HIDE DEF ABC
<1>8. \A i \in DOMAIN ABC : i \in DOMAIN Calls(h) /\ Calls(h)[i] = ABC[i]
  BY <1>3, <1>5, <1>7, PlacesInConcat
<1>9. Calls(h) \in Seq(Items) /\ DOMAIN Calls(h) \subseteq Nat \ {0}
  <2>1. Calls(h) \in Seq(Items)
    BY CallsOf
  <2> QED
    BY <2>1, LenProperties
<1>10. n + 1 \in DOMAIN Calls(h) /\ Calls(h)[n + 1] = push(h)
  BY <1>6, <1>7, <1>8
<1>11. \A i \in 1 .. n : i \in DOMAIN Calls(h) /\ Calls(h)[i] = A[i]
  BY <1>6, <1>7, <1>8
<1>12. ASSUME NEW i \in DOMAIN Calls(h), i < n + 1 PROVE \E d \in Outward(h) : Calls(h)[i] = enqueue(d)
  <2>1. i \in 1 .. n
    BY <1>6, <1>9, <1>12
  <2>2. A[i] \in ToSet(A)
    BY <2>1, <1>6 DEF ToSet
  <2> QED
    BY <2>1, <2>2, <1>4, <1>11
<1>13. ASSUME NEW d \in Outward(h) PROVE \E i \in DOMAIN Calls(h) : i < n + 1 /\ Calls(h)[i] = enqueue(d)
  <2>1. PICK i \in DOMAIN A : A[i] = enqueue(d)
    BY <1>4 DEF ToSet
  <2>2. i \in 1 .. n /\ i < n + 1
    BY <2>1, <1>6
  <2> QED
    BY <2>1, <2>2, <1>11
<1> QED
  BY <1>10, <1>12, <1>13

LEMMA WholeInit == ScheduleInv /\ Init => WholeInv
<1> SUFFICES ASSUME ScheduleInv, Init, NEW h \in WholeHeaders
             PROVE  HeaderInv(h, Body(h), Exits(h), ForwardExits(h), Set, todo, Queue)
  BY DEF WholeInv
<1>1. Set = {} /\ Queue = <<>> /\ todo = Enqueues(<<Entry>>)
  BY DEF Init
<1>2. DOMAIN todo = {1} /\ todo[1] = enqueue(Entry)
  BY <1>1 DEF Enqueues, enqueue
<1>3. todo[1].bb = Entry /\ Entry \notin Body(h)
  BY <1>2, ItemFields, HeaderFacts
<1>4. DOMAIN Queue = {} /\ ToSet(Queue) = {}
  BY <1>1 DEF ToSet
<1> DEFINE B == Body(h)
           D == Exits(h)
           E == ForwardExits(h)
<1> HIDE DEF B, D, E
<1>5. Enclosed(h, B, todo) /\ Untouched(h, B, Set, todo, Queue)
  BY <1>1, <1>2, <1>3 DEF Enclosed, Untouched, B
<1>6. Between(h, B, todo, Queue) /\ ExitsFirst(h, D, Set, todo, Queue) /\ ExitsDone(h, E, Set, todo, Queue)
  BY <1>1, <1>4 DEF Between, ExitsFirst, ExitsDone
<1> QED
  BY <1>5, <1>6 DEF HeaderInv, B, D, E

\* The order around a header, once the first item is done.
LEMMA HeaderOfRest ==
  ASSUME NEW s \in Seq(Items), s # <<>>, NEW h, NEW B, NEW D, NEW S, NEW Q
  PROVE  /\ Enclosed(h, B, s) => Enclosed(h, B, Tail(s))
         /\ Untouched(h, B, S, s, Q) /\ s[1] # push(h) => Untouched(h, B, S, Tail(s), Q)
         /\ ExitsFirst(h, D, S, s, Q) /\ (\A d \in D : s[1] = enqueue(d) => d \in S)
              => ExitsFirst(h, D, S, Tail(s), Q)
<1> DEFINE t == Tail(s)
<1>1. /\ DOMAIN s \subseteq Nat
      /\ \A i \in DOMAIN t : i + 1 \in DOMAIN s /\ i + 1 # 1 /\ t[i] = s[i + 1]
      /\ \A i \in DOMAIN s : i = 1 \/ (i - 1 \in DOMAIN t /\ t[i - 1] = s[i])
  BY PlacesInTail
<1>2. DOMAIN t \subseteq Nat \ {0}
  <2>1. t \in Seq(Items)
    BY HeadTailProperties
  <2> QED
    BY <2>1, LenProperties
<1> HIDE DEF t
<1>3. ASSUME Enclosed(h, B, s) PROVE Enclosed(h, B, t)
  <2> SUFFICES ASSUME NEW i \in DOMAIN t, t[i].bb \in B
               PROVE  \E j \in DOMAIN t : j > i /\ t[j] = push(h)
    BY DEF Enclosed
  <2>1. PICK j \in DOMAIN s : j > i + 1 /\ s[j] = push(h)
    BY <1>1, <1>3 DEF Enclosed
  <2>2. j # 1 /\ j \in Nat /\ i \in Nat
    BY <2>1, <1>1, <1>2
  <2>3. j - 1 \in DOMAIN t /\ t[j - 1] = push(h) /\ j - 1 > i
    BY <2>1, <2>2, <1>1
  <2> QED
    BY <2>3
<1>4. ASSUME Untouched(h, B, S, s, Q), s[1] # push(h) PROVE Untouched(h, B, S, t, Q)
  <2> SUFFICES ASSUME h \notin ToSet(Q)
               PROVE  /\ S \cap B = {}
                      /\ \A i \in DOMAIN t : t[i].do = "enqueue" /\ t[i].bb \in B =>
                           \E j \in DOMAIN t : j < i /\ t[j] = push(h)
    BY DEF Untouched
  <2>1. S \cap B = {}
    BY <1>4 DEF Untouched
  <2>2. ASSUME NEW i \in DOMAIN t, t[i].do = "enqueue", t[i].bb \in B
        PROVE  \E j \in DOMAIN t : j < i /\ t[j] = push(h)
    <3>1. PICK j \in DOMAIN s : j < i + 1 /\ s[j] = push(h)
      BY <1>1, <1>4, <2>2 DEF Untouched
    <3>2. j # 1 /\ j \in Nat /\ i \in Nat
      BY <3>1, <1>1, <1>2, <1>4
    <3>3. j - 1 \in DOMAIN t /\ t[j - 1] = push(h) /\ j - 1 < i
      BY <3>1, <3>2, <1>1
    <3> QED
      BY <3>3
  <2> QED
    BY <2>1, <2>2
<1>5. ASSUME ExitsFirst(h, D, S, s, Q), \A d \in D : s[1] = enqueue(d) => d \in S
      PROVE  ExitsFirst(h, D, S, t, Q)
  <2> SUFFICES ASSUME h \in S, h \notin ToSet(Q), NEW d \in D, d \notin S
               PROVE  \E i \in DOMAIN t : t[i] = enqueue(d) /\ \A j \in DOMAIN t : t[j] = push(h) => i < j
    BY DEF ExitsFirst
  <2>1. PICK i \in DOMAIN s : s[i] = enqueue(d) /\ \A j \in DOMAIN s : s[j] = push(h) => i < j
    BY <1>5 DEF ExitsFirst
  <2>2. i # 1
    BY <2>1, <1>5
  <2>3. i - 1 \in DOMAIN t /\ t[i - 1] = enqueue(d)
    BY <2>1, <2>2, <1>1
  <2>4. ASSUME NEW j \in DOMAIN t, t[j] = push(h) PROVE i - 1 < j
    <3>1. i < j + 1
      BY <2>1, <2>4, <1>1
    <3> QED
      BY <3>1, <1>1, <1>2
  <2> QED
    BY <2>3, <2>4
<1> QED
  BY <1>3, <1>4, <1>5 DEF t

\* A block visited before is passed by.
LEMMA HeaderPassed ==
  ASSUME NEW h \in WholeHeaders, NEW B, NEW D, NEW E, todo \in Seq(Items), AlreadyVisited,
         HeaderInv(h, B, D, E, Set, todo, Queue)
  PROVE  HeaderInv(h, B, D, E, Set', todo', Queue')
<1> DEFINE b == Head(todo).bb
           rest == Tail(todo)
<1>1. todo # <<>> /\ Head(todo).do = "enqueue" /\ b \in Set /\ todo' = rest /\ Queue' = Queue /\ Set' = Set
  BY DEF AlreadyVisited, AtItem
<1>2. Head(todo) = enqueue(b) /\ ToSet(todo) = {Head(todo)} \cup ToSet(rest) /\ todo[1] = Head(todo)
  BY <1>1, FirstItem, PlacesInTail
<1> HIDE DEF b
<1>3. Enclosed(h, B, rest) /\ Untouched(h, B, Set, rest, Queue) /\ ExitsFirst(h, D, Set, rest, Queue)
  <2>1. todo[1] # push(h) /\ \A d \in D : todo[1] = enqueue(d) => d \in Set
    BY <1>1, <1>2, ItemsDiffer
  <2>2. Enclosed(h, B, todo) /\ Untouched(h, B, Set, todo, Queue) /\ ExitsFirst(h, D, Set, todo, Queue)
    BY DEF HeaderInv
  <2> QED
    BY <1>1, <2>1, <2>2, HeaderOfRest
<1> HIDE DEF rest
<1>4. \A d : push(d) \in ToSet(todo) <=> push(d) \in ToSet(rest)
  BY <1>2, ItemsDiffer
<1>5. Between(h, B, rest, Queue)
  BY <1>4 DEF HeaderInv, Between
<1>6. ExitsDone(h, E, Set, rest, Queue)
  BY <1>4 DEF HeaderInv, ExitsDone
<1> QED
  BY <1>1, <1>3, <1>5, <1>6 DEF HeaderInv

\* A block is queued: the header itself, a block of its body, or another.
LEMMA HeaderPushed ==
  ASSUME ScheduleInv, OrderInv, Push, NEW h \in WholeHeaders,
         HeaderInv(h, Body(h), Exits(h), ForwardExits(h), Set, todo, Queue)
  PROVE  HeaderInv(h, Body(h), Exits(h), ForwardExits(h), Set', todo', Queue')
<1> DEFINE F == Forward(succ)
           B == Body(h)
           D == Exits(h)
           E == ForwardExits(h)
           c == Head(todo).bb
           rest == Tail(todo)
           n == Len(Queue)
<1>1. /\ succ \in Graphs /\ succ \in CFG /\ todo \in Seq(Items) /\ Queue \in Seq(Set)
      /\ Set \subseteq Reachable(succ) /\ Set \subseteq Blocks
  BY ReachableIsClosed DEF ScheduleInv, TypeOK
<1>2. todo # <<>> /\ Head(todo).do = "push" /\ todo' = rest /\ Queue' = Append(Queue, c) /\ Set' = Set
  BY DEF Push, AtItem
<1>3. /\ Head(todo) = push(c) /\ ToSet(todo) = {push(c)} \cup ToSet(rest) /\ todo[1] = push(c)
      /\ rest \in Seq(Items) /\ 1 \in DOMAIN todo /\ DOMAIN todo \subseteq Nat
  BY <1>1, <1>2, FirstItem, PlacesInTail
<1>4. DOMAIN rest \subseteq Nat \ {0}
  BY <1>3, LenProperties
<1>5. c \in Set
  <2>1. Queue' \in Seq(Set)
    <3>1. ScheduleInv'
      BY ScheduleStep DEF Next
    <3> QED
      BY <3>1, <1>2 DEF ScheduleInv, TypeOK
  <2>2. Len(Queue') = n + 1 /\ Queue'[n + 1] = c /\ n \in Nat
    BY <1>1, <1>2, LenProperties
  <2>3. n + 1 \in 1 .. Len(Queue')
    BY <2>2
  <2> QED
    BY <2>1, <2>2, <2>3, ElementOfSeq
<1>6. /\ DOMAIN Queue = 1 .. n /\ n \in Nat /\ DOMAIN Queue' = 1 .. (n + 1)
      /\ Queue'[n + 1] = c
      /\ \A k \in DOMAIN Queue : Queue'[k] = Queue[k]
  BY <1>1, <1>2, <1>5, AppendProperties, LenProperties
<1>7. h \in Blocks /\ h \notin B
  BY HeaderFacts
<1>8. E \subseteq D /\ \A d \in E : Reducible /\ d \in ToSet(F[h])
  BY <1>1, <1>7, ForwardEdges DEF ForwardExits, Exits
<1>9. /\ Enclosed(h, B, todo) /\ Untouched(h, B, Set, todo, Queue) /\ Between(h, B, todo, Queue)
      /\ ExitsFirst(h, D, Set, todo, Queue) /\ ExitsDone(h, E, Set, todo, Queue)
  BY DEF HeaderInv
<1>10. Below(F, rest, 0, c)
  <2>1. Nested(F, todo)
    BY DEF OrderInv
  <2>2. Below(F, todo, 0 + 1, c)
    BY <2>1, <1>2, <1>3 DEF Nested
  <2> HIDE DEF F, c
  <2> QED
    BY <2>2, <1>1, <1>2, BelowInTail
<1> HIDE DEF F, B, D, E, c, n
<1>11. Enclosed(h, B, rest)
  BY <1>1, <1>2, <1>9, HeaderOfRest
<1>12. CASE c = h
  <2>1. h \in ToSet(Queue') /\ h \in Set
    <3>1. n + 1 \in DOMAIN Queue'
      BY <1>6
    <3> QED
      BY <3>1, <1>5, <1>6, <1>12 DEF ToSet
  <2>2. Untouched(h, B, Set', rest, Queue') /\ ExitsFirst(h, D, Set', rest, Queue')
    BY <2>1 DEF Untouched, ExitsFirst
  <2>3. Between(h, B, rest, Queue')
    <3> SUFFICES ASSUME NEW k \in DOMAIN Queue', Queue'[k] \in B
                 PROVE  /\ \E m \in DOMAIN Queue' : m < k /\ Queue'[m] = h
                        /\ push(h) \in ToSet(rest) \/ \E m \in DOMAIN Queue' : m > k /\ Queue'[m] = h
      BY DEF Between
    <3>1. k \in DOMAIN Queue /\ Queue[k] \in B
      BY <1>6, <1>7, <1>12
    <3>2. PICK m \in DOMAIN Queue : m < k /\ Queue[m] = h
      BY <3>1, <1>9 DEF Between
    <3>3. m \in DOMAIN Queue' /\ Queue'[m] = h /\ n + 1 \in DOMAIN Queue' /\ n + 1 > k
      BY <3>1, <3>2, <1>6
    <3> QED
      BY <3>2, <3>3, <1>6, <1>12
  <2>4. ExitsDone(h, E, Set', rest, Queue')
    <3> SUFFICES ASSUME NEW d \in E
                 PROVE  /\ d \in Set /\ push(d) \notin ToSet(rest)
                        /\ \A k, m \in DOMAIN Queue' : Queue'[k] = h /\ Queue'[m] = d => m < k
      BY <1>2 DEF ExitsDone
    <3>1. h \notin Reach(F, {d}, {}) /\ h # d
      <4>1. h \in Reachable(succ) /\ Reducible /\ d \in ToSet(Forward(succ)[h])
        BY <1>1, <1>8, <2>1 DEF F
      <4> QED
        BY <4>1, <1>1, NoCycle DEF F
    <3>2. push(d) \notin ToSet(rest)
      <4> SUFFICES ASSUME NEW j \in DOMAIN rest, rest[j] = push(d) PROVE FALSE
        BY DEF ToSet
      <4>1. j > 0 /\ rest[j].do = "push" /\ rest[j].bb = d
        BY <1>4, ItemFields
      <4> QED
        BY <4>1, <1>10, <1>12, <3>1 DEF Below
    <3>3. \A m \in DOMAIN Queue' : Queue'[m] = d => m \in DOMAIN Queue /\ Queue[m] = d /\ m < n + 1
      BY <3>1, <1>6, <1>12
    <3>4. CASE h \in ToSet(Queue)
      <4>1. d \in Set /\ \A k, m \in DOMAIN Queue : Queue[k] = h /\ Queue[m] = d => m < k
        BY <3>4, <1>9 DEF ExitsDone
      <4>2. \A k \in DOMAIN Queue' : k = n + 1 \/ (k \in DOMAIN Queue /\ Queue'[k] = Queue[k])
        BY <1>6
      <4> QED
        BY <3>2, <3>3, <4>1, <4>2
    <3>5. CASE h \notin ToSet(Queue)
      <4>1. d \in Set
        <5> SUFFICES ASSUME d \notin Set PROVE FALSE
          OBVIOUS
        <5>1. PICK i \in DOMAIN todo : todo[i] = enqueue(d) /\ \A j \in DOMAIN todo : todo[j] = push(h) => i < j
          BY <2>1, <3>5, <1>8, <1>9 DEF ExitsFirst
        <5>2. i < 1 /\ i \in DOMAIN todo
          BY <5>1, <1>3, <1>12
        <5>3. DOMAIN todo \subseteq Nat \ {0}
          BY <1>1, LenProperties
        <5> QED
          BY <5>2, <5>3
      <4>2. \A k \in DOMAIN Queue' : Queue'[k] = h => k = n + 1
        BY <3>5, <1>6 DEF ToSet
      <4> QED
        BY <3>2, <3>3, <4>1, <4>2
    <3> QED
      BY <3>4, <3>5
  <2> QED
    BY <1>2, <1>11, <2>2, <2>3, <2>4 DEF HeaderInv, B, D, E
<1>13. CASE c # h
  <2>1. h \in ToSet(Queue') <=> h \in ToSet(Queue)
    BY <1>6, <1>13 DEF ToSet
  <2>2. todo[1] # push(h) /\ (\A d \in D : todo[1] # enqueue(d))
        /\ (push(h) \in ToSet(todo) <=> push(h) \in ToSet(rest))
    BY <1>3, <1>13, ItemsDiffer
  <2>3. Untouched(h, B, Set, rest, Queue) /\ ExitsFirst(h, D, Set, rest, Queue)
    BY <1>1, <1>2, <1>9, <2>2, HeaderOfRest
  <2>4. Untouched(h, B, Set', rest, Queue') /\ ExitsFirst(h, D, Set', rest, Queue')
    BY <1>2, <2>1, <2>3 DEF Untouched, ExitsFirst
  <2>5. Between(h, B, rest, Queue')
    <3> SUFFICES ASSUME NEW k \in DOMAIN Queue', Queue'[k] \in B
                 PROVE  /\ \E m \in DOMAIN Queue' : m < k /\ Queue'[m] = h
                        /\ push(h) \in ToSet(rest) \/ \E m \in DOMAIN Queue' : m > k /\ Queue'[m] = h
      BY DEF Between
    <3>1. CASE k \in DOMAIN Queue
      <4>1. Queue[k] \in B
        BY <3>1, <1>6
      <4>2. /\ \E m \in DOMAIN Queue : m < k /\ Queue[m] = h
            /\ push(h) \in ToSet(todo) \/ \E m \in DOMAIN Queue : m > k /\ Queue[m] = h
        BY <3>1, <4>1, <1>9 DEF Between
      <4>3. \A m \in DOMAIN Queue : m \in DOMAIN Queue' /\ Queue'[m] = Queue[m]
        BY <1>6
      <4> QED
        BY <4>2, <4>3, <2>2
    <3>2. CASE k \notin DOMAIN Queue
      <4>1. k = n + 1 /\ c \in B
        BY <3>2, <1>6
      <4>2. h \in ToSet(Queue)
        BY <4>1, <1>5, <1>9 DEF Untouched
      <4>3. PICK m \in DOMAIN Queue : Queue[m] = h
        BY <4>2 DEF ToSet
      <4>4. m \in DOMAIN Queue' /\ Queue'[m] = h /\ m < k
        BY <4>1, <4>3, <1>6
      <4>5. push(h) \in ToSet(rest)
        <5>1. todo[1].bb \in B
          BY <4>1, <1>3, ItemFields
        <5>2. PICK j \in DOMAIN todo : todo[j] = push(h)
          BY <5>1, <1>3, <1>9 DEF Enclosed
        <5> QED
          BY <5>2, <2>2 DEF ToSet
      <4> QED
        BY <4>4, <4>5
    <3> QED
      BY <3>1, <3>2
  <2>6. ExitsDone(h, E, Set', rest, Queue')
    <3> SUFFICES ASSUME h \in ToSet(Queue), NEW d \in E
                 PROVE  /\ d \in Set /\ push(d) \notin ToSet(rest)
                        /\ \A k, m \in DOMAIN Queue' : Queue'[k] = h /\ Queue'[m] = d => m < k
      BY <1>2, <2>1 DEF ExitsDone
    <3>1. /\ d \in Set /\ push(d) \notin ToSet(todo)
          /\ \A k, m \in DOMAIN Queue : Queue[k] = h /\ Queue[m] = d => m < k
      BY <1>9 DEF ExitsDone
    <3>2. d # c /\ push(d) \notin ToSet(rest)
      BY <3>1, <1>3
    <3>3. \A k \in DOMAIN Queue' : Queue'[k] = h \/ Queue'[k] = d => k \in DOMAIN Queue /\ Queue'[k] = Queue[k]
      BY <3>2, <1>6, <1>13
    <3> QED
      BY <3>1, <3>2, <3>3
  <2> QED
    BY <1>2, <1>11, <2>4, <2>5, <2>6 DEF HeaderInv, B, D, E
<1> QED
  BY <1>12, <1>13

\* A block is visited: the header itself, a block of its body, or another.
LEMMA HeaderVisited ==
  ASSUME ScheduleInv, Visit, NEW h \in WholeHeaders,
         HeaderInv(h, Body(h), Exits(h), ForwardExits(h), Set, todo, Queue)
  PROVE  HeaderInv(h, Body(h), Exits(h), ForwardExits(h), Set', todo', Queue')
<1> DEFINE B == Body(h)
           D == Exits(h)
           E == ForwardExits(h)
           c == Head(todo).bb
           rest == Tail(todo)
           K == Calls(c)
           L == K \o rest
           n == Len(K)
<1>1. /\ succ \in Graphs /\ succ \in CFG /\ todo \in Seq(Items) /\ Queue \in Seq(Set)
      /\ Set \subseteq Reachable(succ) /\ Set \subseteq Blocks
  BY ReachableIsClosed DEF ScheduleInv, TypeOK
<1>2. todo # <<>> /\ Head(todo).do = "enqueue" /\ c \notin Set /\ todo' = L /\ Queue' = Queue
      /\ Set' = Set \cup {c}
  BY DEF Visit, AtItem
<1>3. /\ Head(todo) = enqueue(c) /\ ToSet(todo) = {enqueue(c)} \cup ToSet(rest) /\ todo[1] = enqueue(c)
      /\ rest \in Seq(Items) /\ 1 \in DOMAIN todo /\ c \in Blocks
      /\ \A i \in DOMAIN todo : i = 1 \/ (i - 1 \in DOMAIN rest /\ rest[i - 1] = todo[i])
  BY <1>1, <1>2, FirstItem, PlacesInTail
<1>4. c \in Reachable(succ)
  BY <1>3 DEF ScheduleInv
<1>5. /\ h \in Blocks /\ Twice(h) /\ h \notin B
      /\ \A u \in Reachable(succ) \ {h} : ToSet(succ[u]) \cap B # {} => u \in B
      /\ \A d \in ToSet(succ[h]) : (d \in Outward(h) <=> d \notin B) /\ d # h
      /\ D \subseteq Outward(h)
  BY HeaderFacts
<1>6. /\ Enclosed(h, B, todo) /\ Untouched(h, B, Set, todo, Queue) /\ Between(h, B, todo, Queue)
      /\ ExitsFirst(h, D, Set, todo, Queue) /\ ExitsDone(h, E, Set, todo, Queue)
  BY DEF HeaderInv
<1>7. /\ K \in Seq(Items) /\ ToSet(K) = {enqueue(d) : d \in ToSet(succ[c])} \cup {push(c)}
      /\ DOMAIN K = 1 .. n /\ n \in Nat /\ n \in DOMAIN K /\ K[n] = push(c)
      /\ \A i \in DOMAIN K : K[i] = push(c) \/ \E d \in ToSet(succ[c]) : K[i] = enqueue(d) /\ i < n
  BY <1>1, <1>3, CallsOf, LastCall
<1>8. Outward(h) \subseteq ToSet(succ[h])
  BY DEF Outward
<1>9. c = h => \E p \in DOMAIN K :
           /\ K[p] = push(h)
           /\ \A i \in DOMAIN K : i < p => \E d \in Outward(h) : K[i] = enqueue(d)
           /\ \A d \in Outward(h) : \E i \in DOMAIN K : i < p /\ K[i] = enqueue(d)
  BY <1>1, <1>5, CallsOfHeader
<1> HIDE DEF B, D, E, c, K
<1>10. /\ \A i \in DOMAIN K : i \in DOMAIN L /\ L[i] = K[i]
       /\ \A i \in DOMAIN rest : n + i \in DOMAIN L /\ L[n + i] = rest[i]
       /\ \A i \in DOMAIN L :
              \/ i \in DOMAIN K /\ L[i] = K[i]
              \/ i - n \in DOMAIN rest /\ i > n /\ L[i] = rest[i - n]
       /\ ToSet(L) = ToSet(K) \cup ToSet(rest)
  <2> DEFINE r == rest
  <2>1. r \in Seq(Items) /\ K \in Seq(Items)
    BY <1>3, <1>7
  <2> HIDE DEF r
  <2>2. /\ \A i \in DOMAIN K : i \in DOMAIN (K \o r) /\ (K \o r)[i] = K[i]
        /\ \A i \in DOMAIN r : Len(K) + i \in DOMAIN (K \o r) /\ (K \o r)[Len(K) + i] = r[i]
        /\ \A i \in DOMAIN (K \o r) :
              \/ i \in DOMAIN K /\ (K \o r)[i] = K[i]
              \/ i - Len(K) \in DOMAIN r /\ i > Len(K) /\ (K \o r)[i] = r[i - Len(K)]
    BY <2>1, PlacesInConcat
  <2>3. ToSet(K \o r) = ToSet(K) \cup ToSet(r)
    BY <2>1, ElementsOfConcat
  <2> QED
    BY <2>2, <2>3 DEF r
<1>11. DOMAIN L \subseteq Nat \ {0} /\ DOMAIN rest \subseteq Nat \ {0} /\ DOMAIN todo \subseteq Nat \ {0}
  <2>1. L \in Seq(Items)
    BY <1>3, <1>7, ConcatProperties
  <2> QED
    BY <2>1, <1>1, <1>3, LenProperties
<1>12. todo[1] # push(h) /\ Enclosed(h, B, rest) /\ Untouched(h, B, Set, rest, Queue)
  <2>1. todo[1] # push(h)
    BY <1>3, ItemsDiffer
  <2> QED
    BY <2>1, <1>1, <1>2, <1>6, HeaderOfRest
<1> HIDE DEF rest, L, n
<1>13. push(h) \in ToSet(todo) => push(h) \in ToSet(L)
  BY <1>3, <1>10, ItemsDiffer
<1>14. Between(h, B, L, Queue)
  BY <1>6, <1>13 DEF Between
<1>15. h \in ToSet(Queue) => h \in Set
  <2>1. \A k \in DOMAIN Queue : Queue[k] \in Set
    BY <1>1, LenProperties, ElementOfSeq
  <2> QED
    BY <2>1 DEF ToSet
<1>16. CASE c = h
  <2>1. h \notin Set /\ h \notin ToSet(Queue)
    BY <1>2, <1>15, <1>16
  <2>2. push(h) \notin ToSet(todo) /\ push(h) \notin ToSet(rest)
    <3>1. Count(Queue, h) + Count(todo, push(h)) = 0
      BY <2>1, <1>5 DEF ScheduleInv
    <3>2. Count(Queue, h) \in Nat /\ Count(todo, push(h)) \in Nat
          /\ (Count(todo, push(h)) = 0 <=> push(h) \notin ToSet(todo))
      BY <1>1, CountIsNat
    <3> QED
      BY <3>1, <3>2, <1>3
  <2>3. \A j \in DOMAIN rest : rest[j] # push(h)
    BY <2>2 DEF ToSet
  <2>4. PICK p \in DOMAIN K :
           /\ K[p] = push(h)
           /\ \A i \in DOMAIN K : i < p => \E d \in Outward(h) : K[i] = enqueue(d)
           /\ \A d \in Outward(h) : \E i \in DOMAIN K : i < p /\ K[i] = enqueue(d)
    BY <1>9, <1>16
  <2>5. p \in 1 .. n
    BY <2>4, <1>7
  <2>6. Enclosed(h, B, L)
    <3> SUFFICES ASSUME NEW i \in DOMAIN L, L[i].bb \in B
                 PROVE  \E j \in DOMAIN L : j > i /\ L[j] = push(h)
      BY DEF Enclosed
    <3>1. CASE i \in DOMAIN K /\ L[i] = K[i]
      <4>1. K[i] # push(h)
        BY <3>1, <1>5, ItemFields
      <4>2. i < n
        BY <4>1, <3>1, <1>7, <1>16
      <4>3. n \in DOMAIN L /\ L[n] = push(h) /\ i \in Nat
        BY <1>7, <1>10, <1>11, <1>16
      <4> QED
        BY <4>2, <4>3, <1>7
    <3>2. CASE i - n \in DOMAIN rest /\ i > n /\ L[i] = rest[i - n]
      <4>1. \E j \in DOMAIN rest : rest[j] = push(h)
        BY <3>2, <1>12 DEF Enclosed
      <4> QED
        BY <4>1, <2>3
    <3> QED
      BY <3>1, <3>2, <1>10
  <2>7. Untouched(h, B, Set', L, Queue)
    <3>1. Set' \cap B = {}
      BY <2>1, <1>2, <1>5, <1>6, <1>16 DEF Untouched
    <3>2. ASSUME NEW i \in DOMAIN L, L[i].do = "enqueue", L[i].bb \in B
          PROVE  \E j \in DOMAIN L : j < i /\ L[j] = push(h)
      <4>1. p \in DOMAIN L /\ L[p] = push(h)
        BY <2>4, <1>10
      <4>2. p < i
        <5>1. CASE i \in DOMAIN K /\ L[i] = K[i]
          <6>1. i # p
            BY <3>2, <4>1, ItemFields
          <6>2. ~ (i < p)
            <7> SUFFICES ASSUME i < p PROVE FALSE
              OBVIOUS
            <7>1. PICK d \in Outward(h) : K[i] = enqueue(d)
              BY <5>1, <2>4
            <7>2. d \in B
              BY <7>1, <3>2, <5>1, ItemFields
            <7> QED
              BY <7>2, <1>5, <1>8
          <6> QED
            BY <6>1, <6>2, <5>1, <2>5, <1>7
        <5>2. CASE i - n \in DOMAIN rest /\ i > n /\ L[i] = rest[i - n]
          BY <5>2, <2>5, <1>7, <1>11
        <5> QED
          BY <5>1, <5>2, <1>10
      <4> QED
        BY <4>1, <4>2
    <3> QED
      BY <3>1, <3>2 DEF Untouched
  <2>8. ExitsFirst(h, D, Set', L, Queue)
    <3> SUFFICES ASSUME NEW d \in D
                 PROVE  \E i \in DOMAIN L : L[i] = enqueue(d) /\ \A j \in DOMAIN L : L[j] = push(h) => i < j
      BY DEF ExitsFirst
    <3>1. PICK i \in DOMAIN K : i < p /\ K[i] = enqueue(d)
      BY <2>4, <1>5
    <3>2. i \in DOMAIN L /\ L[i] = enqueue(d)
      BY <3>1, <1>10
    <3>3. ASSUME NEW j \in DOMAIN L, L[j] = push(h) PROVE i < j
      <4>1. CASE j \in DOMAIN K /\ L[j] = K[j]
        <5>1. ~ (j < p)
          <6> SUFFICES ASSUME j < p PROVE FALSE
            OBVIOUS
          <6>1. PICK e \in Outward(h) : K[j] = enqueue(e)
            BY <4>1, <2>4
          <6> QED
            BY <6>1, <4>1, <3>3, ItemsDiffer
        <5> QED
          BY <5>1, <3>1, <4>1, <2>5, <1>7
      <4>2. CASE j - n \in DOMAIN rest /\ j > n /\ L[j] = rest[j - n]
        BY <4>2, <3>3, <2>3
      <4> QED
        BY <4>1, <4>2, <1>10
    <3> QED
      BY <3>2, <3>3
  <2>9. ExitsDone(h, E, Set', L, Queue)
    BY <2>1 DEF ExitsDone
  <2> QED
    BY <1>2, <1>14, <2>6, <2>7, <2>8, <2>9 DEF HeaderInv, B, D, E, L, rest, K, c
<1>17. CASE c # h
  <2>1. h \in Set' <=> h \in Set
    BY <1>2, <1>17
  <2>2. c \in B => h \in ToSet(Queue)
    <3> SUFFICES ASSUME c \in B, h \notin ToSet(Queue) PROVE FALSE
      OBVIOUS
    <3>1. todo[1].do = "enqueue" /\ todo[1].bb \in B
      BY <1>3, ItemFields
    <3>2. PICK j \in DOMAIN todo : j < 1
      BY <3>1, <1>3, <1>6 DEF Untouched
    <3> QED
      BY <3>2, <1>11
  <2>3. c \in B => \E j \in DOMAIN rest : rest[j] = push(h)
    <3> SUFFICES ASSUME c \in B PROVE \E j \in DOMAIN rest : rest[j] = push(h)
      OBVIOUS
    <3>1. todo[1].bb \in B
      BY <1>3, ItemFields
    <3>2. PICK j \in DOMAIN todo : j > 1 /\ todo[j] = push(h)
      BY <3>1, <1>3, <1>6 DEF Enclosed
    <3>3. j # 1
      BY <3>2
    <3> QED
      BY <3>2, <3>3, <1>3
  <2>4. \A i \in DOMAIN K : K[i].bb \in B => c \in B
    <3> SUFFICES ASSUME NEW i \in DOMAIN K, K[i].bb \in B PROVE c \in B
      OBVIOUS
    <3>1. CASE K[i] = push(c)
      BY <3>1, ItemFields
    <3>2. CASE \E d \in ToSet(succ[c]) : K[i] = enqueue(d)
      <4>1. PICK d \in ToSet(succ[c]) : K[i] = enqueue(d)
        BY <3>2
      <4>2. d \in B
        BY <4>1, ItemFields
      <4> QED
        BY <4>1, <4>2, <1>4, <1>5, <1>17
    <3> QED
      BY <3>1, <3>2, <1>7
  <2>5. Enclosed(h, B, L)
    <3> SUFFICES ASSUME NEW i \in DOMAIN L, L[i].bb \in B
                 PROVE  \E j \in DOMAIN L : j > i /\ L[j] = push(h)
      BY DEF Enclosed
    <3>1. CASE i \in DOMAIN K /\ L[i] = K[i]
      <4>1. PICK j \in DOMAIN rest : rest[j] = push(h)
        BY <3>1, <2>3, <2>4
      <4>2. n + j \in DOMAIN L /\ L[n + j] = push(h)
        BY <4>1, <1>10
      <4>3. n + j > i
        BY <4>1, <3>1, <1>7, <1>11
      <4> QED
        BY <4>2, <4>3
    <3>2. CASE i - n \in DOMAIN rest /\ i > n /\ L[i] = rest[i - n]
      <4>1. PICK j \in DOMAIN rest : j > i - n /\ rest[j] = push(h)
        BY <3>2, <1>12 DEF Enclosed
      <4>2. n + j \in DOMAIN L /\ L[n + j] = push(h)
        BY <4>1, <1>10
      <4>3. n + j > i
        BY <4>1, <1>7, <1>11
      <4> QED
        BY <4>2, <4>3
    <3> QED
      BY <3>1, <3>2, <1>10
  <2>6. Untouched(h, B, Set', L, Queue)
    <3> SUFFICES ASSUME h \notin ToSet(Queue)
                 PROVE  /\ Set' \cap B = {}
                        /\ \A i \in DOMAIN L : L[i].do = "enqueue" /\ L[i].bb \in B =>
                             \E j \in DOMAIN L : j < i /\ L[j] = push(h)
      BY DEF Untouched
    <3>1. c \notin B
      BY <2>2
    <3>2. Set' \cap B = {}
      BY <3>1, <1>2, <1>6 DEF Untouched
    <3>3. ASSUME NEW i \in DOMAIN L, L[i].do = "enqueue", L[i].bb \in B
          PROVE  \E j \in DOMAIN L : j < i /\ L[j] = push(h)
      <4>1. i - n \in DOMAIN rest /\ L[i] = rest[i - n]
        BY <3>1, <3>3, <2>4, <1>10
      <4>2. PICK j \in DOMAIN rest : j < i - n /\ rest[j] = push(h)
        BY <4>1, <3>3, <1>12 DEF Untouched
      <4>3. n + j \in DOMAIN L /\ L[n + j] = push(h)
        BY <4>2, <1>10
      <4>4. n + j < i
        BY <4>2, <1>7, <1>11
      <4> QED
        BY <4>3, <4>4
    <3> QED
      BY <3>2, <3>3
  <2>7. ExitsFirst(h, D, Set', L, Queue)
    <3>1. ExitsFirst(h, D, Set', todo, Queue)
      BY <2>1, <1>2, <1>6 DEF ExitsFirst
    <3>2. \A d \in D : todo[1] = enqueue(d) => d \in Set'
      BY <1>2, <1>3, ItemsDiffer
    <3>3. ExitsFirst(h, D, Set', rest, Queue)
      BY <3>1, <3>2, <1>1, <1>2, HeaderOfRest DEF rest
    <3> SUFFICES ASSUME h \in Set', h \notin ToSet(Queue), NEW d \in D, d \notin Set'
                 PROVE  \E i \in DOMAIN L : L[i] = enqueue(d) /\ \A j \in DOMAIN L : L[j] = push(h) => i < j
      BY DEF ExitsFirst
    <3>4. PICK i \in DOMAIN rest : rest[i] = enqueue(d) /\ \A j \in DOMAIN rest : rest[j] = push(h) => i < j
      BY <3>3 DEF ExitsFirst
    <3>5. n + i \in DOMAIN L /\ L[n + i] = enqueue(d)
      BY <3>4, <1>10
    <3>6. ASSUME NEW j \in DOMAIN L, L[j] = push(h) PROVE n + i < j
      <4>1. \A k \in DOMAIN K : K[k] # push(h)
        BY <1>7, <1>17, ItemsDiffer
      <4>2. j - n \in DOMAIN rest /\ rest[j - n] = push(h)
        BY <4>1, <3>6, <1>10
      <4>3. i < j - n
        BY <4>2, <3>4
      <4> QED
        BY <4>3, <3>4, <1>7, <1>11
    <3> QED
      BY <3>5, <3>6
  <2>8. ExitsDone(h, E, Set', L, Queue)
    <3> SUFFICES ASSUME h \in ToSet(Queue), NEW d \in E
                 PROVE  /\ d \in Set' /\ push(d) \notin ToSet(L)
                        /\ \A k, m \in DOMAIN Queue : Queue[k] = h /\ Queue[m] = d => m < k
      BY DEF ExitsDone
    <3>1. /\ d \in Set /\ push(d) \notin ToSet(todo)
          /\ \A k, m \in DOMAIN Queue : Queue[k] = h /\ Queue[m] = d => m < k
      BY <1>6 DEF ExitsDone
    <3>2. push(d) \notin ToSet(K)
      BY <3>1, <1>2, <1>7, ItemsDiffer
    <3> QED
      BY <3>1, <3>2, <1>2, <1>3, <1>10
  <2> QED
    BY <1>2, <1>14, <2>5, <2>6, <2>7, <2>8 DEF HeaderInv, B, D, E, L, rest, K, c
<1> QED
  BY <1>16, <1>17

LEMMA WholeStep == ScheduleInv /\ OrderInv /\ WholeInv /\ [Next]_vars => WholeInv'
<1> SUFFICES ASSUME ScheduleInv, OrderInv, WholeInv, [Next]_vars PROVE WholeInv'
  OBVIOUS
<1>1. succ' = succ /\ loop' = loop
  BY DEF Next, vars, AlreadyVisited, Visit, Push
<1>2. Reducible' = Reducible
  BY <1>1 DEF Reducible
<1>3. WholeHeaders' = WholeHeaders
  BY <1>1 DEF WholeHeaders, ExitingHeaders, isLoopExiting, isLoopLatch
<1>4. \A h : Body(h)' = Body(h) /\ Exits(h)' = Exits(h) /\ ForwardExits(h)' = ForwardExits(h)
  BY <1>1, <1>2 DEF Body, Exits, ForwardExits
<1> SUFFICES ASSUME NEW h \in WholeHeaders
             PROVE  HeaderInv(h, Body(h), Exits(h), ForwardExits(h), Set', todo', Queue')
  BY <1>3, <1>4 DEF WholeInv, HeaderInv, Enclosed, Untouched, Between, ExitsFirst, ExitsDone, enqueue, push
<1>5. HeaderInv(h, Body(h), Exits(h), ForwardExits(h), Set, todo, Queue)
  BY DEF WholeInv
<1>6. CASE UNCHANGED vars
  BY <1>5, <1>6 DEF vars
<1>7. CASE AlreadyVisited
  <2>1. todo \in Seq(Items)
    BY DEF ScheduleInv, TypeOK
  <2> QED
    BY <2>1, <1>5, <1>7, HeaderPassed
<1>8. CASE Visit
  BY <1>5, <1>8, HeaderVisited
<1>9. CASE Push
  BY <1>5, <1>9, HeaderPushed
<1> QED
  BY <1>6, <1>7, <1>8, <1>9 DEF Next

\* The first visit of a block is its last occurrence in Queue, the last visit its first.
LEMMA InvariantMeansWhole == ScheduleInv /\ OrderInv /\ WholeInv => WhileLoopsAreWhole
<1> SUFFICES ASSUME ScheduleInv, OrderInv, WholeInv, todo = <<>>, NEW h \in WholeHeaders
             PROVE  /\ \A b \in loop[h].blocks \ {h} :
                         FirstVisit(h) < FirstVisit(b) /\ LastVisit(b) < LastVisit(h)
                    /\ Reducible =>
                         \A d \in ToSet(succ[h]) \ loop[h].blocks :
                           <<h, d>> \in BackEdges(succ) \/ LastVisit(h) < FirstVisit(d)
  BY DEF WhileLoopsAreWhole, Scheduled, WholeHeaders
<1> DEFINE n == Len(Queue)
<1>1. /\ succ \in Graphs /\ succ \in CFG /\ Queue \in Seq(Set) /\ Reachable(succ) \subseteq Blocks
      /\ Set \subseteq Reachable(succ) /\ \A b \in Reachable(succ) : ToSet(succ[b]) \subseteq Reachable(succ)
  BY ReachableIsClosed DEF ScheduleInv, TypeOK
<1>2. n \in Nat /\ DOMAIN Queue = 1 .. n
  BY <1>1, LenProperties
<1>3. \A b \in Reachable(succ) : Positions(b) # {}
  BY <1>1, InvariantMeansScheduled DEF AllBlocksScheduled, Scheduled
<1>4. ToSet(todo) = {}
  BY DEF ToSet
<1>5. Body(h) \subseteq Reachable(succ) /\ h \in Blocks
  BY HeaderFacts
<1>6. HeaderInv(h, Body(h), Exits(h), ForwardExits(h), Set, todo, Queue)
  BY DEF WholeInv
<1>7. \A b \in Reachable(succ) :
        /\ FirstVisit(b) \in 1 .. n /\ LastVisit(b) \in 1 .. n
        /\ Queue[(n - FirstVisit(b)) + 1] = b /\ Queue[(n - LastVisit(b)) + 1] = b
        /\ \A k \in 1 .. n : Queue[k] = b => FirstVisit(b) <= (n - k) + 1 /\ (n - k) + 1 <= LastVisit(b)
  <2> SUFFICES ASSUME NEW b \in Reachable(succ)
               PROVE  /\ FirstVisit(b) \in 1 .. n /\ LastVisit(b) \in 1 .. n
                      /\ Queue[(n - FirstVisit(b)) + 1] = b /\ Queue[(n - LastVisit(b)) + 1] = b
                      /\ \A k \in 1 .. n : Queue[k] = b =>
                           FirstVisit(b) <= (n - k) + 1 /\ (n - k) + 1 <= LastVisit(b)
    OBVIOUS
  <2> QED
    BY <1>1, <1>2, <1>3, PositionsAre
<1>8. ASSUME NEW b \in Body(h)
      PROVE  FirstVisit(h) < FirstVisit(b) /\ LastVisit(b) < LastVisit(h) /\ h \in Reachable(succ)
  <2>1. b \in Reachable(succ)
    BY <1>5
  <2> DEFINE f == (n - FirstVisit(b)) + 1
             l == (n - LastVisit(b)) + 1
  <2>2. f \in 1 .. n /\ l \in 1 .. n /\ Queue[f] = b /\ Queue[l] = b
    BY <2>1, <1>2, <1>7
  <2>3. Between(h, Body(h), todo, Queue)
    BY <1>6 DEF HeaderInv
  <2> HIDE DEF n, f, l
  <2>4. PICK m \in 1 .. n : m < l /\ Queue[m] = h
    BY <2>2, <2>3, <1>2 DEF Between
  <2>5. PICK k \in 1 .. n : k > f /\ Queue[k] = h
    BY <2>2, <2>3, <1>2, <1>4 DEF Between
  <2>6. h \in Reachable(succ)
    <3>1. \A j \in 1 .. n : Queue[j] \in Set
      BY <1>1, <1>2, LenProperties, ElementOfSeq DEF n
    <3> QED
      BY <3>1, <2>4, <1>1
  <2>7. (n - m) + 1 <= LastVisit(h) /\ FirstVisit(h) <= (n - k) + 1
        /\ LastVisit(h) \in 1 .. n /\ FirstVisit(h) \in 1 .. n
    BY <2>4, <2>5, <2>6, <1>7
  <2>8. FirstVisit(b) \in 1 .. n /\ LastVisit(b) \in 1 .. n
    BY <2>1, <1>7
  <2>9. FirstVisit(h) < FirstVisit(b)
    BY <2>5, <2>7, <2>8, <1>2 DEF f
  <2>10. LastVisit(b) < LastVisit(h)
    BY <2>4, <2>7, <2>8, <1>2 DEF l
  <2> QED
    BY <2>6, <2>9, <2>10
<1>9. ASSUME Reducible, NEW d \in ToSet(succ[h]) \ loop[h].blocks, <<h, d>> \notin BackEdges(succ)
      PROVE  LastVisit(h) < FirstVisit(d)
  <2>1. d \in ForwardExits(h)
    BY <1>1, <1>5, <1>9, ForwardEdges DEF ForwardExits
  <2>2. h \in Reachable(succ)
    <3>1. loop[h] \in LoopsAround(succ, h)
      BY <1>5, <1>1, LoopInfoIs DEF WholeHeaders, ExitingHeaders, ScheduleInv
    <3>2. loop[h].header = h
      BY DEF WholeHeaders, ExitingHeaders
    <3> QED
      BY <3>1, <3>2, <1>1, LoopAround
  <2>3. d \in Reachable(succ)
    BY <2>2, <1>1, <1>9
  <2> DEFINE f == (n - FirstVisit(d)) + 1
             l == (n - LastVisit(h)) + 1
  <2>4. f \in 1 .. n /\ l \in 1 .. n /\ Queue[f] = d /\ Queue[l] = h
        /\ FirstVisit(d) \in 1 .. n /\ LastVisit(h) \in 1 .. n
    BY <2>2, <2>3, <1>2, <1>7
  <2>5. ExitsDone(h, ForwardExits(h), Set, todo, Queue)
    BY <1>6 DEF HeaderInv
  <2> HIDE DEF n, f, l
  <2>6. h \in ToSet(Queue)
    BY <2>4, <1>2 DEF ToSet
  <2>7. f < l
    BY <2>1, <2>4, <2>5, <2>6, <1>2 DEF ExitsDone
  <2> QED
    BY <2>4, <2>7, <1>2 DEF f, l
<1> QED
  BY <1>8, <1>9 DEF Body

\* In every execution, a loop that is left only from its header is evaluated as a
\* whole: header, body, header again, and what it is left to only then.
THEOREM LoopsEvaluatedWhole == Spec => []WhileLoopsAreWhole
<1>1. Init => ScheduleInv /\ OrderInv /\ WholeInv
  BY ScheduleInit, OrderInit, WholeInit
<1>2. (ScheduleInv /\ OrderInv /\ WholeInv) /\ [Next]_vars => (ScheduleInv /\ OrderInv /\ WholeInv)'
  BY ScheduleStep, OrderStep, WholeStep
<1> QED
  BY <1>1, <1>2, InvariantMeansWhole, PTL DEF Spec
=============================================================================
