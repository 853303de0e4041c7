-------------------------- MODULE MemSSAUtils_proofs --------------------------
(***************************************************************************)
(* The walk through MemorySSA finds what reaches a load, for every         *)
(* function, every graph of MemoryPhis and every order of evaluation.      *)
(***************************************************************************)
EXTENDS MemSSAUtils, FiniteSetTheorems, WellFoundedInduction, TLAPS

\* findLOEError has been called, or is being called.
Called == \/ Visited \cap (Calls \cup {LiveOnEntry}) # {}
          \/ SloppyAA /\ ~sloppy

\* What findLOEError of v may still come across.
ChainFrom(v) ==
  {p \in Addresses : \A S \in SUBSET Addresses :
     Promise!Behind(v) \subseteq S /\ Promise!Complete(S) => p \in S}

\* The accesses of a walk are those that reach the load; what follows a visited
\* one is visited or waits; Res holds the entries of the visited stores and, once
\* it was looked for, the nearest error.  Between loads there is no walk.
WalkInv ==
  IF loading = Null THEN Res = {} ELSE
    LET own == {loading} \cap DOMAIN Clobbering
    IN  /\ todo \cup Visited \subseteq Promise!ReachingTo[loading] \cup own
        /\ own \subseteq todo \cup Visited
        /\ \A a \in Visited : Follows(a) \subseteq todo \cup Visited
        /\ \A s \in Visited \cap Stores : Entry(entries, s) \in Res
        /\ \A k \in Res : \/ \E s \in Visited \cap Stores : k = Entry(entries, s)
                          \/ Called /\ k \in Promise!NearestError(loading)

SearchInv ==
  loading # Null =>
    /\ sloppy => SloppyAA
    /\ Called /\ looking = Null => Promise!NearestError(loading) \subseteq Res
    /\ looking # Null =>
         /\ Called /\ Promise!NearestError(loading) \subseteq Res \cup ChainFrom(looking)
         /\ looking = loading \/ (looking \in Promise!Chain(loading) /\ ~Known(entries[looking]))

Inv == TypeOK /\ WalkInv /\ SearchInv

-----------------------------------------------------------------------------
\* A finite nonempty set of numbers has a largest: the smallest subset without
\* one would lose the property with any of its elements.
LEMMA LargestExists ==
  ASSUME NEW K, IsFiniteSet(K), K \subseteq Nat, K # {}
  PROVE  \E e \in K : \A d \in K : d <= e
<1> DEFINE HasLargest(S) == \E e \in S : \A d \in S : d <= e
           Less == {ss \in Nat \X Nat : ss[1] < ss[2]}
           Without == {S \in SUBSET K : S # {} /\ ~HasLargest(S)}
           Sizes == {Cardinality(S) : S \in Without}
<1> SUFFICES ASSUME ~HasLargest(K) PROVE FALSE
  OBVIOUS
<1>1. \A S \in SUBSET K : IsFiniteSet(S) /\ Cardinality(S) \in Nat
  BY FS_Subset, FS_CardinalityType
<1>2. Sizes \subseteq Nat /\ Sizes # {}
  BY <1>1
<1>3. IsWellFoundedOn(Less, Nat)
  BY NatLessThanWellFounded, Zenon DEF OpToRel
<1> HIDE DEF Less
<1>4. PICK n \in Sizes : \A m \in Sizes : ~ (<<m, n>> \in Less)
  BY <1>2, <1>3, WFMin, Zenon
<1>5. PICK S \in Without : n = Cardinality(S)
  BY <1>4
<1>6. PICK x \in S : TRUE
  BY <1>5
<1> DEFINE T == S \ {x}
<1>7. /\ S \subseteq K /\ S # {} /\ ~HasLargest(S)
      /\ T \subseteq K /\ Cardinality(T) = Cardinality(S) - 1 /\ x \in Nat
  BY <1>1, <1>5, <1>6, FS_RemoveElement
<1>8. T \notin Without
  <2> SUFFICES ASSUME T \in Without PROVE FALSE
    OBVIOUS
  <2>1. Cardinality(T) \in Sizes
    OBVIOUS
  <2>2. ~ (<<Cardinality(T), n>> \in Less)
    BY <1>4, <2>1
  <2>3. /\ Cardinality(T) \in Nat /\ n \in Nat
        /\ Cardinality(T) = n - 1
    BY <1>1, <1>5, <1>7
  <2> HIDE DEF T
  <2>4. Cardinality(T) < n
    BY <2>3
  <2> QED
    BY <2>2, <2>3, <2>4 DEF Less
<1>9. CASE T = {}
  BY <1>6, <1>7, <1>9
<1>10. CASE HasLargest(T)
  <2>1. PICK e \in T : \A d \in T : d <= e
    BY <1>10
  <2>2. e \in Nat /\ e \in S /\ x \in S /\ \A d \in S : d \in T \/ d = x
    BY <1>6, <1>7, <2>1
  <2>3. CASE x <= e
    BY <1>7, <2>1, <2>2, <2>3
  <2>4. CASE ~(x <= e)
    <3>1. \A d \in S : d <= x
      BY <1>7, <2>1, <2>2, <2>4
    <3> QED
      BY <1>7, <2>2, <3>1
  <2> QED
    BY <2>3, <2>4
<1> QED
  BY <1>7, <1>8, <1>9, <1>10

\* The error of a load is a range error; of several it is the largest.
LEMMA LoadErrorIs ==
  ASSUME NEW l \in Loads, NEW found, found \subseteq Values \cup Cells \cup {Null},
         entries \in [Values -> RangeErrors], cells \in [Cells -> RangeErrors]
  PROVE  LET known == KnownErrors(entries, cells, found)
             e == LoadError(entries, cells, l, found)
         IN  /\ e \in RangeErrors
             /\ \/ \A d \in known : e \in Nat /\ d <= e
                \/ entries[l] = Absent /\ e = Absent
<1> DEFINE known == KnownErrors(entries, cells, found)
           e == LoadError(entries, cells, l, found)
<1>1. \A k \in found \ {Null} : Content(entries, cells, k) \in RangeErrors
  BY DEF Content
<1>2. CASE \E k \in found : k # Null /\ found = {k}
  <2>1. PICK k \in found : k # Null /\ found = {k}
    BY <1>2
  <2>2. e = Content(entries, cells, k)
    <3>1. (CHOOSE j \in found : TRUE) = k
      BY <2>1
    <3> QED
      BY <1>2, <3>1 DEF LoadError
  <2>3. \A d \in known : e \in Nat /\ d <= e
    BY <2>1, <2>2 DEF KnownErrors
  <2> QED
    BY <1>1, <2>1, <2>2, <2>3
<1>3. CASE ~(\E k \in found : k # Null /\ found = {k}) /\ entries[l] = Absent
  <2>1. e = Absent
    BY <1>3 DEF LoadError
  <2> QED
    BY <1>3, <2>1 DEF RangeErrors
<1>4. CASE ~(\E k \in found : k # Null /\ found = {k}) /\ entries[l] # Absent
  <2>1. CASE known = {}
    <3>1. e = Rounding[l]
      BY <1>4, <2>1 DEF LoadError
    <3> QED
      BY <2>1, <3>1, AccessAssumption DEF RangeErrors
  <2>2. CASE known # {}
    <3>1. e = CHOOSE x \in known : \A d \in known : d <= x
      BY <1>4, <2>2 DEF LoadError
    <3>2. known \subseteq Nat
      BY DEF KnownErrors
    <3>3. IsFiniteSet(known)
      <4> DEFINE all == {Content(entries, cells, k) : k \in found \ {Null}}
      <4>1. IsFiniteSet(Values \cup Cells)
        BY AccessAssumption, FS_Union
      <4>2. found \ {Null} \subseteq Values \cup Cells
        OBVIOUS
      <4>3. IsFiniteSet(found \ {Null})
        BY <4>1, <4>2, FS_Subset
      <4>4. IsFiniteSet(all)
        <5> DEFINE f == [k \in found \ {Null} |-> Content(entries, cells, k)]
        <5>1. f \in Surjection(found \ {Null}, all)
          BY DEF Surjection
        <5> QED
          BY <4>3, <5>1, FS_Surjection
      <4>5. known \subseteq all
        BY DEF KnownErrors
      <4> QED
        BY <4>4, <4>5, FS_Subset
    <3> HIDE DEF known, e
    <3>4. \E x \in known : \A d \in known : d <= x
      BY <2>2, <3>2, <3>3, LargestExists
    <3>5. e \in known /\ \A d \in known : d <= e
      BY <3>1, <3>4
    <3>6. e \in Nat
      BY <3>2, <3>5
    <3>7. e \in RangeErrors /\ \A d \in known : e \in Nat /\ d <= e
      BY <3>5, <3>6 DEF RangeErrors
    <3> QED
      BY <3>7 DEF known, e
  <2> QED
    BY <2>1, <2>2
<1> QED
  BY <1>2, <1>3, <1>4

-----------------------------------------------------------------------------
\* Promise reads the same function.
LEMMA SameSets ==
  /\ Promise!Loads = Loads /\ Promise!Stores = Stores /\ Promise!Calls = Calls
  /\ Promise!Definitions = Definitions /\ Promise!Addresses = Addresses
BY DEF Promise!Loads, Promise!Stores, Promise!Calls, Promise!Definitions, Promise!Addresses,
       Promise!Of, Promise!HasPointer, Loads, Stores, Calls, Definitions, Addresses, Of, HasPointer

LEMMA SameReaching ==
  ASSUME NEW l \in Loads
  PROVE  Promise!ReachingTo[l] =
           IF l \in DOMAIN Clobbering
           THEN {a \in Definitions \cup Phis :
                   \A S \in SUBSET (Definitions \cup Phis) :
                     Clobbering[l] \in S /\ Promise!Closed(S) => a \in S}
           ELSE {}
BY SameSets DEF Promise!ReachingTo, Promise!Reaching

LEMMA SameChain ==
  /\ \A e : Promise!Known(e) <=> Known(e)
  /\ \A l : Promise!Chain(l) =
       {p \in Addresses : \A S \in SUBSET Addresses : Pointer[l] \in S /\ Promise!Complete(S) => p \in S}
  /\ \A l : Promise!NearestError(l) = {p \in Promise!Chain(l) : Known(entries[p])}
  /\ \A S : Promise!Complete(S) <=> \A p \in S : ~Known(entries[p]) => Promise!Behind(p) \subseteq S
BY SameSets DEF Promise!Known, Known, Promise!Chain, Promise!NearestError, Promise!Complete

-----------------------------------------------------------------------------
\* Kinds of values and accesses do not mix.
LEMMA Kinds ==
  /\ \A l \in Loads : l \in Values /\ l \notin Stores \cup Calls \cup Phis /\ l # Null
                      /\ l # LiveOnEntry /\ Pointer[l] \in Addresses
  /\ \A s \in Stores : s \in Values /\ s \notin Phis \cup Calls
  /\ Addresses \subseteq Values
  /\ \A v \in Values : Op[v] \in {"load", "gep"} => Pointer[v] \in Addresses
  /\ Promise!ReachingTo \in [Loads -> SUBSET (Definitions \cup Phis)]
  /\ Definitions \cup Phis \subseteq Accesses
<1>1. Addresses \subseteq Values
  BY AccessAssumption DEF Addresses
<1>2. \A v \in Values : Op[v] \in {"load", "gep"} => Pointer[v] \in Addresses
  BY DEF Addresses, HasPointer, Loads, Of
<1>3. \A l \in Loads : l \in Values /\ l \notin Stores \cup Calls
  BY DEF Loads, Stores, Calls, Of
<1>4. \A s \in Stores : s \in Values /\ s \notin Calls
  BY DEF Stores, Calls, Of
<1>5. Promise!ReachingTo \in [Loads -> SUBSET (Definitions \cup Phis)]
  <2>1. Promise!ReachingTo = [l \in Loads |-> Promise!ReachingTo[l]]
    BY SameSets DEF Promise!ReachingTo
  <2>2. \A l \in Loads : Promise!ReachingTo[l] \in SUBSET (Definitions \cup Phis)
    BY SameReaching
  <2> QED
    BY <2>1, <2>2
<1>6. \A l \in Loads : Pointer[l] \in Addresses
  BY DEF Addresses, HasPointer
<1> QED
  BY <1>1, <1>2, <1>3, <1>4, <1>5, <1>6, AccessAssumption DEF Accesses

\* The pointers of a load's chain and the entries that are found are values.
LEMMA EntriesAreValues ==
  /\ \A s \in Stores : Entry(entries, s) \in Values \cup {Null}
  /\ \A l \in Loads : Promise!NearestError(l) \subseteq Values /\ Promise!Chain(l) \subseteq Addresses
  /\ \A l \in Loads : FieldEntry(cells, l) \subseteq Cells
BY Kinds, SameChain DEF Entry, FieldEntry

LEMMA TypeInit == Init => TypeOK
<1> SUFFICES ASSUME Init PROVE TypeOK
  OBVIOUS
<1>1. entries \in [Values -> RangeErrors]
  BY AccessAssumption DEF Init, EntriesOnEntry, RangeErrors
<1>2. cells \in [Cells -> RangeErrors]
  BY AccessAssumption DEF Init
<1> QED
  BY <1>1, <1>2 DEF Init, TypeOK

\* Metadata keeps entries entries.
LEMMA RetrievedType ==
  ASSUME entries \in [Values -> RangeErrors], NEW v \in Values
  PROVE  Retrieved(entries, v) \in [Values -> RangeErrors]
BY AccessAssumption DEF Retrieved

\* Stores, calls and pointer loads happen between walks.
LEMMA TypeBetween ==
  ASSUME TypeOK, loading = Null,
         \/ \E s \in Stores, e \in Errors \cup {Absent} : Store(s, e)
         \/ \E c \in Calls, e \in Errors : Call(c, e)
         \/ \E l \in Loads : LoadPointer(l)
  PROVE  /\ entries' \in [Values -> RangeErrors] /\ cells' \in [Cells -> RangeErrors]
         /\ UNCHANGED <<loading, SloppyAA, walk>>
<1>1. ASSUME NEW s \in Stores, NEW e \in Errors \cup {Absent}, Store(s, e)
      PROVE  /\ entries' \in [Values -> RangeErrors] /\ cells' \in [Cells -> RangeErrors]
             /\ UNCHANGED <<loading, SloppyAA, walk>>
  <2> DEFINE now == Retrieved(entries, s)
             error == StoredError(now, s, e)
  <2>1. now \in [Values -> RangeErrors] /\ cells \in [Cells -> RangeErrors]
    BY RetrievedType, Kinds DEF TypeOK
  <2>2. CASE Known(error)
    <3>1. /\ entries' = EntriesAfterStore(now, s, error)
          /\ cells' = CellsAfterStore(cells, s, error)
      BY <1>1, <2>2 DEF Store
    <3> HIDE DEF now, error
    <3>2. error \in RangeErrors
      BY <2>2 DEF Known, RangeErrors
    <3>3. entries' \in [Values -> RangeErrors] /\ cells' \in [Cells -> RangeErrors]
      BY <2>1, <3>1, <3>2 DEF EntriesAfterStore, CellsAfterStore
    <3> QED
      BY <1>1, <3>3 DEF Store
  <2>3. CASE ~Known(error)
    BY <1>1, <2>1, <2>3 DEF Store
  <2> QED
    BY <2>2, <2>3
<1>2. ASSUME NEW c \in Calls, NEW e \in Errors, Call(c, e)
      PROVE  /\ entries' \in [Values -> RangeErrors] /\ cells' \in [Cells -> RangeErrors]
             /\ UNCHANGED <<loading, SloppyAA, walk>>
  <2>1. c \in Values /\ e \in RangeErrors
    BY AccessAssumption DEF Calls, Of, RangeErrors
  <2>2. Retrieved(entries, c) \in [Values -> RangeErrors]
    BY <2>1, RetrievedType DEF TypeOK
  <2> QED
    BY <1>2, <2>1, <2>2 DEF Call, TypeOK
<1>3. ASSUME NEW l \in Loads, LoadPointer(l)
      PROVE  /\ entries' \in [Values -> RangeErrors] /\ cells' \in [Cells -> RangeErrors]
             /\ UNCHANGED <<loading, SloppyAA, walk>>
  BY <1>3, RetrievedType, Kinds DEF LoadPointer, TypeOK
<1> QED
  BY <1>1, <1>2, <1>3

\* A new walk starts at the load.
LEMMA BeginInv ==
  ASSUME Inv, NEW l \in Loads, Begin(l)
  PROVE  Inv'
<1>1. /\ loading' = l /\ todo' = {l} \cap DOMAIN Clobbering /\ looking' = Null
      /\ sloppy' = SloppyAA /\ SloppyAA' = SloppyAA /\ Visited' = {} /\ Res' = {}
      /\ entries' \in [Values -> RangeErrors] /\ cells' = cells
  BY RetrievedType, Kinds DEF Begin, Inv, TypeOK
<1>2. TypeOK'
  BY <1>1 DEF Inv, TypeOK, Accesses
<1>3. WalkInv'
  BY <1>1 DEF WalkInv
<1>4. ~Called'
  BY <1>1 DEF Called
<1>5. SearchInv'
  BY <1>1, <1>4 DEF SearchInv
<1> QED
  BY <1>2, <1>3, <1>5 DEF Inv

\* What a visited access calls for reaches the load too.
LEMMA FollowsReach ==
  ASSUME NEW l \in Loads, NEW a \in Promise!ReachingTo[l] \cup ({l} \cap DOMAIN Clobbering)
  PROVE  Follows(a) \subseteq Promise!ReachingTo[l]
<1>1. CASE l \notin DOMAIN Clobbering
  <2>1. Promise!ReachingTo[l] = {} /\ {l} \cap DOMAIN Clobbering = {}
    BY <1>1, SameReaching
  <2> QED
    BY <2>1
<1>2. CASE l \in DOMAIN Clobbering
  <2>0. Promise!ReachingTo[l] =
          {d \in Definitions \cup Phis :
             \A S \in SUBSET (Definitions \cup Phis) :
               Clobbering[l] \in S /\ Promise!Closed(S) => d \in S}
    BY <1>2, SameReaching
  <2>1. CASE a = l
    <3>1. Follows(a) = {Clobbering[l]} /\ Clobbering[l] \in Definitions \cup Phis
      BY <1>2, <2>1, Kinds, AccessAssumption DEF Follows
    <3> QED
      BY <2>0, <3>1
  <2>2. CASE a \in Phis
    <3>1. Follows(a) = Incoming[a] /\ Incoming[a] \subseteq Definitions \cup Phis
      BY <2>2, AccessAssumption DEF Follows
    <3>2. a \in Promise!ReachingTo[l]
      BY <1>2, <2>2, Kinds, AccessAssumption
    <3>3. \A S \in SUBSET (Definitions \cup Phis) :
            Clobbering[l] \in S /\ Promise!Closed(S) => Incoming[a] \subseteq S
      BY <2>0, <2>2, <3>2 DEF Promise!Closed
    <3> QED
      BY <2>0, <3>1, <3>3
  <2>3. CASE a # l /\ a \notin Phis
    <3>1. a \in Definitions
      BY <2>3, Kinds
    <3>2. a \notin DOMAIN Clobbering
      BY <3>1, Kinds, AccessAssumption DEF Definitions
    <3> QED
      BY <2>3, <3>2 DEF Follows
  <2> QED
    BY <2>1, <2>2, <2>3
<1> QED
  BY <1>1, <1>2

\* One call of findMemSSAError for an access that was not visited.
LEMMA VisitInv ==
  ASSUME Inv, NEW a \in Accesses, Visit(a)
  PROVE  Inv'
<1> DEFINE own == {loading} \cap DOMAIN Clobbering
           R == Promise!ReachingTo[loading]
<1>1. /\ loading \in Loads /\ loading # Null /\ looking = Null /\ a \in todo
      /\ Visited' = Visited \cup {a} /\ todo' = (todo \ {a}) \cup Follows(a)
      /\ Res' = Res \cup Pushes(a)
      /\ looking' = IF a \in Calls \cup {LiveOnEntry} THEN loading ELSE Null
      /\ entries' = entries /\ cells' = cells /\ loading' = loading
      /\ SloppyAA' = SloppyAA /\ sloppy' = sloppy
  BY DEF Visit, Walking, Remember, Inv, TypeOK
<1>2. a \in R \cup own /\ R \subseteq Accesses
  BY <1>1, Kinds DEF Inv, WalkInv
<1>3. Follows(a) \subseteq R
  BY <1>1, <1>2, FollowsReach
<1>4. TypeOK'
  <2>1. todo' \subseteq Accesses /\ Visited' \subseteq Accesses
    BY <1>1, <1>2, <1>3 DEF Inv, TypeOK
  <2>2. looking' \in Values \cup {Null}
    BY <1>1, Kinds
  <2>3. \A k \in Pushes(a) : k = Null \/ (k \in Stores /\ entries[k] # Absent)
    BY DEF Pushes, Entry
  <2> QED
    BY <1>1, <2>1, <2>2, <2>3 DEF Inv, TypeOK
<1>5. Called => Called'
  BY <1>1 DEF Called
<1>6. Promise!NearestError(loading)' = Promise!NearestError(loading)
  BY <1>1 DEF Promise!NearestError, Promise!Chain, Promise!Complete
<1>7. WalkInv'
  <2>1. todo' \cup Visited' \subseteq R \cup own /\ own \subseteq todo' \cup Visited'
    BY <1>1, <1>2, <1>3 DEF Inv, WalkInv
  <2>2. \A b \in Visited' : Follows(b) \subseteq todo' \cup Visited'
    BY <1>1 DEF Inv, WalkInv
  <2>3. \A s \in Visited' \cap Stores : Entry(entries, s) \in Res'
    BY <1>1 DEF Inv, WalkInv, Pushes
  <2>4. \A k \in Res' : \/ \E s \in Visited' \cap Stores : k = Entry(entries, s)
                        \/ Called' /\ k \in Promise!NearestError(loading)
    <3>1. \A k \in Pushes(a) : \E s \in Visited' \cap Stores : k = Entry(entries, s)
      BY <1>1 DEF Pushes
    <3> QED
      BY <1>1, <1>5, <3>1 DEF Inv, WalkInv
  <2> QED
    BY <1>1, <1>6, <2>1, <2>2, <2>3, <2>4 DEF WalkInv
<1>8. SearchInv'
  <2>1. CASE a \in Calls \cup {LiveOnEntry}
    <3>1. looking' = loading /\ loading # Null /\ Called'
      BY <1>1, <2>1 DEF Called
    <3>2. Promise!NearestError(loading) \subseteq ChainFrom(loading)
      <4>1. Promise!Behind(loading) = {Pointer[loading]}
        BY <1>1 DEF Promise!Behind, Loads, Of
      <4> QED
        BY <4>1, SameChain DEF ChainFrom
    <3>3. ChainFrom(loading)' = ChainFrom(loading)
      BY <1>1 DEF ChainFrom, Promise!Complete
    <3> QED
      BY <1>1, <1>6, <3>1, <3>2, <3>3 DEF SearchInv, Inv
  <2>2. CASE a \notin Calls \cup {LiveOnEntry}
    <3>1. Called' <=> Called
      BY <1>1, <2>2 DEF Called
    <3> QED
      BY <1>1, <1>6, <2>2, <3>1 DEF SearchInv, Inv
  <2> QED
    BY <2>1, <2>2
<1> QED
  BY <1>4, <1>7, <1>8 DEF Inv

\* One call for an access that was visited.
LEMMA AlreadyVisitedInv ==
  ASSUME Inv, NEW a \in Accesses, AlreadyVisited(a)
  PROVE  Inv'
<1>1. /\ loading # Null /\ a \in Visited /\ todo' = todo \ {a}
      /\ UNCHANGED <<entries, cells, loading, SloppyAA, looking, sloppy, Visited, Res>>
  BY DEF AlreadyVisited, Walking
<1>2. TypeOK'
  BY <1>1 DEF Inv, TypeOK
<1>3. /\ Called' = Called /\ todo' \cup Visited' = todo \cup Visited
      /\ Promise!NearestError(loading)' = Promise!NearestError(loading)
      /\ Promise!Chain(loading)' = Promise!Chain(loading)
      /\ ChainFrom(looking)' = ChainFrom(looking)
  BY <1>1 DEF Called, ChainFrom, Promise!NearestError, Promise!Chain, Promise!Complete
<1>4. WalkInv'
  BY <1>1, <1>3 DEF Inv, WalkInv
<1>5. SearchInv'
  BY <1>1, <1>3 DEF Inv, SearchInv
<1> QED
  BY <1>2, <1>4, <1>5 DEF Inv

\* One call of findLOEError.
LEMMA LookInv ==
  ASSUME Inv, Look
  PROVE  Inv'
<1> DEFINE Nearest == Promise!NearestError(loading)
           p == Pointer[looking]
<1>1. /\ loading \in Loads /\ loading # Null /\ looking \in Values /\ looking # Null
      /\ UNCHANGED <<entries, cells, loading, SloppyAA, todo, sloppy, Visited>>
      /\ Called /\ Nearest \subseteq Res \cup ChainFrom(looking)
      /\ looking = loading \/ (looking \in Promise!Chain(loading) /\ ~Known(entries[looking]))
  BY DEF Look, Inv, TypeOK, SearchInv
<1>2. /\ Called' = Called /\ Promise!NearestError(loading)' = Nearest
      /\ Promise!Chain(loading)' = Promise!Chain(loading)
      /\ \A v : ChainFrom(v)' = ChainFrom(v)
  BY <1>1 DEF Called, ChainFrom, Promise!NearestError, Promise!Chain, Promise!Complete
<1>3. Nearest \subseteq {v \in Values : Known(entries[v])}
  BY <1>1, EntriesAreValues, SameChain
\* It is enough to know what is pushed, and where the search goes on.
<1>4. ASSUME Res' = Res \/ (Res' = Res \cup {p} /\ p \in Nearest),
             \/ looking' = Null /\ Nearest \subseteq Res'
             \/ /\ looking' = p /\ p \in Promise!Chain(loading) /\ ~Known(entries[p])
                /\ Nearest \subseteq Res \cup ChainFrom(p)
      PROVE  Inv'
  <2>1. looking' \in Values \cup {Null}
    BY <1>1, <1>4, EntriesAreValues, Kinds
  <2>2. TypeOK'
    BY <1>1, <1>3, <1>4, <2>1 DEF Inv, TypeOK
  <2>3. WalkInv'
    BY <1>1, <1>2, <1>4 DEF Inv, WalkInv
  <2>4. SearchInv'
    <3>1. (sloppy => SloppyAA)'
      BY <1>1 DEF Inv, SearchInv
    <3>2. CASE looking' = Null /\ Nearest \subseteq Res'
      BY <1>1, <1>2, <3>1, <3>2 DEF SearchInv
    <3>3. CASE /\ looking' = p /\ p \in Promise!Chain(loading) /\ ~Known(entries[p])
               /\ Nearest \subseteq Res \cup ChainFrom(p)
      <4>1. Res \subseteq Res' /\ looking' \in Promise!Chain(loading) /\ ~Known(entries[looking'])
        BY <1>4, <3>3
      <4>2. looking' # Null
        BY <1>1, <3>3, EntriesAreValues, Kinds, AccessAssumption
      <4>3. ChainFrom(looking)' = ChainFrom(p)
        BY <1>1, <3>3 DEF ChainFrom, Promise!Complete
      <4> QED
        BY <1>1, <1>2, <3>1, <3>3, <4>1, <4>2, <4>3 DEF SearchInv
    <3> QED
      BY <1>4, <3>2, <3>3
  <2> QED
    BY <2>2, <2>3, <2>4 DEF Inv
<1>5. CASE Op[looking] \in {"load", "gep"}
  <2>1. Promise!Behind(looking) = {p} /\ p \in Addresses
    BY <1>1, <1>5, Kinds DEF Promise!Behind
  <2>2. p \in Promise!Chain(loading)
    <3>1. CASE looking = loading
      BY <2>1, <3>1, SameChain
    <3>2. CASE looking \in Promise!Chain(loading) /\ ~Known(entries[looking])
      BY <2>1, <3>2, SameChain
    <3> QED
      BY <1>1, <3>1, <3>2
  <2>3. CASE Known(entries[p])
    <3>1. Promise!Complete({p})
      BY <2>3, SameChain
    <3>2. ChainFrom(looking) \subseteq {p}
      BY <2>1, <3>1 DEF ChainFrom
    <3>3. Res' = Res \cup {p} /\ looking' = Null
      BY <1>5, <2>3 DEF Look
    <3>4. p \in Nearest
      BY <2>2, <2>3, SameChain
    <3>5. Nearest \subseteq Res'
      BY <1>1, <3>2, <3>3
    <3> QED
      BY <1>4, <3>3, <3>4, <3>5
  <2>4. CASE ~Known(entries[p]) /\ Op[p] \in Objects
    <3>1. Res' = Res /\ looking' = Null
      BY <1>5, <2>4 DEF Look
    <3>2. Promise!Complete({p})
      <4>1. Promise!Behind(p) = {}
        BY <2>4 DEF Promise!Behind, Objects
      <4> QED
        BY <4>1, SameChain
    <3>3. ChainFrom(looking) \subseteq {p}
      BY <2>1, <3>2 DEF ChainFrom
    <3>4. Nearest \subseteq Res'
      BY <1>1, <1>3, <2>4, <3>1, <3>3
    <3> QED
      BY <1>4, <3>1, <3>4
  <2>5. CASE ~Known(entries[p]) /\ Op[p] \notin Objects
    <3>1. Res' = Res /\ looking' = p
      BY <1>5, <2>5 DEF Look
    <3>2. ChainFrom(looking) \subseteq {p} \cup ChainFrom(p)
      <4> SUFFICES ASSUME NEW v \in ChainFrom(looking), v # p, NEW S \in SUBSET Addresses,
                          Promise!Behind(p) \subseteq S, Promise!Complete(S)
                   PROVE  v \in S
        BY DEF ChainFrom
      <4>1. Promise!Complete(S \cup {p})
        BY SameChain
      <4>2. S \cup {p} \in SUBSET Addresses
        BY <2>1
      <4> QED
        BY <2>1, <4>1, <4>2 DEF ChainFrom
    <3>3. Nearest \subseteq Res \cup ChainFrom(p)
      BY <1>1, <1>3, <2>5, <3>2
    <3> QED
      BY <1>4, <2>2, <2>5, <3>1, <3>3
  <2> QED
    BY <2>3, <2>4, <2>5
<1>6. CASE Op[looking] \notin {"load", "gep"}
  <2>1. Res' = Res /\ looking' = Null
    BY <1>6 DEF Look
  <2>2. ChainFrom(looking) = {}
    <3>1. Promise!Behind(looking) = {} /\ Promise!Complete({})
      BY <1>6, SameChain DEF Promise!Behind
    <3> QED
      BY <3>1 DEF ChainFrom
  <2>3. Nearest \subseteq Res'
    BY <1>1, <2>1, <2>2
  <2> QED
    BY <1>4, <2>1, <2>3
<1> QED
  BY <1>5, <1>6

\* The call of findLOEError after the walk.
LEMMA LookSloppilyInv ==
  ASSUME Inv, LookSloppily
  PROVE  Inv'
<1>1. /\ loading \in Loads /\ loading # Null /\ looking = Null /\ sloppy /\ SloppyAA
      /\ sloppy' = FALSE /\ looking' = loading
      /\ UNCHANGED <<entries, cells, loading, SloppyAA, todo, Visited, Res>>
  BY DEF LookSloppily, Walking, Inv, TypeOK, SearchInv
<1>2. TypeOK'
  BY <1>1, Kinds DEF Inv, TypeOK
<1>3. /\ Called' /\ Promise!NearestError(loading)' = Promise!NearestError(loading)
      /\ ChainFrom(looking)' = ChainFrom(loading)
  BY <1>1 DEF Called, ChainFrom, Promise!NearestError, Promise!Chain, Promise!Complete
<1>4. WalkInv'
  BY <1>1, <1>3 DEF Inv, WalkInv
<1>5. Promise!NearestError(loading) \subseteq ChainFrom(loading)
  <2>1. Promise!Behind(loading) = {Pointer[loading]}
    BY <1>1 DEF Promise!Behind, Loads, Of
  <2> QED
    BY <2>1, SameChain DEF ChainFrom
<1>6. SearchInv'
  BY <1>1, <1>3, <1>5 DEF SearchInv
<1> QED
  BY <1>2, <1>4, <1>6 DEF Inv

\* At the end of a walk what was found is what is promised.
LEMMA FoundAll ==
  ASSUME Inv, Finish
  PROVE  Res \cup FieldEntry(cells, loading) = Promise!Found(loading)
<1> DEFINE own == {loading} \cap DOMAIN Clobbering
           R == Promise!ReachingTo[loading]
           Nearest == Promise!NearestError(loading)
<1>1. loading \in Loads /\ loading # Null /\ looking = Null /\ todo = {} /\ ~sloppy
  BY DEF Finish, Walking, Inv, TypeOK
<1>2. /\ Visited \subseteq R \cup own /\ own \subseteq Visited
      /\ \A a \in Visited : Follows(a) \subseteq Visited
      /\ \A s \in Visited \cap Stores : Entry(entries, s) \in Res
      /\ \A k \in Res : (\E s \in Visited \cap Stores : k = Entry(entries, s)) \/ (Called /\ k \in Nearest)
      /\ Called => Nearest \subseteq Res
  BY <1>1 DEF Inv, WalkInv, SearchInv
<1>3. R \subseteq Visited
  <2>1. CASE loading \notin DOMAIN Clobbering
    BY <1>1, <2>1, SameReaching
  <2>2. CASE loading \in DOMAIN Clobbering
    <3> DEFINE S == Visited \cap (Definitions \cup Phis)
    <3>1. Follows(loading) = {Clobbering[loading]} /\ Clobbering[loading] \in Definitions \cup Phis
      BY <1>1, <2>2, Kinds, AccessAssumption DEF Follows
    <3>2. Clobbering[loading] \in S
      BY <1>2, <2>2, <3>1
    <3>3. \A a \in S \cap Phis : Incoming[a] \subseteq S
      <4> TAKE a \in S \cap Phis
      <4>1. Follows(a) = Incoming[a] /\ Incoming[a] \subseteq Definitions \cup Phis
        BY AccessAssumption DEF Follows
      <4> QED
        BY <1>2, <4>1
    <3>4. Promise!Closed(S)
      BY <3>3 DEF Promise!Closed
    <3>5. S \in SUBSET (Definitions \cup Phis)
      OBVIOUS
    <3>6. R \subseteq S
      BY <1>1, <2>2, <3>2, <3>4, <3>5, SameReaching
    <3> QED
      BY <3>6
  <2> QED
    BY <2>1, <2>2
<1>4. Visited \cap Stores = R \cap Stores /\ Visited \cap (Calls \cup {LiveOnEntry}) = R \cap (Calls \cup {LiveOnEntry})
  BY <1>1, <1>2, <1>3, Kinds
<1>5. Called <=> SloppyAA \/ R \cap (Calls \cup {LiveOnEntry}) # {}
  BY <1>1, <1>4 DEF Called
<1>6. Promise!Found(loading) =
        {Entry(entries, s) : s \in R \cap Stores} \cup (IF Called THEN Nearest ELSE {})
        \cup FieldEntry(cells, loading)
  BY <1>5, SameSets DEF Promise!Found, Promise!Entry, Entry, Promise!FieldEntry, FieldEntry
<1>7. Res = {Entry(entries, s) : s \in R \cap Stores} \cup (IF Called THEN Nearest ELSE {})
  BY <1>2, <1>4
<1> QED
  BY <1>6, <1>7

\* The rest of propagateLoad.
LEMMA FinishInv ==
  ASSUME Inv, Finish
  PROVE  /\ Inv'
         /\ LET found == Promise!Found(loading)
            IN  /\ found \subseteq Values \cup Cells \cup {Null}
                /\ entries' = [entries EXCEPT ![loading] = LoadError(entries, cells, loading, found)]
<1> DEFINE found == Promise!Found(loading)
           e == LoadError(entries, cells, loading, found)
<1>1. /\ loading \in Loads /\ loading' = Null /\ Visited' = {} /\ Res' = {}
      /\ UNCHANGED <<cells, SloppyAA, todo, looking, sloppy>>
      /\ entries \in [Values -> RangeErrors] /\ cells \in [Cells -> RangeErrors]
  BY DEF Finish, Walking, Inv, TypeOK
<1>2. entries' = [entries EXCEPT ![loading] = e]
  BY FoundAll DEF Finish
<1>3. found \subseteq Values \cup Cells \cup {Null}
  <2>1. Res \subseteq Values \cup {Null}
    BY Kinds DEF Inv, TypeOK
  <2>2. FieldEntry(cells, loading) \subseteq Cells
    BY <1>1, EntriesAreValues
  <2> QED
    BY <2>1, <2>2, FoundAll
<1> HIDE DEF found
<1>4. e \in RangeErrors
  BY <1>1, <1>3, LoadErrorIs
<1>5. TypeOK'
  BY <1>1, <1>2, <1>4 DEF Inv, TypeOK
<1>6. WalkInv' /\ SearchInv'
  BY <1>1 DEF WalkInv, SearchInv
<1> QED
  BY <1>2, <1>3, <1>5, <1>6 DEF Inv, found

LEMMA StepInv == Inv /\ [Next]_vars => Inv'
<1> SUFFICES ASSUME Inv, [Next]_vars PROVE Inv'
  OBVIOUS
<1>1. CASE UNCHANGED vars
  <2>1. UNCHANGED <<entries, cells, loading, SloppyAA, todo, looking, sloppy, Visited, Res>>
    BY <1>1 DEF vars, walk
  <2>2. TypeOK'
    BY <2>1 DEF Inv, TypeOK
  <2>3. /\ Called' = Called /\ Promise!NearestError(loading)' = Promise!NearestError(loading)
        /\ Promise!Chain(loading)' = Promise!Chain(loading)
        /\ ChainFrom(looking)' = ChainFrom(looking)
    BY <2>1 DEF Called, ChainFrom, Promise!NearestError, Promise!Chain, Promise!Complete
  <2>4. WalkInv' /\ SearchInv'
    BY <2>1, <2>3 DEF Inv, WalkInv, SearchInv
  <2> QED
    BY <2>2, <2>4 DEF Inv
<1>2. CASE \/ \E s \in Stores, e \in Errors \cup {Absent} : Store(s, e)
           \/ \E c \in Calls, e \in Errors : Call(c, e)
           \/ \E l \in Loads : LoadPointer(l)
  <2>1. TypeOK /\ loading = Null
    BY <1>2 DEF Inv, Store, Call, LoadPointer
  <2>2. /\ entries' \in [Values -> RangeErrors] /\ cells' \in [Cells -> RangeErrors]
        /\ UNCHANGED <<loading, SloppyAA, walk>>
    BY <1>2, <2>1, TypeBetween
  <2>3. UNCHANGED <<todo, looking, sloppy, Visited>> /\ Res' = Res
    BY <2>2 DEF walk
  <2>4. Res = {}
    BY <2>1 DEF Inv, WalkInv
  <2>5. TypeOK'
    BY <2>1, <2>2, <2>3, <2>4 DEF TypeOK
  <2>6. WalkInv' /\ SearchInv'
    BY <2>1, <2>2, <2>3, <2>4 DEF WalkInv, SearchInv
  <2> QED
    BY <2>5, <2>6 DEF Inv
<1>3. ASSUME NEW l \in Loads, Begin(l) PROVE Inv'
  BY <1>3, BeginInv
<1>4. CASE Walk
  BY <1>4, VisitInv, AlreadyVisitedInv, LookInv, LookSloppilyInv, FinishInv DEF Walk
<1> QED
  BY <1>1, <1>2, <1>3, <1>4 DEF Next

LEMMA InitInv == Init => Inv
<1> SUFFICES ASSUME Init PROVE Inv
  OBVIOUS
<1>1. TypeOK
  BY TypeInit
<1>2. loading = Null /\ Res = {}
  BY DEF Init
<1> QED
  BY <1>1, <1>2 DEF Inv, WalkInv, SearchInv

\* The walk keeps its type: Res holds entries only, and no walk leaves MemorySSA.
THEOREM TypeCorrect == Spec => []TypeOK
<1>1. Inv => TypeOK
  BY DEF Inv
<1> QED
  BY <1>1, InitInv, StepInv, PTL DEF Spec

-----------------------------------------------------------------------------
\* The operators of Promise are those of MemSSAUtils.
LEMMA SameOperators ==
  /\ Promise!EntriesOnEntry = EntriesOnEntry
  /\ \A en, v : Promise!Retrieved(en, v) = Retrieved(en, v)
  /\ \A en, s, e : Promise!StoredError(en, s, e) = StoredError(en, s, e)
  /\ \A en, s, e : Promise!EntriesAfterStore(en, s, e) = EntriesAfterStore(en, s, e)
  /\ \A ce, s, e : Promise!CellsAfterStore(ce, s, e) = CellsAfterStore(ce, s, e)
  /\ \A en, ce, l, found : Promise!LoadError(en, ce, l, found) = LoadError(en, ce, l, found)
<1>1. Promise!OriginOf = OriginOf
  <2>1. \A v : Promise!Reload(v) = Reload(v)
    BY SameSets DEF Promise!Reload, Reload
  <2>2. \A v : Promise!OriginStep(v) = OriginStep(v)
    BY <2>1 DEF Promise!OriginStep, OriginStep
  <2>3. \A q : Promise!Origins(q) = Origins(q)
    BY <2>2, SameSets DEF Promise!Origins, Origins
  <2> QED
    BY <2>3, SameSets DEF Promise!OriginOf, OriginOf
<1>2. \A q : Promise!getOriginPointer(q) = getOriginPointer(q)
  BY <1>1 DEF Promise!getOriginPointer, getOriginPointer
<1>3. \A en, v, s, e : Promise!Learns(en, v, s, e) <=> Learns(en, v, s, e)
  BY <1>2, SameChain DEF Promise!Learns, Learns
<1>4. \A en, s, e : Promise!EntriesAfterStore(en, s, e) = EntriesAfterStore(en, s, e)
  BY <1>3 DEF Promise!EntriesAfterStore, EntriesAfterStore
<1>7. \A en, ce, l, found : Promise!LoadError(en, ce, l, found) = LoadError(en, ce, l, found)
  BY DEF Promise!LoadError, LoadError, Promise!KnownErrors, KnownErrors, Promise!Content, Content
<1>8. \A en, s, e : Promise!StoredError(en, s, e) = StoredError(en, s, e)
  BY SameChain DEF Promise!StoredError, StoredError
<1> QED
  BY <1>4, <1>7, <1>8 DEF Promise!EntriesOnEntry, EntriesOnEntry, Promise!Retrieved, Retrieved,
     Promise!CellsAfterStore, CellsAfterStore

\* Whatever happens before a load ends happens to the promise, or it stutters.
LEMMA StepRefines ==
  ASSUME Inv, [Next]_vars
  PROVE  [Promise!Next]_(Promise!vars)
<1>1. CASE UNCHANGED vars
  BY <1>1 DEF vars, Promise!vars
<1>2. ASSUME NEW s \in Stores, NEW e \in Errors \cup {Absent}, Store(s, e)
      PROVE  Promise!Next
  <2>1. Promise!Store(s, e)
    BY <1>2, SameOperators, SameChain DEF Store, Promise!Store
  <2> QED
    BY <2>1, SameSets DEF Promise!Next
<1>3. ASSUME NEW c \in Calls, NEW e \in Errors, Call(c, e)
      PROVE  Promise!Next
  <2>1. Promise!Call(c, e)
    BY <1>3, SameOperators DEF Call, Promise!Call
  <2> QED
    BY <2>1, SameSets DEF Promise!Next
<1>4. ASSUME NEW l \in Loads, LoadPointer(l) \/ Begin(l)
      PROVE  Promise!Next
  <2>1. Promise!LoadPointer(l) \/ Promise!Begin(l)
    BY <1>4, SameOperators DEF LoadPointer, Begin, Promise!LoadPointer, Promise!Begin
  <2> QED
    BY <2>1, SameSets DEF Promise!Next
<1>5. CASE Finish
  <2>1. Promise!Load
    BY <1>5, FinishInv, SameOperators DEF Finish, Walking, Promise!Load
  <2> QED
    BY <2>1 DEF Promise!Next
<1>6. CASE (\E a \in Accesses : Visit(a) \/ AlreadyVisited(a)) \/ Look \/ LookSloppily
  BY <1>6 DEF Visit, AlreadyVisited, Look, LookSloppily, Promise!vars
<1> QED
  BY <1>1, <1>2, <1>3, <1>4, <1>5, <1>6 DEF Next, Walk

\* MemSSAUtils implements ReachingDefinitions: loads find the entries of exactly
\* the stores that may define them, whatever cycles the MemoryPhis form.
THEOREM FindsThem == Spec => FindsReachingDefinitions
<1>1. Init => Promise!Init
  BY SameOperators DEF Init, Promise!Init
<1>2. Inv /\ [Next]_vars => [Promise!Next]_(Promise!vars)
  BY StepRefines
<1> QED
  BY <1>1, <1>2, InitInv, StepInv, PTL DEF Spec, FindsReachingDefinitions, Promise!Spec

\* No load claims less than a store that may have written what it reads, unless
\* several were found and the load has no range.
THEOREM LoadsCover == Spec => LoadsCoverStores
<1> DEFINE reaching == Promise!ReachingTo[loading] \cap Stores
           Covers == Finish =>
             \/ \A s \in reaching : Known(entries[s]) =>
                  Known(entries'[loading]) /\ entries'[loading] >= entries[s]
             \/ entries[loading] = Absent /\ entries'[loading] = Absent
<1>1. Inv => Covers
  <2> SUFFICES ASSUME Inv, Finish
               PROVE  \/ \A s \in reaching : Known(entries[s]) =>
                           Known(entries'[loading]) /\ entries'[loading] >= entries[s]
                      \/ entries[loading] = Absent /\ entries'[loading] = Absent
    OBVIOUS
  <2> DEFINE found == Promise!Found(loading)
             e == LoadError(entries, cells, loading, found)
             known == KnownErrors(entries, cells, found)
  <2>1. /\ loading \in Loads /\ loading \in Values
        /\ entries \in [Values -> RangeErrors] /\ cells \in [Cells -> RangeErrors]
    BY Kinds DEF Finish, Walking, Inv, TypeOK
  <2>2. found \subseteq Values \cup Cells \cup {Null} /\ entries' = [entries EXCEPT ![loading] = e]
    BY FinishInv
  <2>3. entries'[loading] = e
    BY <2>1, <2>2
  <2>4. \A s \in reaching : Known(entries[s]) => entries[s] \in known
    <3> TAKE s \in reaching
    <3> HAVE Known(entries[s])
    <3>1. Entry(entries, s) = s
      BY AccessAssumption DEF Known, Entry
    <3>2. s \in found
      BY <3>1, SameSets DEF Promise!Found, Promise!Entry, Entry
    <3>3. s # Null /\ s \notin Cells
      BY Kinds, AccessAssumption
    <3> QED
      BY <3>2, <3>3 DEF KnownErrors, Content, Known
  <2> HIDE DEF found
  <2>5. \/ \A d \in known : e \in Nat /\ d <= e
        \/ entries[loading] = Absent /\ e = Absent
    BY <2>1, <2>2, LoadErrorIs
  <2>6. known \subseteq Nat
    BY DEF KnownErrors
  <2> HIDE DEF known, e, reaching
  <2> QED
    BY <2>3, <2>4, <2>5, <2>6 DEF Known
<1> HIDE DEF Covers
<1>2. Inv /\ [Next]_vars => [Covers]_vars
  BY <1>1
<1> QED
  BY <1>2, InitInv, StepInv, PTL DEF Spec, LoadsCoverStores, Covers
=============================================================================
