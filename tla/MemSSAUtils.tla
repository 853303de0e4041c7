----------------------------- MODULE MemSSAUtils -----------------------------
(***************************************************************************)
(* How a load finds the definitions that reach it: findMemSSAError walks   *)
(* MemorySSA from the load through MemoryPhis, which may form cycles, and  *)
(* findLOEError follows the pointer operands where a call or the state of  *)
(* memory on entry is the definition.  One step is one call of the two.    *)
(*                                                                         *)
(* Stores, calls and loads of the function are evaluated in any order and  *)
(* repeatedly.  What is found is sorted in the end, so that the accesses   *)
(* still to visit are a set; the recursion takes them depth first.         *)
(***************************************************************************)
EXTENDS MemoryAccesses

VARIABLES entries, cells, loading, SloppyAA,
          todo,     \* calls of findMemSSAError still to come
          looking,  \* the instruction findLOEError is called for, or Null
          sloppy,   \* -sloppyaa: the call of findLOEError after the walk is to come
          Visited, Res

walk == <<todo, looking, sloppy, Visited, Res>>
vars == <<entries, cells, loading, SloppyAA, walk>>

Init ==
  /\ entries = EntriesOnEntry
  /\ cells \in [Cells -> FieldInfo]
  /\ loading = Null /\ SloppyAA \in BOOLEAN
  /\ todo = {} /\ looking = Null /\ sloppy = FALSE
  /\ Visited = {} /\ Res = {}

Store(s, e) ==
  /\ loading = Null
  /\ LET now == Retrieved(entries, s)
         error == StoredError(now, s, e)
     IN  IF Known(error)
         THEN /\ entries' = EntriesAfterStore(now, s, error)
              /\ cells' = CellsAfterStore(cells, s, error)
         ELSE entries' = now /\ UNCHANGED cells
  /\ UNCHANGED <<loading, SloppyAA, walk>>

\* The callee's errors of pointer arguments replace the caller's.
Call(c, e) ==
  /\ loading = Null
  /\ entries' = [v \in Values |-> IF v \in Actuals[c] THEN e ELSE Retrieved(entries, c)[v]]
  /\ UNCHANGED <<cells, loading, SloppyAA, walk>>

LoadPointer(l) ==
  /\ loading = Null /\ l \in PointerTyped
  /\ entries' = Retrieved(entries, l)
  /\ UNCHANGED <<cells, loading, SloppyAA, walk>>

\* A new MemSSAUtils; getMemoryAccess may be nullptr, which findMemSSAError ignores.
Begin(l) ==
  /\ loading = Null /\ l \notin PointerTyped
  /\ entries' = Retrieved(entries, l) /\ loading' = l
  /\ todo' = {l} \cap DOMAIN Clobbering
  /\ looking' = Null /\ sloppy' = SloppyAA /\ Visited' = {} /\ Res' = {}
  /\ UNCHANGED <<cells, SloppyAA>>

-----------------------------------------------------------------------------
(* The walk.                                                               *)

Walking == loading # Null /\ looking = Null

\* Mutant: a phi calls findMemSSAError for its first incoming definition only.
FollowFirst(a) ==
  IF a \in Phis THEN {CHOOSE d \in Incoming[a] : TRUE}
  ELSE IF a \in DOMAIN Clobbering THEN {Clobbering[a]} ELSE {}

\* findMemPhiError follows all incoming definitions, a use its clobbering access.
Follows(a) ==
  IF a \in Phis THEN Incoming[a]
  ELSE IF a \in DOMAIN Clobbering THEN {Clobbering[a]} ELSE {}

\* Mutant: a store that has no entry yet is pushed as if it had one.
PushesAll(a) == IF a \in Stores THEN {a} ELSE {}

\* findMemDefError of a store pushes its entry, or nullptr.
Pushes(a) == IF a \in Stores THEN {Entry(entries, a)} ELSE {}

\* Mutant: only definitions are remembered.
RememberDefinitions(a) == Visited \cup ({a} \cap Definitions)

Remember(a) == Visited \cup {a}

\* findMemSSAError.
Visit(a) ==
  /\ Walking /\ a \in todo \ Visited
  /\ Visited' = Remember(a)
  /\ todo' = (todo \ {a}) \cup Follows(a)
  /\ Res' = Res \cup Pushes(a)
  /\ looking' = IF a \in Calls \cup {LiveOnEntry} THEN loading ELSE Null
  /\ UNCHANGED <<entries, cells, loading, SloppyAA, sloppy>>

AlreadyVisited(a) ==
  /\ Walking /\ a \in todo \cap Visited
  /\ todo' = todo \ {a}
  /\ UNCHANGED <<entries, cells, loading, SloppyAA, looking, sloppy, Visited, Res>>

\* findLOEError: the pointer's error, or the search goes on behind the pointer.
\* The case of a bitcast has no break and runs into the default.
Look ==
  /\ loading # Null /\ looking # Null
  /\ IF Op[looking] \in {"load", "gep"}
     THEN LET p == Pointer[looking]
          IN  IF Known(entries[p]) THEN Res' = Res \cup {p} /\ looking' = Null
              ELSE looking' = (IF Op[p] \in Objects THEN Null ELSE p) /\ UNCHANGED Res
     ELSE looking' = Null /\ UNCHANGED Res
  /\ UNCHANGED <<entries, cells, loading, SloppyAA, todo, sloppy, Visited>>

\* "for when AliasAnalysis fails": the pointers are followed in any case.
LookSloppily ==
  /\ Walking /\ todo = {} /\ sloppy
  /\ sloppy' = FALSE /\ looking' = loading
  /\ UNCHANGED <<entries, cells, loading, SloppyAA, todo, Visited, Res>>

\* The rest of propagateLoad.
Finish ==
  /\ Walking /\ todo = {} /\ ~sloppy
  /\ entries' = [entries EXCEPT
       ![loading] = LoadError(entries, cells, loading, Res \cup FieldEntry(cells, loading))]
  /\ loading' = Null /\ Visited' = {} /\ Res' = {}
  /\ UNCHANGED <<cells, SloppyAA, todo, looking, sloppy>>

Walk == (\E a \in Accesses : Visit(a) \/ AlreadyVisited(a)) \/ Look \/ LookSloppily \/ Finish

Next ==
  \/ \E s \in Stores, e \in Errors \cup {Absent} : Store(s, e)
  \/ \E c \in Calls, e \in Errors : Call(c, e)
  \/ \E l \in Loads : LoadPointer(l) \/ Begin(l)
  \/ Walk

Spec == Init /\ [][Next]_vars
FairSpec == Spec /\ WF_vars(Walk)

-----------------------------------------------------------------------------
(* Properties.                                                             *)

\* A walk collects entries of stores and pointers only, and visits accesses only.
TypeOK ==
  /\ entries \in [Values -> RangeErrors] /\ cells \in [Cells -> RangeErrors]
  /\ loading \in Loads \cup {Null} /\ looking \in Values \cup {Null}
  /\ sloppy \in BOOLEAN /\ SloppyAA \in BOOLEAN
  /\ todo \subseteq Accesses /\ Visited \subseteq Accesses
  /\ \A k \in Res : \/ k = Null
                     \/ (k \in Stores /\ entries[k] # Absent)
                     \/ (k \in Values /\ Known(entries[k]))

\* The walk finds what ReachingDefinitions promises, whatever cycles there are
\* among the MemoryPhis (findMemSSAError, findMemPhiError).
Promise == INSTANCE ReachingDefinitions
FindsReachingDefinitions == Promise!Spec

\* The error of a load covers every store that may have written what it reads
\* and has been evaluated; unless several definitions were found for a load
\* without a range, which gets no error (propagateLoad).
LoadsCoverStores ==
  [][ Finish =>
        LET reaching == Promise!ReachingTo[loading] \cap Stores
        IN  \/ \A s \in reaching : Known(entries[s]) =>
                 Known(entries'[loading]) /\ entries'[loading] >= entries[s]
            \/ entries[loading] = Absent /\ entries'[loading] = Absent ]_vars

\* Every load is finished: cycles of MemoryPhis end at what was visited
\* (findMemSSAError), chains of pointers at an argument, alloca or global.
WalksEnd == loading # Null ~> loading = Null
=============================================================================
