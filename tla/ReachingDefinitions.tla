------------------------- MODULE ReachingDefinitions -------------------------
(***************************************************************************)
(* What a load is promised: in one step it finds the entries of exactly    *)
(* the stores from which a path of MemoryPhis leads to it, and, where the  *)
(* state on entry or a call may define it, the nearest error on its chain  *)
(* of pointers.  MemSSAUtils is how the code finds them.                   *)
(***************************************************************************)
EXTENDS MemoryAccesses

VARIABLES entries,  \* REMap
          cells,    \* the errors of fields of structs, in SEMap
          loading,  \* the load being evaluated
          SloppyAA  \* the option -sloppyaa

vars == <<entries, cells, loading, SloppyAA>>

\* The smallest set that holds what defines a load and what defines its phis.
Closed(S) == \A a \in S \cap Phis : Incoming[a] \subseteq S
Reaching(l) ==
  {a \in Definitions \cup Phis :
     \A S \in SUBSET (Definitions \cup Phis) : Clobbering[l] \in S /\ Closed(S) => a \in S}
ReachingTo == [l \in Loads |-> IF l \in DOMAIN Clobbering THEN Reaching(l) ELSE {}]

\* The pointers looked at for a load: the chain ends at an error, and at what is
\* neither a load nor a gep.
Behind(v) == IF Op[v] \in {"load", "gep"} THEN {Pointer[v]} ELSE {}
Complete(S) == \A p \in S : ~Known(entries[p]) => Behind(p) \subseteq S
Chain(l) == {p \in Addresses : \A S \in SUBSET Addresses : Pointer[l] \in S /\ Complete(S) => p \in S}
NearestError(l) == {p \in Chain(l) : Known(entries[p])}

\* What the load finds.
Found(l) ==
  {Entry(entries, s) : s \in ReachingTo[l] \cap Stores}
  \cup (IF SloppyAA \/ ReachingTo[l] \cap (Calls \cup {LiveOnEntry}) # {} THEN NearestError(l) ELSE {})
  \cup FieldEntry(cells, l)

Init ==
  /\ entries = EntriesOnEntry
  /\ cells \in [Cells -> FieldInfo]
  /\ loading = Null /\ SloppyAA \in BOOLEAN

\* Evaluation of a store whose operand has error e, or none.
Store(s, e) ==
  /\ loading = Null
  /\ LET now == Retrieved(entries, s)
         error == StoredError(now, s, e)
     IN  IF Known(error)
         THEN /\ entries' = EntriesAfterStore(now, s, error)
              /\ cells' = CellsAfterStore(cells, s, error)
         ELSE entries' = now /\ UNCHANGED cells
  /\ UNCHANGED <<loading, SloppyAA>>

\* Evaluation of a call that leaves error e in what its pointer arguments address.
Call(c, e) ==
  /\ loading = Null
  /\ entries' = [v \in Values |-> IF v \in Actuals[c] THEN e ELSE Retrieved(entries, c)[v]]
  /\ UNCHANGED <<cells, loading, SloppyAA>>

\* Evaluation of a load of a pointer, which gets its metadata only.
LoadPointer(l) ==
  /\ loading = Null /\ l \in PointerTyped
  /\ entries' = Retrieved(entries, l)
  /\ UNCHANGED <<cells, loading, SloppyAA>>

\* Evaluation of another load.
Begin(l) ==
  /\ loading = Null /\ l \notin PointerTyped
  /\ entries' = Retrieved(entries, l) /\ loading' = l
  /\ UNCHANGED <<cells, SloppyAA>>

Load ==
  /\ loading # Null
  /\ entries' = [entries EXCEPT ![loading] = LoadError(entries, cells, loading, Found(loading))]
  /\ loading' = Null
  /\ UNCHANGED <<cells, SloppyAA>>

Next ==
  \/ \E s \in Stores, e \in Errors \cup {Absent} : Store(s, e)
  \/ \E c \in Calls, e \in Errors : Call(c, e)
  \/ \E l \in Loads : LoadPointer(l) \/ Begin(l)
  \/ Load

Spec == Init /\ [][Next]_vars
=============================================================================
