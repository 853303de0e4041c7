---------------------------- MODULE MemoryAccesses ----------------------------
(***************************************************************************)
(* One function as loads and stores see it: its pointers, LLVM's MemorySSA *)
(* for it, and what evaluating an instruction does with the errors found.  *)
(* A memory access is named by its instruction; the entry of a value in    *)
(* the RangeErrorMap is an error, NoErr or Absent.                         *)
(***************************************************************************)
EXTENDS Integers, FiniteSets

CONSTANTS Values, Op,         \* arguments, globals and instructions; what they are
          Pointer, Stored,    \* pointer and value operands
          PointerTyped,       \* the loads of pointers
          Phis, LiveOnEntry,  \* MemoryPhis, and the state of memory on entry
          Clobbering,         \* the walker's answer for each load in MemorySSA
          Incoming,           \* incoming definitions of each MemoryPhi
          Actuals,            \* the pointers among the arguments of each call
          Cells, FieldOf,     \* fields of structs, and the pointers to them
          Info, Rounding,     \* metadata, and rounding errors of its types
          FieldInfo,          \* what metadata may say of a field
          Errors,             \* errors of values that are stored
          Null, Absent, NoErr

Of(op) == {v \in Values : Op[v] = op}
Loads == Of("load")
Stores == Of("store")
Calls == Of("call")
Definitions == Stores \cup Calls \cup {LiveOnEntry}
HasPointer == Loads \cup Stores \cup Of("gep") \cup Of("bitcast")
Addresses == {Pointer[v] : v \in HasPointer} \cup ({Stored[s] : s \in Stores} \cap Values)
Accesses == DOMAIN Clobbering \cup Definitions \cup Phis
Objects == {"argument", "alloca", "global"}
RangeErrors == Nat \cup {Absent, NoErr}

ASSUME AccessAssumption ==
  /\ Op \in [Values -> Objects \cup {"gep", "bitcast", "load", "store", "call", "other"}]
  /\ \A v \in HasPointer : Pointer[v] \in Values
  /\ \A v \in Stores : Stored[v] \in Values \cup {Null}
  /\ DOMAIN Clobbering \subseteq Loads
  /\ \A v \in DOMAIN Clobbering : Clobbering[v] \in Definitions \cup Phis
  /\ Incoming \in [Phis -> SUBSET (Definitions \cup Phis)]
  /\ Actuals \in [Calls -> SUBSET Values]
  /\ FieldOf \in [Values -> Cells \cup {Null}]
  /\ Info \in [Values -> RangeErrors] /\ Rounding \in [Loads -> Nat]
  /\ PointerTyped \subseteq Loads /\ Errors \subseteq Nat /\ FieldInfo \subseteq RangeErrors
  /\ IsFiniteSet(Values) /\ IsFiniteSet(Cells)
  /\ LiveOnEntry \notin Values \cup Phis /\ Phis \cap Values = {} /\ Cells \cap Values = {}
  /\ Null \notin Values \cup Cells /\ Absent \notin Nat /\ NoErr \notin Nat /\ Absent # NoErr

Known(e) == e \in Nat

\* retrieveRangeError: metadata replaces the entry.
Retrieved(entries, v) ==
  IF Info[v] = Absent THEN entries ELSE [entries EXCEPT ![v] = Info[v]]

\* A reload of a pointer is traced to the value last stored, if one store clobbers it.
Reload(v) ==
  IF v \in DOMAIN Clobbering /\ Clobbering[v] \in Stores THEN Stored[Clobbering[v]] ELSE Pointer[v]

\* getOriginPointer: followed through geps, casts and reloads up to an argument
\* or an alloca.
OriginStep(v) == IF Op[v] = "load" THEN {Reload(v)}
                 ELSE IF Op[v] \in {"gep", "bitcast"} THEN {Pointer[v]} ELSE {}
Origins(p) ==
  {v \in Values : /\ Op[v] \in {"argument", "alloca"}
                  /\ \A S \in SUBSET Addresses :
                       p \in S /\ (\A w \in S : OriginStep(w) \cap Values \subseteq S) => v \in S}
OriginOf == [p \in Addresses |-> Origins(p)]   \* at most one
getOriginPointer(p) == OriginOf[p]

\* propagateStore: the error of the stored value, or else of the pointer.  A value
\* that is not in Values has error e.
StoredError(entries, s, e) ==
  LET source == IF Stored[s] = Null THEN e ELSE entries[Stored[s]]
  IN  IF Known(source) THEN source ELSE entries[Pointer[s]]

\* updateArgumentRE: the origin takes a larger error.
Learns(entries, v, s, e) ==
  v \in getOriginPointer(Pointer[s]) /\ (~Known(entries[v]) \/ entries[v] < e)

EntriesAfterStore(entries, s, e) ==
  [v \in Values |-> IF v = s \/ Learns(entries, v, s, e) THEN e ELSE entries[v]]
CellsAfterStore(cells, s, e) ==
  [c \in Cells |-> IF FieldOf[Pointer[s]] = c THEN e ELSE cells[c]]

\* What a found pointer to an entry of the map, or to that of a field, holds.
Content(entries, cells, k) == IF k \in Cells THEN cells[k] ELSE entries[k]

\* getRangeError of an instruction: nullptr if there is no entry.
Entry(entries, v) == IF entries[v] = Absent THEN Null ELSE v

\* getStructRangeError, if the pointer is to a field that has an entry.
FieldEntry(cells, l) == {c \in Cells : c = FieldOf[Pointer[l]] /\ cells[c] # Absent}

\* The errors among the entries that were found.
KnownErrors(entries, cells, found) ==
  {Content(entries, cells, k) : k \in found \ {Null}} \cap Nat

\* Mutant: of several errors the smallest.
SmallestError(entries, cells, l, found) ==
  LET known == KnownErrors(entries, cells, found)
  IN  IF \E k \in found : k # Null /\ found = {k}
      THEN Content(entries, cells, CHOOSE k \in found : TRUE)
      ELSE IF entries[l] = Absent THEN Absent
      ELSE IF known = {} THEN Rounding[l]
      ELSE CHOOSE e \in known : \A d \in known : e <= d

\* propagateLoad, after sort and unique: a single entry as it is; of several the
\* largest error, or else the rounding error, if the load has a range.
LoadError(entries, cells, l, found) ==
  LET known == KnownErrors(entries, cells, found)
  IN  IF \E k \in found : k # Null /\ found = {k}
      THEN Content(entries, cells, CHOOSE k \in found : TRUE)
      ELSE IF entries[l] = Absent THEN Absent
      ELSE IF known = {} THEN Rounding[l]
      ELSE CHOOSE e \in known : \A d \in known : d <= e

\* Before the function is evaluated: metadata of arguments, globals and fields.
EntriesOnEntry == [v \in Values |-> IF Op[v] \in {"argument", "global"} THEN Info[v] ELSE Absent]
=============================================================================
