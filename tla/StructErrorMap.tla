--------------------------- MODULE StructErrorMap ---------------------------
(***************************************************************************)
(* Errors of struct fields: the StructErrorMap inside every RangeErrorMap. *)
(* It keeps a tree of errors for each struct object, finds the tree and    *)
(* the field a pointer expression denotes by walking through the           *)
(* expression (StructTreeWalker), and follows a callee's parameters into   *)
(* the caller by way of ArgBindings.                                       *)
(*                                                                         *)
(* The functions under analysis are given by the values they can use and   *)
(* the calls they can make; an activation executes these in any order.     *)
(* FunctionErrorPropagator models the rest of an activation.               *)
(*                                                                         *)
(* Next to the trees the module follows the memory of the program itself:  *)
(* memory holds the entry last given to every field of every object, and   *)
(* places the objects that the parameters of an activation point to.       *)
(***************************************************************************)
EXTENDS Integers, Sequences, FiniteSets, SequencesExt

CONSTANTS Values,     \* pointers and struct objects of the program
          Functions,
          Def,        \* what each value is
          Position,   \* where each value is defined: after its operands
          Formals,    \* the parameters of each function
          Calls,      \* the calls in the program
          Accessed,   \* the pointers that loads and stores use
          Types,
          Elements,   \* field types of a struct; element type of an array or pointer
          Kind,       \* of a type: "struct", "array", "pointer" or "scalar"
          Paths,      \* sequences of field numbers, down to the deepest field
          Info,       \* struct metadata of a value: the non-null fields
          Errors,     \* bound: the errors that stores produce
          MaxRecCount, MaxDepth,  \* bounds: activations of one function, and of all
          Null, Unbound, Absent,  \* nullptr; no binding; no tree node
          NoErr,      \* a field with a range and no error
          Nested,     \* a field described by struct metadata of its own
          Variable    \* an index that is no constant

Kinds == {"gep", "load", "extractvalue", "argument", "alloca", "global", "aggregate", "other"}
Entries == Nat \cup {NoErr}
Indices == Nat \cup {Variable}

StructTypes == {T \in Types : Kind[T] = "struct"}

\* The keys of ArgBindings, and those of the StructMap.
Parameters == {v \in Values : Def[v].kind = "argument"}
Objects == {v \in Values : \/ Def[v].kind = "aggregate"
                           \/ /\ Def[v].kind \in {"argument", "alloca", "global"}
                              /\ Def[v].pointee \in StructTypes}

\* base: the pointer operand, or the aggregate; pointee: what the pointer points
\* to, of an aggregate its own type.
ASSUME DefinitionsAssumption ==
  /\ Def \in [Values -> [kind : Kinds, owner : Functions \cup {Null}, base : Values \cup {Null},
                         idx : Seq(Indices), pointee : Types]]
  /\ Kind \in [Types -> {"struct", "array", "pointer", "scalar"}]
  /\ Elements \in [Types -> Seq(Types)]
  /\ Formals \in [Functions -> Seq(Values)]
  /\ \A f \in Functions : \A k \in DOMAIN Formals[f] :
       Def[Formals[f][k]].kind = "argument" /\ Def[Formals[f][k]].owner = f
  /\ Null \notin Values \cup Functions /\ Unbound \notin Values \cup {Null}
  /\ Variable \notin Nat
  /\ Errors \subseteq Nat /\ Accessed \subseteq Values

FieldType(T, c) == Elements[T][c + 1]

\* A pointer is computed from one of its own function, or a global, that is
\* defined before it; an index selects a field, by a constant, or an element of
\* an array; parameters and allocas belong to a function.
ASSUME OperandsAssumption ==
  /\ IsFiniteSet(Values) /\ Position \in [Values -> Nat]
  /\ \A v \in Values :
       Def[v].kind \in {"gep", "load"} =>
         /\ Def[v].base \in Values /\ Position[Def[v].base] < Position[v]
         /\ Def[Def[v].base].owner \in {Def[v].owner, Null}
  /\ \A v \in Values :
       Def[v].kind = "extractvalue" =>
         Def[v].idx \in Seq(Nat) /\ Def[v].base \in Values /\ Def[Def[v].base].kind = "aggregate"
  /\ \A v \in Values :
       Def[v].kind = "gep" /\ Len(Def[v].idx) = 2 =>
         LET T == Def[Def[v].base].pointee
             i == Def[v].idx[2]
         IN  \/ /\ Kind[T] = "struct" /\ i \in 0 .. Len(Elements[T]) - 1
                /\ Def[v].pointee = FieldType(T, i)
             \/ Kind[T] = "array" /\ Def[v].pointee = Elements[T][1]
  /\ \A v \in Values : Def[v].kind \in {"argument", "alloca"} => Def[v].owner # Null

\* The parameters of a function are its arguments, each once.
ASSUME FormalsAssumption ==
  /\ \A a \in Parameters : a \in Range(Formals[Def[a].owner])
  /\ \A f \in Functions : \A j, k \in DOMAIN Formals[f] : Formals[f][j] = Formals[f][k] => j = k

\* A call passes one value of its own function, or a global, for each parameter,
\* of the parameter's type.
ASSUME CallsAssumption ==
  /\ Calls \subseteq [caller : Functions, callee : Functions, args : Seq(Values)]
  /\ \A c \in Calls : /\ DOMAIN c.args = DOMAIN Formals[c.callee]
                      /\ \A k \in DOMAIN c.args :
                           /\ Def[c.args[k]].owner \in {c.caller, Null}
                           /\ Def[c.args[k]].pointee = Def[Formals[c.callee][k]].pointee

ASSUME BoundsAssumption ==
  /\ MaxDepth \in Nat \ {0} /\ MaxRecCount \in Nat \ {0}
  /\ Paths \subseteq Seq(Nat) /\ <<>> \in Paths /\ \A p \in Paths \ {<<>>} : Front(p) \in Paths
  /\ Null \notin Paths

\* The paths go down to every field of every struct inside an object.
ASSUME PathsAssumption ==
  \E nodes \in SUBSET (Paths \X StructTypes) :
    /\ \A v \in Objects : Def[v].pointee \in StructTypes => <<<<>>, Def[v].pointee>> \in nodes
    /\ \A node \in nodes : \A c \in 0 .. Len(Elements[node[2]]) - 1 :
         LET F == FieldType(node[2], c)
         IN  /\ Append(node[1], c) \in Paths
             /\ F \in StructTypes => <<Append(node[1], c), F>> \in nodes

\* Arrays and pointers are made of other types, in the end of scalars and structs.
ASSUME TypesAssumption ==
  /\ \A T \in Types : Kind[T] \in {"array", "pointer"} => Elements[T] # <<>>
  /\ \A S \in SUBSET Types :
       (\A T \in S : Kind[T] \in {"array", "pointer"} /\ Elements[T][1] \in S) => S = {}
  /\ Absent \notin Entries /\ \A T \in Types : T \notin Entries \cup {Absent}

VARIABLES stack,   \* the activations, outermost first, each with its StructErrorMap
          trapped, \* an assertion failed, or the walk never ends
          memory,  \* history: the entry last given to each field of an object not stale
          stale,   \* history: objects stored to by a callee that was not given them, and
                   \* both objects when the walker may take one for another: in a store,
                   \* or for a parameter, through an expression that it misreads
          again    \* history: some function has been active more than once

vars == <<stack, trapped, memory, stale, again>>

-----------------------------------------------------------------------------
(* Trees: the content of every path, a struct type for a StructNode, an    *)
(* entry for a StructError.                                                *)

NoTree == [p \in Paths |-> Absent]
At(tree, p) == IF p \in Paths THEN tree[p] ELSE Absent

\* Arrays stripped off a type, and how many they are.
Sequential[T \in Types] == IF Kind[T] = "array" THEN 1 + Sequential[Elements[T][1]] ELSE 0
ElementType[T \in Types] == IF Kind[T] = "array" THEN ElementType[Elements[T][1]] ELSE T

\* getElementStructType strips pointers too.
getElementStructType[T \in Types] ==
  IF Kind[T] \in {"array", "pointer"} THEN getElementStructType[Elements[T][1]] ELSE T

\* The node that the walk from the root reaches, and the nodes it creates.
Found(p, made) == [at |-> p, made |-> made, trap |-> FALSE]
NotFound(made) == [at |-> Null, made |-> made, trap |-> FALSE]
Trap == [at |-> Null, made |-> {}, trap |-> TRUE]

\* The nodes a walk may come to, with their types and the indices that are left.
Nodes == [path : Seq(Nat), type : StructTypes, indices : Seq(Nat)]

\* navigateStructTree: the field below each node, given what the recursive call
\* returns.  A node takes one index from the back of the stack, and more for the
\* arrays it passes when it creates a node.  An empty stack, or a field the struct
\* type does not have, is an assertion of LLVM's.
navigateStructTree(tree, Create, rest) ==
  [node \in Nodes |->
     LET c == Last(node.indices)
         left == Front(node.indices)
         child == Append(node.path, c)
         F == FieldType(node.type, c)
         arrays == Sequential[F]
         Below(T, indices) == rest[[path |-> child, type |-> T, indices |-> indices]]
     IN  IF node.indices = <<>> THEN Trap
         ELSE IF At(tree, child) \in StructTypes THEN Below(tree[child], left)
         ELSE IF At(tree, child) # Absent THEN Found(child, {})
         ELSE IF ~Create THEN NotFound({})
         ELSE IF c \notin 0 .. Len(Elements[node.type]) - 1 THEN Trap
         ELSE IF Len(left) < arrays THEN NotFound({})
         ELSE IF ElementType[F] \notin StructTypes THEN Found(child, {<<child, NoErr>>})
         ELSE [Below(ElementType[F], SubSeq(left, 1, Len(left) - arrays))
                 EXCEPT !.made = @ \cup {<<child, ElementType[F]>>}]]

\* getFieldNode and getOrCreateFieldNode.
getFieldNode(tree, indices, Create) ==
  LET from[n \in Nat] == IF n = 0 THEN [node \in Nodes |-> Trap]
                         ELSE navigateStructTree(tree, Create, from[n - 1])
  IN  from[Len(indices)][[path |-> <<>>, type |-> tree[<<>>], indices |-> indices]]

\* Mutant: a new StructNode is not linked to its parent.
LostNodes(tree, made) == tree

\* The tree with the nodes made by the walk.
WithNodes(tree, made) ==
  [p \in Paths |-> IF \E n \in made : n[1] = p THEN (CHOOSE n \in made : n[1] = p)[2] ELSE tree[p]]

\* The fields that metadata describe by struct metadata, and their types.
NestedIn(v) == {<<>>} \cup {p \in DOMAIN Info[v] : Info[v][p] = Nested}
NestedTypes(v) ==
  {type \in [NestedIn(v) -> StructTypes] :
     /\ \A p \in DOMAIN Info[v] :
          /\ Last(p) < Len(Elements[type[Front(p)]])
          /\ FieldType(type[Front(p)], Last(p)) \in StructTypes => Info[v][p] = Nested
     /\ \A p \in NestedIn(v) :
          type[p] = getElementStructType[IF p = <<>> THEN Def[v].pointee
                                         ELSE FieldType(type[Front(p)], Last(p))]}

\* Metadata of structs have the shape of their types.
ASSUME MetadataAssumption ==
  \A v \in DOMAIN Info :
    /\ DOMAIN Info[v] \subseteq Paths \ {<<>>} /\ \A p \in DOMAIN Info[v] : Front(p) \in NestedIn(v)
    /\ \A p \in DOMAIN Info[v] : Info[v][p] \in Entries \cup {Nested}
    /\ NestedTypes(v) # {}

\* StructNode and StructError from metadata: null fields stay empty.
FromMetadata(v) ==
  LET types == CHOOSE type \in NestedTypes(v) : TRUE
  IN  [p \in Paths |-> CASE p \in NestedIn(v) -> types[p]
                         [] p \in DOMAIN Info[v] \ NestedIn(v) -> Info[v][p]
                         [] OTHER -> Absent]

-----------------------------------------------------------------------------
(* StructTreeWalker: from a pointer to the object it points into.          *)

parseIndex(i) == IF i = Variable THEN 0 ELSE i
Tail1(idx) == [k \in 1 .. Len(idx) - 1 |-> parseIndex(idx[k + 1])]

Way(root, indices) == [root |-> root, indices |-> indices, endless |-> FALSE]
Endless == [root |-> Null, indices |-> <<>>, endless |-> TRUE]

Push(s, new) == s \o new

\* navigatePointerTreeToRoot: the way from each value, given what the recursive
\* call returns for each.
navigatePointerTreeToRoot(bind, rest) ==
  [v \in Values |->
     LET d == Def[v]
         Root == IF d.pointee \in StructTypes THEN v ELSE Null
     IN  CASE d.kind = "gep" -> [rest[d.base] EXCEPT !.indices = Push(Tail1(d.idx), @)]
           [] d.kind = "load" -> rest[d.base]
           [] d.kind = "argument" -> IF bind[v] \in Values THEN rest[bind[v]] ELSE Way(Root, <<>>)
           [] d.kind \in {"alloca", "global"} -> Way(Root, <<>>)
           [] d.kind = "extractvalue" -> Way(d.base, d.idx)
           [] OTHER -> Way(Null, <<>>)]

\* A walk through more values than there are is a circle of bindings.
retrieveRootPointer(bind, P) ==
  LET walk[n \in Nat] == IF n = 0 THEN [v \in Values |-> Endless]
                         ELSE navigatePointerTreeToRoot(bind, walk[n - 1])
  IN  walk[Cardinality(Values) + 1][P]

\* makeRoot casts the root's type to a pointer to a struct.
makeRoot(v) == [NoTree EXCEPT ![<<>>] = Def[v].pointee]

-----------------------------------------------------------------------------
(* StructErrorMap: trees is the StructMap, bind the ArgBindings.           *)

\* Mutant: an existing binding is replaced.
RebindArguments(bind, f, args) ==
  [v \in Parameters |->
     IF \E k \in DOMAIN args : Formals[f][k] = v /\ Def[v].pointee \in StructTypes
     THEN args[CHOOSE k \in DOMAIN args : Formals[f][k] = v] ELSE bind[v]]

\* initArgumentBindings: DenseMap::insert leaves an existing binding alone.
initArgumentBindings(bind, f, args) ==
  [v \in Parameters |->
     IF /\ bind[v] = Unbound
        /\ \E k \in DOMAIN args : Formals[f][k] = v /\ Def[v].pointee \in StructTypes
     THEN args[CHOOSE k \in DOMAIN args : Formals[f][k] = v] ELSE bind[v]]

\* setFieldError: the new trees, or a trap.
setFieldError(trees, bind, P, e) ==
  LET way == retrieveRootPointer(bind, P)
      new == way.root # Null /\ trees[way.root] = NoTree
      tree == IF new THEN makeRoot(way.root) ELSE trees[way.root]
      field == getFieldNode(tree, way.indices, TRUE)
      grown == WithNodes(tree, field.made)
  IN  IF way.endless \/ (new /\ Def[way.root].kind = "aggregate")
      THEN [trees |-> trees, trap |-> TRUE]
      ELSE IF way.root = Null THEN [trees |-> trees, trap |-> FALSE]
      ELSE [trees |-> [trees EXCEPT ![way.root] =
                         IF field.at = Null THEN grown ELSE [grown EXCEPT ![field.at] = e]],
            trap |-> field.trap]

\* getFieldError: the entry, Absent for nullptr, or a trap.
getFieldError(trees, bind, P) ==
  LET way == retrieveRootPointer(bind, P)
      field == getFieldNode(trees[way.root], way.indices, FALSE)
  IN  IF way.endless THEN [entry |-> Absent, trap |-> TRUE]
      ELSE IF way.root = Null \/ trees[way.root] = NoTree THEN [entry |-> Absent, trap |-> FALSE]
      ELSE [entry |-> IF field.at = Null THEN Absent ELSE trees[way.root][field.at],
            trap |-> field.trap]

\* Mutant: the callee's trees are dropped.
KeepStructTrees(trees, bind, other, Pointers) == trees

\* updateStructTree: for every pointer the other map's tree, if it has one.
updateStructTree(trees, bind, other, Pointers) ==
  LET roots == {retrieveRootPointer(bind, P).root : P \in Pointers}
  IN  [v \in Objects |-> IF v \in roots /\ other[v] # NoTree THEN other[v] ELSE trees[v]]

-----------------------------------------------------------------------------
(* The memory of the program.                                              *)

\* The field a pointer denotes in an activation: the object and the fields on
\* the way, without array indices.  Parameters stand for what was passed.
PlaceOf(activation, P) ==
  LET place[v \in Values] ==
        LET d == Def[v]
            through == place[d.base]
            parameter == {k \in DOMAIN activation.places : Formals[activation.f][k] = v}
        IN  CASE d.kind = "gep" /\ Kind[Def[d.base].pointee] = "struct" ->
                   <<through[1], through[2] \o Tail1(d.idx)>>
              [] d.kind = "gep" /\ Kind[Def[d.base].pointee] # "struct" -> through
              [] d.kind = "argument" /\ parameter # {} ->
                   activation.places[CHOOSE k \in parameter : TRUE]
              [] OTHER -> <<v, <<>>>>
  IN  place[P]

\* Pointers that are built one index at a time, from an object of the function
\* and not through an array of structs or a loaded pointer.
Direct[v \in Values] ==
  LET d == Def[v]
  IN  \/ d.kind \in {"alloca", "global", "argument"} /\ Kind[d.pointee] = "struct"
      \/ /\ d.kind = "gep" /\ Direct[d.base] /\ Len(d.idx) = 2
         /\ Kind[d.pointee] = "struct" => Kind[Def[d.base].pointee] = "struct"
         /\ Kind[d.pointee] = "array" => ElementType[d.pointee] \notin StructTypes

\* Those to a number.
Plain(P) == Direct[P] /\ Kind[Def[P].pointee] = "scalar"

\* The object a pointer points into, and the one the walker takes it for.
TakenFor(activation, P) ==
  {PlaceOf(activation, P)[1], retrieveRootPointer(activation.bind, P).root} \cap Objects

\* The structs an activation was given.
Handed(activation) ==
  {activation.places[k][1] : k \in {k \in DOMAIN activation.places :
                                      Def[Formals[activation.f][k]].pointee \in StructTypes}}

\* What a field of a tree says; nothing for a StructNode.
EntryAt(tree, p) == IF tree[p] \in StructTypes THEN Absent ELSE tree[p]

\* The memory after object v was given what a tree says.
Forget(v, tree) ==
  [o \in Objects \X Paths |->
     IF o[1] = v THEN EntryAt(tree, o[2]) ELSE memory[o]]

-----------------------------------------------------------------------------
Depth == Len(stack)
Top == stack[Depth]
Running == stack # <<>> /\ ~trapped
Active(f) == {d \in DOMAIN stack : stack[d].f = f}

\* GlobalRMap: runOnModule has read the metadata of the globals.
GlobalTrees ==
  [v \in Objects |-> IF Def[v].kind = "global" /\ v \in DOMAIN Info THEN FromMetadata(v) ELSE NoTree]

\* retrieveRangeErrors: the metadata of the parameters.
RetrieveArguments(trees, f) ==
  [v \in Objects |-> IF v \in Range(Formals[f]) /\ v \in DOMAIN Info THEN FromMetadata(v) ELSE trees[v]]

Init ==
  /\ stack = <<>> /\ trapped = FALSE /\ stale = {} /\ again = FALSE
  /\ memory = [o \in Objects \X Paths |-> Absent]

\* runOnModule evaluates a function on its own: there are no arguments to bind.
Visit(f) ==
  /\ stack = <<>> /\ ~trapped
  /\ LET trees == RetrieveArguments(GlobalTrees, f)
     IN  /\ stack' = <<[f |-> f, args |-> <<>>, trees |-> trees,
                        bind |-> [v \in Parameters |-> Unbound], places |-> <<>>, wrote |-> {}]>>
         /\ memory' = [o \in Objects \X Paths |-> EntryAt(trees[o[1]], o[2])]
  /\ UNCHANGED <<trapped, stale, again>>

\* retrieveRangeError(I) of an instruction with struct metadata: "erase previous
\* data".  Of other instructions the tree is the root of no walk.
Evaluate(v) ==
  /\ Running /\ Def[v].kind \in {"alloca", "aggregate"} /\ Def[v].owner = Top.f
  /\ v \in DOMAIN Info
  /\ stack' = [stack EXCEPT ![Depth].trees[v] = FromMetadata(v)]
  /\ memory' = Forget(v, FromMetadata(v))
  /\ stale' = IF Def[v].kind = "alloca" THEN stale \ {v} ELSE stale
  /\ UNCHANGED <<trapped, again>>

Uses(f, v) == Def[v].owner \in {f, Null}

\* propagateStore, of a value with error e; aggregates have none.
Store(P, e) ==
  LET result == setFieldError(Top.trees, Top.bind, P, e)
      place == PlaceOf(Top, P)
  IN  /\ Running /\ Uses(Top.f, P) /\ Kind[Def[P].pointee] \in {"scalar", "pointer"}
      /\ trapped' = result.trap
      /\ stack' = [stack EXCEPT ![Depth].trees = result.trees,
                                ![Depth].wrote = @ \cup ({place[1]} \cap Objects)]
      /\ memory' = IF ~Plain(P) THEN Forget(place[1], NoTree)
                   ELSE IF place[1] \in Objects \ stale THEN [memory EXCEPT ![place] = e]
                   ELSE memory
      /\ stale' = IF Plain(P) THEN stale ELSE stale \cup TakenFor(Top, P)
      /\ UNCHANGED again

\* propagateLoad reads an entry, and changes nothing here unless the walk fails.
LoadTraps(P) ==
  /\ Running /\ Uses(Top.f, P)
  /\ getFieldError(Top.trees, Top.bind, P).trap
  /\ trapped' = TRUE
  /\ UNCHANGED <<stack, memory, stale, again>>

\* prepareErrorsForCall: the callee works on a copy of the caller's map.
Call(c) ==
  /\ Running /\ c.caller = Top.f
  /\ Depth < MaxDepth /\ Cardinality(Active(c.callee)) < MaxRecCount
  /\ stack' = Append(stack,
       [f |-> c.callee, args |-> c.args,
        trees |-> RetrieveArguments(Top.trees, c.callee),
        bind |-> initArgumentBindings(Top.bind, c.callee, c.args),
        places |-> [k \in DOMAIN c.args |-> PlaceOf(Top, c.args[k])],
        wrote |-> {}])
  /\ memory' = [o \in Objects \X Paths |->
       IF Def[o[1]].kind = "alloca" /\ Def[o[1]].owner = c.callee THEN Absent ELSE memory[o]]
  /\ stale' = stale \cup UNION {TakenFor(Top, P) : P \in {P \in Range(c.args) :
                                    Def[P].pointee \in StructTypes /\ ~Direct[P]}}
  /\ again' = (again \/ Active(c.callee) # {})
  /\ UNCHANGED trapped

\* applyActualParametersErrors: updateStructErrors with the actual arguments.
Return ==
  /\ Running /\ Depth > 1
  /\ LET caller == stack[Depth - 1]
         ways == {retrieveRootPointer(caller.bind, P) : P \in Range(Top.args)}
     IN  /\ trapped' = \E w \in ways : w.endless
         /\ stack' = [SubSeq(stack, 1, Depth - 1) EXCEPT
                        ![Depth - 1].trees =
                           updateStructTree(@, caller.bind, Top.trees, Range(Top.args)),
                        ![Depth - 1].wrote = @ \cup Top.wrote]
  /\ stale' = stale \cup {v \in Top.wrote \ Handed(Top) : Def[v].kind = "global"}
  /\ UNCHANGED <<memory, again>>

\* The end of a function that runOnModule visited: its map is dropped.
Leave ==
  /\ Running /\ Depth = 1
  /\ stack' = <<>> /\ stale' = {} /\ again' = FALSE
  /\ memory' = [o \in Objects \X Paths |-> Absent]
  /\ UNCHANGED trapped

Next ==
  \/ \E f \in Functions : Visit(f)
  \/ \E v \in Objects : Evaluate(v)
  \/ \E P \in Accessed, e \in Errors : Store(P, e)
  \/ \E P \in Accessed : LoadTraps(P)
  \/ \E c \in Calls : Call(c)
  \/ Return \/ Leave

Spec == Init /\ [][Next]_vars

-----------------------------------------------------------------------------
(* Properties.                                                             *)

Trees == [Paths -> StructTypes \cup Entries \cup {Absent}]

\* Every tree follows the type of its object, from its root down: below a
\* StructNode there are only fields its struct type has, of their types, arrays
\* and pointers stripped off, and no StructError for a field that is a struct
\* (StructNode, navigateStructTree).
TypeOK ==
  /\ trapped \in BOOLEAN /\ again \in BOOLEAN /\ stale \subseteq Objects
  /\ memory \in [Objects \X Paths -> Entries \cup {Absent}]
  /\ \A d \in DOMAIN stack :
       /\ stack[d].f \in Functions /\ stack[d].args \in Seq(Values)
       /\ stack[d].bind \in [Parameters -> Values \cup {Unbound}]
       /\ stack[d].trees \in [Objects -> Trees]
       /\ \A v \in Objects : stack[d].trees[v] # NoTree =>
            stack[d].trees[v][<<>>] = getElementStructType[Def[v].pointee]
       /\ \A v \in Objects : \A p \in Paths \ {<<>>} : stack[d].trees[v][p] # Absent =>
            LET node == stack[d].trees[v][Front(p)]
                field == FieldType(node, Last(p))
            IN  /\ node \in StructTypes /\ Last(p) < Len(Elements[node])
                /\ stack[d].trees[v][p] \in StructTypes =>
                     stack[d].trees[v][p] = getElementStructType[field]
                /\ stack[d].trees[v][p] \in Entries => field \notin StructTypes

\* A bound parameter leads to a global or to a function whose activation began
\* before any of its own: bindings never lead back (initArgumentBindings).  Not
\* so for the function runOnModule called: its parameters are bound by the first
\* recursive call only.
BindingsPointOutwards ==
  \A d \in DOMAIN stack : \A a \in Parameters :
    LET v == stack[d].bind[a]
    IN  v # Unbound =>
          \/ Def[v].owner = Null
          \/ Def[a].owner = stack[1].f
          \/ \E j \in 1 .. d : /\ stack[j].f = Def[v].owner
                               /\ \A i \in 1 .. j : stack[i].f # Def[a].owner

\* Therefore every walk ends at a root, unless the outermost function is entered
\* again and its parameters may be bound to themselves.
WalksEnd ==
  (\A d \in 2 .. Depth : stack[d].f # stack[1].f) =>
    \A d \in DOMAIN stack : \A a \in Parameters :
      stack[d].bind[a] # Unbound => ~retrieveRootPointer(stack[d].bind, a).endless

\* "Lookup in the struct errors" (Propagators.cpp:237): without recursion a load
\* through a plain pointer finds what was last stored to the field, by whichever
\* function and through whichever plain pointer, or its metadata, and the walk
\* does not fail.  Globals that a callee changed behind the caller's back, and
\* objects reached through a pointer that is not plain, are left out.
ReadsLastWritten ==
  Running /\ ~again =>
    \A P \in Accessed :
      Plain(P) /\ Uses(Top.f, P) /\ PlaceOf(Top, P)[1] \in Objects \ stale =>
        getFieldError(Top.trees, Top.bind, P) = [entry |-> memory[PlaceOf(Top, P)], trap |-> FALSE]

\* "If this is a load of a struct element, lookup in the struct errors"
\* (Propagators.cpp:237): whatever pointer a store went through, a load of the
\* same element finds its error.
StoredElementsFound ==
  [][ \A P \in Accessed, e \in Errors :
        Store(P, e) /\ ~trapped' =>
          \A Q \in Accessed : PlaceOf(Top, Q) = PlaceOf(Top, P) =>
            getFieldError(Top'.trees, Top'.bind, Q).entry = e ]_vars
=============================================================================
