---------------------- MODULE FunctionErrorPropagator ----------------------
(***************************************************************************)
(* The interprocedural core of the error propagator: runOnModule walks the *)
(* functions of a module, FunctionErrorPropagator evaluates one of them    *)
(* instruction by instruction and, at a call, creates another propagator   *)
(* for the callee, which works on a copy of the caller's RangeErrorMap and *)
(* merges part of it back; FunctionCopyManager bounds the recursion.       *)
(*                                                                         *)
(* The module under analysis, M, is chosen from Programs and then fixed.   *)
(* It holds no value of struct type, so that the StructErrorMap inside a   *)
(* RangeErrorMap stays empty.  An error is the absolute sum of the noise   *)
(* terms of an affine form, a natural number here.                         *)
(***************************************************************************)
EXTENDS Integers, Sequences, FiniteSets, FiniteSetsExt

CONSTANTS Values,      \* llvm::Value: functions, globals, arguments, instructions
          Functions,   \* the functions of the module
          CopyOf,      \* the clone CloneFunction makes of each function
          Globals,     \* its global variables
          Labels,      \* target names
          Programs,    \* the modules and command lines considered
          Null,        \* nullptr
          Absent,      \* no entry in a RangeErrorMap
          NoErr,       \* an entry with a range and no error
          NotShown,    \* no report yet
          StackLimit   \* the activations that fit on the process's stack

Keys == Values \cup {Null}
RangeErrors == Nat \cup {Absent, NoErr}
Ops == {"binary", "shr", "unary", "fptoi", "select", "phi", "load", "store", "cmp", "ret", "call",
        "none"}
\* own: the rounding error of the result, the tolerance of a cmp; top: the larger
\* of the upper bounds of the operands of a cmp.
Instructions == [op : Ops, id : Values, a : Keys, b : Keys, own : Nat, top : Int,
                 callee : Functions \cup {Null}, args : Seq(Values)]
MaxArity == 2

\* What a function's metadata and code say; special: it is a declaration with one
\* parameter, or math, a function the pass knows by name; body is the order in which the
\* BBScheduler hands out the instructions, image the copy of each instruction.
FunctionData == [empty : BOOLEAN, special : BOOLEAN, math : BOOLEAN, loops : BOOLEAN, start : BOOLEAN,
                 maxrec : Nat, formals : Seq(Values), body : Seq(Instructions),
                 image : [Values -> Keys]]

\* recur, nounroll, maxunroll, startonly, cmpthresh: the command line.  info: range and
\* initial error in the metadata of a value.  target: its target label.
\* pointers: values of pointer type.  origin: MemSSAUtils::getOriginPointer.
Modules == [order : Seq(Functions), fn : [Functions -> FunctionData],
            recur : Nat, nounroll : BOOLEAN, maxunroll : Nat, startonly : BOOLEAN, cmpthresh : Nat,
            info : [Values -> RangeErrors], target : [Values -> Labels \cup {Null}],
            pointers : SUBSET Values, origin : [Keys -> Keys]]

ASSUME ConstantsAssumption ==
  /\ Functions \subseteq Values /\ Globals \subseteq Values /\ IsFiniteSet(Globals)
  /\ CopyOf \in [Functions -> Values]
  /\ Null \notin Values /\ Null \notin Labels
  /\ Absent \notin Nat /\ NoErr \notin Nat /\ Absent # NoErr
  /\ NotShown \notin [Labels -> Nat]
  /\ StackLimit \in Nat \ {0}

ASSUME ProgramsAssumption ==
  /\ Programs \subseteq Modules
  /\ \A P \in Programs, f \in Functions :
       /\ P.target[f] = Null /\ P.target[CopyOf[f]] = Null
       /\ Len(P.fn[f].formals) <= MaxArity
       /\ IsInjective(P.fn[f].formals)

VARIABLES M,        \* the module under analysis
          pending,  \* functions runOnModule has still to visit
          FCMap,    \* FunctionCopyManager: one FunctionCopyCount per function
          stack,    \* the live FunctionErrorPropagators, outermost first
          Global,   \* GlobalRMap
          memssa,   \* the activation whose MemorySSA is the pass manager's latest
          md,       \* error metadata attached to original instructions
          cmpmd,    \* comparison metadata attached to original instructions
          shown,    \* what printTargetErrors displayed
          seen      \* history: the largest error given to a target so far

vars == <<M, pending, FCMap, stack, Global, memssa, md, cmpmd, shown, seen>>

-----------------------------------------------------------------------------
(* RangeErrorMap: re holds the errors, tg the TargetErrors.                *)

Known(e) == e \in Nat
Larger(d, e) == IF ~Known(d) THEN e
                ELSE IF Known(e) /\ d < e THEN e ELSE d
MaxNat(m, n) == IF m < n THEN n ELSE m

RMaps == [re : [Keys -> RangeErrors], tg : [Labels -> Nat]]

\* Mutant: the last error of a target, not the largest.
SetErrorLast(rm, v, e) ==
  [re |-> [rm.re EXCEPT ![v] = e],
   tg |-> [l \in Labels |-> IF v # Null /\ M.target[v] = l THEN e ELSE rm.tg[l]]]

SetError(rm, v, e) ==
  [re |-> [rm.re EXCEPT ![v] = e],
   tg |-> [l \in Labels |-> IF v # Null /\ M.target[v] = l THEN MaxNat(rm.tg[l], e) ELSE rm.tg[l]]]

\* retrieveRangeError(I): range and initial error from metadata replace the entry.
Retrieve(rm, v) ==
  IF M.info[v] = Absent THEN rm ELSE [rm EXCEPT !.re[v] = M.info[v]]

\* retrieveRangeErrors(F): the same for the arguments, which are no targets.
RetrieveArguments(rm, f) ==
  LET described == {v \in Values : \E k \in DOMAIN M.fn[f].formals :
                                     M.fn[f].formals[k] = v /\ M.info[v] # Absent}
  IN  [rm EXCEPT !.re = [v \in Keys |-> IF v \in described THEN M.info[v] ELSE rm.re[v]]]

\* applyArgumentErrors: one argument after the other, each read from the map
\* that the previous ones have already changed.
BindArgument(rm, f, args, k) ==
  IF /\ k \in DOMAIN args /\ k \in DOMAIN M.fn[f].formals
     /\ Known(rm.re[args[k]])
  THEN SetError(rm, M.fn[f].formals[k], rm.re[args[k]])
  ELSE rm

\* Mutant: the last argument is bound first.
ApplyArgumentErrorsBackwards(rm, f, args) ==
  BindArgument(BindArgument(rm, f, args, MaxArity), f, args, 1)

ApplyArgumentErrors(rm, f, args) ==
  BindArgument(BindArgument(rm, f, args, 1), f, args, MaxArity)

\* Mutant: the targets of the other map are forgotten.
UpdateTargetsNot(rm, other) == rm

UpdateTargets(rm, other) ==
  [rm EXCEPT !.tg = [l \in Labels |-> MaxNat(rm.tg[l], other.tg[l])]]

-----------------------------------------------------------------------------
(* FunctionCopyManager.                                                    *)

FunctionCopyCounts == [present : BOOLEAN, copied : BOOLEAN, RecCount : Nat, MaxRecCount : Nat]
NoCopyCount == [present |-> FALSE, copied |-> FALSE, RecCount |-> 0, MaxRecCount |-> 1]

\* checkCommandLine: -nounroll is a maximum of zero.
MaxUnroll == IF M.nounroll THEN 0 ELSE M.maxunroll

PrepareFunctionData(fcm, f) ==
  IF fcm[f].present THEN fcm
  ELSE [fcm EXCEPT ![f] =
         [present |-> TRUE,
          copied |-> MaxUnroll > 0 /\ ~M.fn[f].empty /\ M.fn[f].loops,
          RecCount |-> 0,
          MaxRecCount |-> IF M.fn[f].maxrec = 0 THEN M.recur ELSE M.fn[f].maxrec]]

IncRecursionCount(fcm, f) == [fcm EXCEPT ![f].RecCount = @ + 1]

\* Mutants: the limit compared with >, and not looked at.
MaxRecursionCountPassed(f) ==
  FCMap[f].present /\ FCMap[f].RecCount > FCMap[f].MaxRecCount
MaxRecursionCountIgnored(f) == FALSE

MaxRecursionCountReached(f) ==
  FCMap[f].present /\ FCMap[f].RecCount >= FCMap[f].MaxRecCount

\* FCopy of a propagator for f: the clone if there is one, else f itself.
FCopy(fcm, f) == IF fcm[f].copied THEN CopyOf[f] ELSE f

-----------------------------------------------------------------------------
(* InstructionPropagator, by what each operation reads and writes.         *)

\* The error each propagation rule yields, Absent when there is no data.  Of
\* arithmetic the result is what the operands contribute and a rounding of its
\* own; b is Null for unary operations and constant operands.
BinaryError(re, i) ==
  IF Known(re[i.a]) /\ (i.b = Null \/ Known(re[i.b]))
  THEN re[i.a] + (IF i.b = Null THEN 0 ELSE re[i.b]) + i.own ELSE Absent

\* A right shift and a conversion to an integer need a range of their own; one
\* that metadata did not give would be of their own making.
RoundedError(re, i) ==
  IF re[i.id] # Absent /\ Known(re[i.a]) /\ (i.b = Null \/ Known(re[i.b]))
  THEN re[i.a] + i.own ELSE Absent

\* unOpErrorPassThrough.
UnaryError(re, i) == IF Known(re[i.a]) THEN re[i.a] ELSE Absent

SelectError(re, i) ==
  IF re[i.id] # Absent /\ Known(re[i.a]) /\ Known(re[i.b]) THEN Larger(re[i.a], re[i.b]) ELSE Absent

PhiError(re, i) ==
  IF Known(re[i.a]) \/ Known(re[i.b]) THEN Larger(re[i.a], re[i.b]) ELSE Absent

\* What MemorySSA finds for a load from a and b: the entry of a store, which
\* may be nullptr, and that of a pointer, if it has an error.
DefiningEntries(re, i) ==
  {IF re[k] = Absent THEN Null ELSE k :
     k \in {x \in {i.a, i.b} \ {Null} : Known(re[x]) \/ x \notin M.pointers}}

\* A single entry is taken as it is, with no error even; of several the largest
\* error, or else the rounding error.
LoadError(re, i) ==
  IF \E k \in DefiningEntries(re, i) : k # Null /\ DefiningEntries(re, i) = {k}
  THEN re[CHOOSE k \in DefiningEntries(re, i) : TRUE]
  ELSE IF re[i.id] = Absent THEN Absent
  ELSE IF Known(re[i.a]) \/ Known(re[i.b]) THEN Larger(re[i.a], re[i.b])
  ELSE i.own

IsSpecialCall(i) == i.op = "call" /\ i.callee # Null /\ M.fn[i.callee].special
IsPassThrough(i) == i.op = "unary" \/ (IsSpecialCall(i) /\ ~M.fn[i.callee].math)

Evaluate(re, i) ==
  CASE IsPassThrough(i) -> UnaryError(re, i)
    [] i.op \in {"binary", "call"} /\ ~IsPassThrough(i) -> BinaryError(re, i)
    [] i.op \in {"shr", "fptoi"} -> RoundedError(re, i)
    [] i.op = "select" -> SelectError(re, i)
    [] i.op = "phi" -> PhiError(re, i)
    [] i.op = "load" -> LoadError(re, i)
    [] OTHER -> Absent

\* propagateStore: the stored value's error, or else the pointer's.
StoredError(re, i) == IF Known(re[i.a]) THEN re[i.a] ELSE re[i.b]

\* Mutant: the origin pointer takes the stored error, larger or not.
PropagateStoreAlways(rm, i) ==
  LET e == StoredError(rm.re, i)
      stored == SetError(rm, i.id, e)
  IN  IF ~Known(e) THEN rm
      ELSE IF M.origin[i.b] # Null THEN SetError(stored, M.origin[i.b], e) ELSE stored

\* updateArgumentRE raises the error of the origin pointer.
RaisesOrigin(re, i, e) ==
  LET origin == M.origin[i.b]
  IN  origin # Null /\ (~Known(re[origin]) \/ re[origin] < e)

PropagateStore(rm, i) ==
  LET e == StoredError(rm.re, i)
      stored == SetError(rm, i.id, e)
  IN  IF ~Known(e) THEN rm
      ELSE IF RaisesOrigin(stored.re, i, e) THEN SetError(stored, M.origin[i.b], e) ELSE stored

\* Mutant: the last ret decides.
PropagateRetLast(rm, i, fk) ==
  IF Known(rm.re[i.a]) THEN SetError(SetError(rm, i.id, rm.re[i.a]), fk, rm.re[i.a]) ELSE rm

\* propagateRet: fk is the key under which the activation keeps its own error.
PropagateRet(rm, i, fk) ==
  LET ret == SetError(rm, i.id, rm.re[i.a])
  IN  IF ~Known(rm.re[i.a]) THEN rm
      ELSE IF ~Known(ret.re[fk]) \/ ret.re[fk] < rm.re[i.a]
           THEN SetError(ret, fk, rm.re[i.a]) ELSE ret

\* The error propagateCall gives the call: the one recorded for the callee.
CallError(re, i) ==
  IF IsSpecialCall(i) THEN Evaluate(re, i)
  ELSE IF i.callee = Null \/ re[i.id] = Absent \/ ~Known(re[i.callee]) THEN Absent
  ELSE re[i.callee]

Result(re, i) == IF i.op = "call" THEN CallError(re, i) ELSE Evaluate(re, i)

\* dispatchInstruction: the map afterwards ...
Dispatch(rm, i, fk) ==
  CASE i.op = "store" -> PropagateStore(rm, i)
    [] i.op = "ret" -> PropagateRet(rm, i, fk)
    [] i.op \in {"cmp", "none"} -> rm
    [] OTHER -> CASE Known(Result(rm.re, i)) -> SetError(rm, i.id, Result(rm.re, i))
                  [] Result(rm.re, i) = NoErr -> [rm EXCEPT !.re[i.id] = NoErr]
                  [] OTHER -> rm

\* ... and whether an error was computed, ranges being the values with a range.
Computed(re, ranges, i) ==
  CASE i.op = "store" -> Known(StoredError(re, i))
    [] i.op = "ret" -> Known(re[i.a])
    [] i.op = "cmp" -> Known(re[i.a]) /\ Known(re[i.b]) /\ {i.a, i.b} \subseteq ranges
    [] i.op = "none" -> FALSE
    [] OTHER -> Result(re, i) # Absent

\* computeInstructionErrors after retrieveRangeError(I): the initial error is
\* used only when none was computed.
Compute(rm, ranges, i, fk) ==
  IF ~Computed(rm.re, ranges, i) /\ Known(M.info[i.id])
  THEN SetError(Dispatch(rm, i, fk), i.id, M.info[i.id])
  ELSE Dispatch(rm, i, fk)

\* setRangeError(to, *getRangeError(from)) copies the range too, if there is one.
CopyRange(ranges, to, from) == IF from \in ranges THEN ranges \cup {to} ELSE ranges \ {to}

\* What dispatchInstruction does to the ranges: a store takes that of what it stores,
\* a load that of a single definition, a unary instruction that of its operand.
StoreRanges(rm, ranges, i) ==
  LET e == StoredError(rm.re, i)
      from == IF Known(rm.re[i.a]) THEN i.a ELSE i.b
      stored == CopyRange(ranges, i.id, from)
  IN  IF ~Known(e) THEN ranges
      ELSE IF RaisesOrigin(SetError(rm, i.id, e).re, i, e) THEN CopyRange(stored, M.origin[i.b], from)
      ELSE stored

LoadRanges(re, ranges, i) ==
  LET single == {k \in DefiningEntries(re, i) : k # Null /\ DefiningEntries(re, i) = {k}}
  IN  IF \A k \in single : Known(re[k]) /\ re[i.id] # Absent THEN ranges
      ELSE CopyRange(ranges, i.id, CHOOSE k \in single : TRUE)

UnaryRanges(re, ranges, i) ==
  IF Known(re[i.a]) /\ i.id \notin ranges THEN CopyRange(ranges, i.id, i.a) ELSE ranges

PropagateRanges(rm, ranges, i) ==
  CASE i.op = "store" -> StoreRanges(rm, ranges, i)
    [] i.op = "load" -> LoadRanges(rm.re, ranges, i)
    [] IsPassThrough(i) -> UnaryRanges(rm.re, ranges, i)
    [] OTHER -> ranges

\* checkCmp: an error that reaches the tolerance may be wrong, with -cmpthresh only
\* if it is also that many percent of the larger of the operands' upper bounds.
CmpErrorThreshold == IF M.cmpthresh > 100 THEN 100 ELSE M.cmpthresh

MayBeWrong(re, i) ==
  LET AbsErr == re[i.a] + re[i.b]
  IN  /\ AbsErr >= i.own
      /\ \/ CmpErrorThreshold = 0
         \/ i.top > 0 /\ AbsErr * 100 >= CmpErrorThreshold * i.top
         \/ i.top = 0 /\ AbsErr > 0

-----------------------------------------------------------------------------
(* FunctionErrorPropagator.  Ranges: the values whose entry in RMap has a  *)
(* range from metadata (isUninitialized is false).  at = "start" until     *)
(* MemorySSA is there to evaluate the body with, "callee" while            *)
(* prepareErrorsForCall runs the callee; rets is a history field: the      *)
(* largest error a ret of this activation returned.                        *)

Activations == [f : Functions, GenMetadata : BOOLEAN, Args : Seq(Keys), OldRecCount : Nat,
                RMap : RMaps, Ranges : SUBSET Keys,
                CmpRight : SUBSET Values, CmpWrong : SUBSET Values,
                pc : Nat \ {0}, at : {"start", "body", "callee"}, rets : RangeErrors]

Depth == Len(stack)
Top == stack[Depth]
Body == M.fn[Top.f].body
Current == Body[Top.pc]
Self == FCopy(FCMap, Top.f)
Running == stack # <<>> /\ shown = NotShown

\* Whose RangeErrorMap the activation at depth d was started from.
MapBelow(d) == IF d = 1 THEN Global ELSE stack[d - 1].RMap
\* The map of the activation that is running, or the global one.
Innermost == IF stack = <<>> THEN Global ELSE Top.RMap

\* The globals of runOnModule's map; errors that are merged into it leave them alone.
GlobalRanges == {g \in Globals : M.info[g] # Absent}

\* computeErrorsWithCopy up to the schedule of the blocks, for a function that has a
\* body: copy the caller's map, forget the function's own error, bind the arguments.
\* MemorySSA is requested first, but LoopInfo after it, which runs all function
\* analyses again: the pointer that was fetched is the latest no longer.
Enter(callers, below, ranges, f, args, gen, fcm) ==
  LET copied == [below EXCEPT !.re[FCopy(fcm, f)] = Absent]
      bound == ApplyArgumentErrors(RetrieveArguments(copied, f), f, args)
      described == {v \in Values : \E k \in DOMAIN M.fn[f].formals :
                                     M.fn[f].formals[k] = v /\ M.info[v] # Absent}
  IN  /\ FCMap' = IncRecursionCount(fcm, f)
      /\ memssa' = 0
      /\ stack' = Append(callers,
           [f |-> f, GenMetadata |-> gen, Args |-> args, OldRecCount |-> fcm[f].RecCount,
            RMap |-> bound, Ranges |-> (ranges \ {FCopy(fcm, f)}) \cup described,
            CmpRight |-> {}, CmpWrong |-> {}, pc |-> 1, at |-> "start", rets |-> NoErr])

\* History: an error that changed in the step is one the target must cover.
Notice(before, after) ==
  seen' = seen \cup {<<M.target[v], after.re[v]>> : v \in {w \in Values :
            M.target[w] # Null /\ Known(after.re[w]) /\ after.re[w] # before.re[w]}}

\* The ranges after retrieveRangeError.
Described(i) == IF M.info[i.id] = Absent THEN Top.Ranges ELSE Top.Ranges \cup {i.id}

\* computeInstructionErrors, from dispatchInstruction on, with rm the map after
\* retrieveRangeError.  CmpMap.insert keeps the first verdict on a comparison.
Finished(rm) ==
  LET i == Current
      judged == /\ i.op = "cmp" /\ Computed(rm.re, Described(i), i)
                /\ i.id \notin Top.CmpRight \cup Top.CmpWrong
      wrong == judged /\ MayBeWrong(rm.re, i)
  IN  [Top EXCEPT !.RMap = Compute(rm, Described(i), i, Self),
                  !.Ranges = PropagateRanges(rm, Described(i), i),
                  !.CmpWrong = IF wrong THEN @ \cup {i.id} ELSE @,
                  !.CmpRight = IF judged /\ ~wrong THEN @ \cup {i.id} ELSE @,
                  !.pc = @ + 1, !.at = "body",
                  !.rets = IF i.op = "ret" THEN Larger(@, rm.re[i.a]) ELSE @]

FinishInstruction(rm) ==
  /\ stack' = [stack EXCEPT ![Depth] = Finished(rm)]
  /\ Notice(Top.RMap, Compute(rm, Described(Current), Current, Self))

\* applyActualParametersErrors, one argument.
WriteBackArgument(rm, callee, k) ==
  LET formals == M.fn[callee.f].formals
  IN  IF /\ k \in DOMAIN callee.Args /\ k \in DOMAIN formals
         /\ callee.Args[k] # Null /\ formals[k] \in M.pointers
         /\ Known(callee.RMap.re[formals[k]])
      THEN SetError(rm, callee.Args[k], callee.RMap.re[formals[k]])
      ELSE rm

ApplyActualParametersErrors(rm, callee) ==
  WriteBackArgument(WriteBackArgument(rm, callee, 1), callee, MaxArity)

\* The loop over the module's globals.
CopyGlobals(rm, other) ==
  LET kept == {g \in Globals : Known(other.re[g])}
  IN  [re |-> [v \in Keys |-> IF v \in kept THEN other.re[v] ELSE rm.re[v]],
       tg |-> [l \in Labels |-> Max({rm.tg[l]} \cup
                 {other.re[g] : g \in {h \in kept : M.target[h] = l}})]]

\* The error of the evaluated function becomes that of the original one.
ReturnError(rm, callee, key) ==
  IF Known(callee.RMap.re[key]) THEN SetError(rm, callee.f, callee.RMap.re[key]) ELSE rm

\* What the activation on top leaves in the map it was started from.
Merge(rm) ==
  ReturnError(UpdateTargets(CopyGlobals(ApplyActualParametersErrors(rm, Top), Top.RMap),
                            Top.RMap),
              Top, Self)

-----------------------------------------------------------------------------
\* runOnModule: the command line is normalised, the globals' errors are read
\* from metadata (not through setError), the original functions are listed.
Init ==
  /\ M \in Programs
  /\ pending = M.order
  /\ FCMap = [f \in Functions |-> NoCopyCount]
  /\ stack = <<>>
  /\ Global = [re |-> [v \in Keys |-> IF v \in Globals THEN M.info[v] ELSE Absent],
               tg |-> [l \in Labels |-> 0]]
  /\ memssa = 0
  /\ md = [v \in Values |-> NoErr]
  /\ cmpmd = {}
  /\ shown = NotShown
  /\ seen = {}

NextFunction == stack = <<>> /\ pending # <<>> /\ shown = NotShown
Skipped(f) == M.startonly /\ ~M.fn[f].start

\* -startonly: functions that are no starting point are passed over.
SkipFunction ==
  /\ NextFunction /\ Skipped(Head(pending))
  /\ pending' = Tail(pending)
  /\ UNCHANGED <<M, FCMap, stack, Global, memssa, md, cmpmd, shown, seen>>

\* A declaration: the propagator is constructed and computeErrorsWithCopy returns.
VisitDeclaration ==
  /\ NextFunction /\ ~Skipped(Head(pending)) /\ M.fn[Head(pending)].empty
  /\ pending' = Tail(pending)
  /\ FCMap' = PrepareFunctionData(FCMap, Head(pending))
  /\ UNCHANGED <<M, stack, Global, memssa, md, cmpmd, shown, seen>>

VisitFunction ==
  /\ NextFunction /\ ~Skipped(Head(pending)) /\ ~M.fn[Head(pending)].empty
  /\ pending' = Tail(pending)
  /\ Enter(<<>>, Global, GlobalRanges, Head(pending), <<>>, TRUE, PrepareFunctionData(FCMap, Head(pending)))
  /\ UNCHANGED <<M, Global, md, cmpmd, shown, seen>>

\* Mutant: MemorySSA is fetched once, before LoopInfo.
StartStale ==
  /\ Running /\ Top.at = "start"
  /\ stack' = [stack EXCEPT ![Depth] = [Top EXCEPT !.at = "body"]]
  /\ UNCHANGED <<M, pending, FCMap, Global, memssa, md, cmpmd, shown, seen>>

\* computeFunctionErrors, when the blocks are scheduled: "Restore MemSSA".
RestoreMemSSA ==
  /\ Running /\ Top.at = "start"
  /\ stack' = [stack EXCEPT ![Depth] = [Top EXCEPT !.at = "body"]]
  /\ memssa' = Depth
  /\ UNCHANGED <<M, pending, FCMap, Global, md, cmpmd, shown, seen>>

\* prepareErrorsForCall does not evaluate special functions, nor a callee
\* whose recursion count has reached its maximum, nor an indirect call.
EvaluatesCallee(i) ==
  /\ i.op = "call" /\ i.callee # Null
  /\ ~IsSpecialCall(i)
  /\ ~MaxRecursionCountReached(i.callee)

AtInstruction == Running /\ Top.at = "body" /\ Top.pc <= Len(Body)

Instruction ==
  /\ AtInstruction /\ ~EvaluatesCallee(Current)
  /\ FinishInstruction(Retrieve(Top.RMap, Current.id))
  /\ UNCHANGED <<M, pending, FCMap, Global, memssa, md, cmpmd, shown>>

\* Mutant: the argument is handed over as it is.
ActualsAsPassed(rm, i) == i.args

\* A pointer without an error of its own is replaced by its origin.
Actuals(rm, i) ==
  [k \in DOMAIN i.args |->
     IF i.args[k] \in M.pointers /\ ~Known(rm.re[i.args[k]]) THEN M.origin[i.args[k]]
     ELSE i.args[k]]

\* The activation on top, its current call's metadata read, waiting in the call.
WaitInCall(rm) == [stack EXCEPT ![Depth] = [Top EXCEPT !.RMap = rm, !.Ranges = Described(Current), !.at = "callee"]]

CallDeclaration ==
  /\ AtInstruction /\ EvaluatesCallee(Current) /\ M.fn[Current.callee].empty
  /\ stack' = WaitInCall(Retrieve(Top.RMap, Current.id))
  /\ FCMap' = PrepareFunctionData(FCMap, Current.callee)
  /\ UNCHANGED <<M, pending, Global, memssa, md, cmpmd, shown, seen>>

CallFunction ==
  /\ AtInstruction /\ EvaluatesCallee(Current) /\ ~M.fn[Current.callee].empty
  /\ Depth < StackLimit
  /\ LET rm == Retrieve(Top.RMap, Current.id)
     IN  Enter(WaitInCall(rm), rm, Described(Current), Current.callee, Actuals(rm, Current), FALSE,
               PrepareFunctionData(FCMap, Current.callee))
  /\ UNCHANGED <<M, pending, Global, md, cmpmd, shown, seen>>

\* Back in prepareErrorsForCall: MemorySSA is fetched again, then propagateCall.
AfterCall ==
  /\ Running /\ Top.at = "callee"
  /\ memssa' = Depth
  /\ FinishInstruction(Top.RMap)
  /\ UNCHANGED <<M, pending, FCMap, Global, md, cmpmd, shown>>

AtEnd == Running /\ Top.at = "body" /\ Top.pc > Len(Body)

\* Mutant: metadata are attached by every activation.
AttachAlways ==
  LET image == M.fn[Top.f].image
      error(v) == Top.RMap.re[image[v]]
  IN  /\ md' = [v \in Values |-> IF image[v] # Null /\ Known(error(v)) THEN error(v) ELSE md[v]]
      /\ cmpmd' = cmpmd \cup {v \in Values : image[v] \in Top.CmpWrong}

\* attachErrorMetadata, for the activations that generate metadata.
AttachErrorMetadata ==
  LET image == M.fn[Top.f].image
      error(v) == Top.RMap.re[image[v]]
  IN  /\ md' = [v \in Values |->
                 IF Top.GenMetadata /\ image[v] # Null /\ Known(error(v)) THEN error(v) ELSE md[v]]
      /\ cmpmd' = IF Top.GenMetadata
                  THEN cmpmd \cup {v \in Values : image[v] \in Top.CmpWrong} ELSE cmpmd

\* Mutants: the count is not restored, and decremented once too often.
KeepRecursionCount == FCMap' = FCMap
RestoreTooLow == FCMap' = [FCMap EXCEPT ![Top.f].RecCount = Top.OldRecCount - 1]

RestoreRecursionCount == FCMap' = [FCMap EXCEPT ![Top.f].RecCount = Top.OldRecCount]

LeaveCallee ==
  /\ AtEnd /\ Depth > 1
  /\ AttachErrorMetadata
  /\ stack' = [SubSeq(stack, 1, Depth - 1) EXCEPT ![Depth - 1] =
                [@ EXCEPT !.RMap = Merge(MapBelow(Depth))]]
  /\ Notice(MapBelow(Depth), Merge(MapBelow(Depth)))
  /\ RestoreRecursionCount
  /\ UNCHANGED <<M, pending, Global, memssa, shown>>

LeaveFunction ==
  /\ AtEnd /\ Depth = 1
  /\ AttachErrorMetadata
  /\ stack' = <<>>
  /\ Global' = Merge(Global)
  /\ Notice(Global, Merge(Global))
  /\ RestoreRecursionCount
  /\ UNCHANGED <<M, pending, memssa, shown>>

\* The report; then FCMap is destroyed, and every clone with it.
PrintTargetErrors ==
  /\ stack = <<>> /\ pending = <<>> /\ shown = NotShown
  /\ shown' = Global.tg
  /\ FCMap' = [f \in Functions |-> NoCopyCount]
  /\ UNCHANGED <<M, pending, stack, Global, memssa, md, cmpmd, seen>>

Next ==
  \/ SkipFunction \/ VisitDeclaration \/ VisitFunction \/ RestoreMemSSA
  \/ Instruction \/ CallDeclaration \/ CallFunction \/ AfterCall
  \/ LeaveCallee \/ LeaveFunction \/ PrintTargetErrors

\* The pass is one thread that does not wait for anything.
Spec == Init /\ [][Next]_vars /\ WF_vars(Next)

-----------------------------------------------------------------------------
(* Properties.                                                             *)

\* Every piece of state has its type; in particular an error is never negative.
TypeOK ==
  /\ M \in Modules
  /\ pending \in Seq(Functions)
  /\ FCMap \in [Functions -> FunctionCopyCounts]
  /\ stack \in Seq(Activations)
  /\ Global \in RMaps
  /\ memssa \in Nat
  /\ md \in [Values -> Nat \cup {NoErr}]
  /\ cmpmd \subseteq Values
  /\ shown \in [Labels -> Nat] \cup {NotShown}

ActivationsOf(f) == {d \in DOMAIN stack : stack[d].f = f}

\* The recursion count of a function is the number of its activations, however
\* the calls of several functions nest (incRecursionCount / setRecursionCount).
RecCountIsDepth ==
  \A f \in Functions : shown = NotShown => FCMap[f].RecCount = Cardinality(ActivationsOf(f))

\* A function is never active more often than its recursion limit allows, or
\* once if the limit is zero (README.md, -recur).
ActivationsBounded ==
  \A f \in Functions :
    Cardinality(ActivationsOf(f)) <=
      MaxNat(1, IF M.fn[f].maxrec = 0 THEN M.recur ELSE M.fn[f].maxrec)

\* Whenever an activation reads its MemorySSA pointer, no later request to the
\* pass manager, of LoopInfo or of a callee, has replaced what it points to.
MemSSACurrent == Running /\ Top.at = "body" => memssa = Depth

\* No error that a target ever received is missing from the table of the
\* activation that is running, nor from the final report, whatever activations
\* with tables of their own came and went in between.
TargetsComplete ==
  \A pair \in seen :
    pair[2] <= (IF shown = NotShown THEN Innermost.tg ELSE shown)[pair[1]]

\* The copied and merged tables together behave as one (refinement of TargetErrors).
Tracker == INSTANCE TargetErrors WITH best <- Innermost.tg
TargetsTracked == Tracker!Spec

\* No call hands a callee one of the callee's own arguments.
OwnArguments(P, i) ==
  i.callee # Null /\ \E k \in DOMAIN i.args, j \in DOMAIN P.fn[i.callee].formals :
                       P.fn[i.callee].formals[j] \in {i.args[k], P.origin[i.args[k]]}
PassesOwnArguments ==
  \E f \in Functions : \E n \in DOMAIN M.fn[f].body : OwnArguments(M, M.fn[f].body[n])

\* A call never lowers the error the caller knows for a pointer or a global:
\* the callee starts from that error, and stores only raise it.  The entry of a
\* function, a pointer too, is the error it returned last.
PointerErrorKept ==
  [][ LeaveCallee /\ ~PassesOwnArguments =>
        \A v \in M.pointers \ Functions :
          Known(MapBelow(Depth).re[v]) =>
            /\ Known(Innermost'.re[v])
            /\ MapBelow(Depth).re[v] <= Innermost'.re[v] ]_vars

\* The call that waits for the activation on top.
Caller == stack[Depth - 1]
Passed == M.fn[Caller.f].body[Caller.pc].args

\* Whose error an argument stands for: a pointer of which the caller knows none
\* stands for its origin.
StandsFor(v) == IF v \in M.pointers /\ ~Known(Caller.RMap.re[v]) THEN M.origin[v] ELSE v

\* The activation on top has computed an error for its k-th parameter, a pointer,
\* and no other argument stands for the same value.
PassedOnce(k) ==
  /\ k \in DOMAIN Passed /\ k \in DOMAIN M.fn[Top.f].formals
  /\ M.fn[Top.f].formals[k] \in M.pointers
  /\ Known(Top.RMap.re[M.fn[Top.f].formals[k]])
  /\ StandsFor(Passed[k]) \notin {Null, Top.f}
  /\ \A j \in DOMAIN Passed : StandsFor(Passed[j]) = StandsFor(Passed[k]) => j = k

\* The error an activation computed for a pointer parameter reaches its caller
\* with the return, under the argument or, if the caller knew no error for that,
\* under its origin.  Of a global the activation's own entry is what remains, if
\* it has one: it is copied after the arguments were written back.
PointersLearnt ==
  [][ LeaveCallee => \A k \in 1..MaxArity : PassedOnce(k) =>
        LET v == StandsFor(Passed[k])
        IN  IF v \in Globals /\ Known(Top.RMap.re[v])
            THEN Innermost'.re[v] = Top.RMap.re[v]
            ELSE /\ Known(Innermost'.re[v])
                 /\ Top.RMap.re[M.fn[Top.f].formals[k]] <= Innermost'.re[v] ]_vars

\* The error of an evaluated function covers every value it returned: a ret
\* replaces the function's error "if RetErr is larger than the previous one".
ReturnErrorCovers(d) ==
  LET own == stack[d].RMap.re[FCopy(FCMap, stack[d].f)]
  IN  Known(stack[d].rets) => Known(own) /\ stack[d].rets <= own

\* It does for a function that was cloned, recursive or not: the results of
\* inner activations are kept under another key.
ClonedReturnErrorCovers ==
  \A d \in DOMAIN stack : FCMap[stack[d].f].copied => ReturnErrorCovers(d)

\* The same for every function.
ReturnErrorsCover == \A d \in DOMAIN stack : ReturnErrorCovers(d)

\* What is replaced before the k-th argument of f is read: the function's error is
\* forgotten, parameters get the errors of their metadata, earlier arguments are bound.
Replaced(f, k) ==
  LET formals == M.fn[f].formals
  IN  {FCopy(FCMap, f)}
        \cup {formals[j] : j \in {n \in DOMAIN formals : n < k \/ M.info[formals[n]] # Absent}}

\* "Associate the errors of the actual parameters of F contained in Args to the
\* corresponding formal parameters" (RangeErrorMap.h:81): a callee starts with the
\* errors its caller knows for the arguments, however deep the recursion has left
\* other errors for its parameters in the map, and even if the arguments are some
\* of these parameters, as long as nothing has replaced them yet.
ArgumentsBound ==
  Running /\ Depth > 1 /\ Top.at = "start" =>
    \A k \in DOMAIN Top.Args :
      /\ k \in DOMAIN M.fn[Top.f].formals /\ Top.Args[k] \notin Replaced(Top.f, k)
      /\ Known(MapBelow(Depth).re[Top.Args[k]])
      => Top.RMap.re[M.fn[Top.f].formals[k]] = MapBelow(Depth).re[Top.Args[k]]

\* "Output error metadata for instructions in functions not marked as starting
\* points are not produced" with -startonly (README.md), although such
\* functions are evaluated when they are called.
MetadataOnlyFromStartingPoints ==
  \A v \in Values : md[v] # NoErr \/ v \in cmpmd =>
    \E f \in Functions : M.fn[f].image[v] # Null /\ ~Skipped(f)

\* The pass ends with its report, recursive calls or not.
Termination == <>(shown # NotShown)
=============================================================================
