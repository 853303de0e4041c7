# TLA+ models of TAFFO's error propagator and feedback estimator

This directory holds TLA+ modules for the program under `src/`, configurations
that check them with TLC on small instances, and proofs that the TLA+ proof
system checks for every instance. Paths below are relative to the repository.
`PROJECT.json` maps every definition to the lines it models and lists the runs,
the mutants each property was tried against, the findings, the hazards and the
theorems.

## The system

TAFFO converts floating point programs to fixed point. The code here judges a
conversion: an LLVM pass computes the errors it introduces, two Python tools
turn that and a performance prediction into the options of the next attempt.

### The error propagator (`src/ErrorPropagator`)

One thread, one run over an LLVM module. Nothing is persisted and nothing runs
in parallel; what makes it hard is state that is copied, shared and merged
along a recursion which mirrors the calls of the analysed program.

| Component | State | Operations | Meets |
|---|---|---|---|
| Driver, `ErrorPropagator.cpp` | `GlobalRMap`, the list of original functions | `runOnModule`, `checkCommandLine` | creates a propagator per function, prints the targets |
| `FunctionErrorPropagator` | one per live evaluation: its function or clone, `RMap`, `CmpMap`, `MemSSA` | `computeErrorsWithCopy`, `computeInstructionErrors`, `prepareErrorsForCall`, `applyActualParametersErrors`, `attachErrorMetadata` | copies the map of the propagator that called it, merges part of it back, creates another for each evaluated call |
| `FunctionCopyManager` | `FCMap`: clone, recursion count and limit of each function | `prepareFunctionData`, `incRecursionCount`, `setRecursionCount`, `maxRecursionCountReached`; `UnrollLoops` on the clone | shared by all propagators |
| `RangeErrorMap`, `TargetErrors` | range and error of each value, constants included; largest error of each target | `setError`, `retrieveRangeError(s)`, `retrieveConstRanges`, `applyArgumentErrors`, `updateTargets` | copied from call to call, read and written by every rule |
| `InstructionPropagator` | references only | one `propagate...` per opcode | reads and writes the `RangeErrorMap` of its propagator |
| `MemSSAUtils` | the definitions visited by one query | `findMemSSAError`, `getOriginPointer` | reads the `MemorySSA` the pass manager computed last |
| `BBScheduler` | `Queue`, `Set` | `enqueueChildren`, `isExiting` | gives the propagator the order of the basic blocks |
| `AffineForm`, `NoiseTerm` | central value, noise terms; the static `SymId` | sums, products, absolute sum | the errors in a `RangeErrorMap` |
| `StructErrorMap` | trees of errors of struct fields, argument bindings | `setFieldError`, `getFieldError`, `updateStructTree`, `initArgumentBindings` | inside each `RangeErrorMap` |
| `FPInterval`, `FixedPointValue`, `FPType` | ranges, fixed point values and types | creation from constants and metadata, bounds, rounding errors | read by the rules |

What makes each of them correct:

- The driver ends with a report, attaches metadata only where asked to.
- A propagator leaves in its caller's map everything the caller has to know, and
  nothing it computed replaces something worse that the caller knew: errors of
  pointer arguments, globals, return values, targets.
- The recursion count of a function is the number of its live propagators, and
  never exceeds its limit.
- The table of targets behaves as if there were only one.
- The scheduler evaluates every reachable block, before what it branches to, and
  loops left from their header as a whole.
- The affine form of an error is at least as large as any error an execution can
  make, whichever noise symbols the operands share.
- A load finds the error of every store that may have written what it reads,
  through MemorySSA or through the trees of struct fields, however many calls and
  pointers are in between; and finding it ends.
- A constant is read with the type of the instruction that uses it, although all
  its uses share one entry.

### The feedback estimator (`src/FeedbackEstimator/taffo-fe.py`)

A command that a compilation loop calls once per attempt. Each call is a process;
its only memory is a pickled chain of states in a file that it rewrites in
place. It decides from two measurements whether to stop and otherwise searches
for an option that was not tried yet. Hard: processes that die while the file is
open or between saving and printing, a search over an endless generator, an
answer that has to stay `STOP`.

### The performance estimator (`src/PerformanceEstimator`)

Training and querying of scikit-learn models: straight-line data processing
without state of its own. Not modelled. Its answer, a number that is larger,
smaller or equal to the thresholds the tool compares it with, is an input of the
feedback estimator's model.

## The modules

### `FunctionErrorPropagator` (with `TargetErrors`)

The interprocedural core: driver, propagators, copy manager, error map and the
data flow of all instruction rules, in one module because they share the map.

| TLA+ | Code |
|---|---|
| `M`, one of `Programs` | the module, its metadata and the command line; never changes |
| `stack` | the live `FunctionErrorPropagator` objects; `RMap`, `Args`, `GenMetadata`, `OldRecCount` are members and locals of `computeErrorsWithCopy` |
| `FCMap` | `FunctionCopyManager::FCMap` |
| `Global` | `GlobalRMap` of `runOnModule` |
| `memssa` | whose `MemorySSA` the pass manager requested last and still holds; 0 after it was asked for `LoopInfo`, which runs the analyses of the function again |
| `Ranges` of an activation | the values whose entry has a range from metadata; `CmpRight`, `CmpWrong`: the verdicts in `CmpMap` |
| `md`, `cmpmd`, `shown` | metadata attached, targets printed |
| `seen`, `rets` | history: errors targets received, values returned |
| `VisitFunction`, `VisitDeclaration`, `SkipFunction` | one turn of the loop of `runOnModule` |
| `RestoreMemSSA` | the second request of `MemorySSA`, when the blocks are scheduled (`FunctionErrorPropagator.cpp:111`) |
| `Instruction`, `CallFunction`, `CallDeclaration`, `AfterCall` | `computeInstructionErrors`; for a call, the part before the callee is evaluated and the part after |
| `LeaveCallee`, `LeaveFunction` | the rest of `computeErrorsWithCopy` after the last instruction: metadata, recursion count, the merges in their order |
| `PrintTargetErrors` | the end of `runOnModule` |

Data are abstracted: an error is the absolute sum of its noise terms, a natural
number; the result of arithmetic is the sum of the operands' errors and a
constant of the instruction. Which operands a rule reads, when it has no data,
what it records and in which map entry, is kept, and so is which entries have a
range, because shifts, conversions, selections and comparisons stop without one.
The bounds of ranges occur only as `top`, the larger upper bound of the operands
of a comparison, of which `-cmpthresh` is a percentage. Struct values do not occur
(`StructErrorMap` has them); `dispatchInstruction` never calls the rules for
`GetElementPtr`, `ExtractValue` and `InsertValue`. What a load finds in MemorySSA
and what `getOriginPointer` returns are part of the program (`b`, `origin`);
`MemSSAUtils` models how they are found.

`TargetErrors` is the abstract specification of the targets: one table that only
rises, until it is shown once. `FunctionErrorPropagator` implements it
(`TargetsTracked`) although every propagator has a table of its own.

### `BBScheduler`

`enqueueChildren` with its recursion as an explicit list `todo` of calls and
`push_back`s still to come. LLVM's `LoopInfo` is computed from the graph:
natural loops of the back edges of the dominator relation, with exiting blocks
and latches. The graph is part of the state and constant. `ForwardOrder` and the
end of `WhileLoopsAreWhole` are about reducible graphs, which is what compilers
emit for structured programs: elsewhere a cycle has no header that its other
blocks could follow, and a block behind a loop may lead back into it, past the
header, and be visited from there.

### `AffineForms` and `Propagators`

`AffineForms` has the operators of `AffineForm<T>` over integers: a form is a
central value and a sequence of noise terms. Both merges make the same walk with
two iterators (`Steps`, a recursive function over `Advance`); they differ in the
term a step pushes (`SumTerm`, `LinearTerm`). `Propagators` builds straight-line programs
instruction by instruction, gives each result the form the rule gives it, and
follows one execution next to it: the exact number and the error of its fixed
point representation. Select and phi take one of their operands; a right shift
drops digits. Division, the special functions and `inverse` need real numbers
and are left out. Overflow of the symbol counter is not reached.

### `StructErrorMap`

The trees of struct errors, with the calls that copy and merge them. A tree is a
function from paths (field numbers from the root) to a struct type, an entry, or
`Absent`; `navigateStructTree` and `navigatePointerTreeToRoot` are one call each,
given what the recursive call returns, and `getFieldNode` and
`retrieveRootPointer` follow the chain of calls; indices are consumed in the
code's order. Values are given
by their definitions (`Def`): geps, loads, arguments, allocas, globals,
`extractvalue`s of aggregates. An activation has the caller's trees and bindings
as a copy, gives fields errors (`Store`), calls (`Call`), and hands the trees of
its arguments' roots back (`Return`). `trapped` stands for an assertion that
fails, in the code or in LLVM's containers and types, and for a walk without end.

`memory`, `places`, `stale` and `again` are history: a direct account of what the
program stores where, against which the trees are compared. It leaves out what
the code does not promise to follow: globals changed by callees that were not
given them (nothing merges their trees) and objects reached through arrays
of structs, multi-index geps and loaded pointers (the run `struct_elements`).
When such a pointer is stored through, or passed for a struct parameter, both
the object it points into and the one the walker takes it for become `stale`,
until their metadata are read again. A pointer is `Direct` if it is built one
index at a time from an object of its function, and `Plain` if it is one to a
number besides.

### `FixedPoint` and `ConstantOperands`

`FixedPoint` has the operators of `FixedPointValue`: which class, sign and width
a constant gets, its bounds cut to that width, and its metadata. `Narrow` and
`Wide` stand for 32 and 64 bits. `toMetadata`, `createFromMDNode` and
`createFromMetadata` are not called by the pass; the first two are modelled
because they must be inverse to each other. Powers of two are a recursive function of the
module's own (`TwoTo`): the prover knows nothing of `^`.

`ConstantOperands` is about state, not arithmetic: one entry per constant in the
map, filled by whichever instruction is evaluated first, replaced by metadata
(`retrieveConstRanges`), and read by all. One action, `Evaluate`, is the
evaluation of one instruction: metadata first, then its operands from first to
last, for a phi twice. `done`, `last` and `read` are history.

### `MemoryAccesses`, `ReachingDefinitions` and `MemSSAUtils`

`MemoryAccesses` declares a function as loads and stores see it - pointers,
MemorySSA, struct fields - and has what its two users share: what a store
records, where a pointer comes from, and what a load makes of the entries found.

`ReachingDefinitions` is the abstract specification: a load finds, in one step,
the entries of the stores from which MemoryPhis lead to it, and the nearest error
on its chain of pointers if a call or the state on entry is among them. Both are
least fixed points, stated as intersections of closed sets.

`MemSSAUtils` is the walk: `todo` holds the calls of `findMemSSAError` still to
come, `looking` the instruction `findLOEError` is at, `Visited` and `Res` are the
members. `Visit` is one call that is not answered by `Visited`; its order is free,
since what is found is sorted. The case of a bitcast in `findLOEError` has no
`break`, so that the search ends there; both modules have it so. Between two
loads, stores and calls of the function are evaluated in any order.
`FindsReachingDefinitions` says that the walk implements the promise.

### `LinearApproximation`

Division, the square root, logarithm, exponential, arc cosine and arc sine
multiply the operand's error by a derivative at one end of its range
(`LinearErrorApproximationDecr`, `...Incr`). `Point` says at which end, `Steeper`
at which of two points the derivative of a rule is larger; the values of the
functions need real numbers and are left out. The module has operators only;
`Propagators` extends it and states the property.

### `LoopUnrolling`

`UnrollLoops`: the options it calls LLVM's unroller with, loop by loop.

### `FeedbackEstimator`

One step is one access to the file, the printing, or one turn of the search
loop (`at` says which is next). `Crash` kills the process between any two steps;
between `Open` and `Dump` the file is `Torn`. The pickled chain of previous
states is reduced to the set of their combinations, since nothing else of them
is read. `printed`, `stopped` and `killed` are history since the last `--init`.
The reports of the two other tools are reduced to their verdicts; `NaN` is an
error that compares false with everything.

## What the runs show

| Run | Instance | Shows |
|---|---|---|
| `propagator` | two functions that call each other and themselves and a declaration, all bodies of two free instructions over a small menu, four longer bodies of one function, and a function that swaps its own parameters; three command lines; 87,469 states | `TypeOK`, `RecCountIsDepth`, `ActivationsBounded`, `MemSSACurrent`, `TargetsComplete`, `TargetsTracked`, `ClonedReturnErrorCovers`, `PointerErrorKept`, `PointersLearnt`, `MetadataOnlyFromStartingPoints`, `ArgumentsBound`, `Termination` |
| `scheduler` | 9826 control flow graphs of an entry, a return and three blocks with up to two successors, where the entry may branch | `AllBlocksScheduled`, `ForwardOrder` (in reducible graphs), `WhileLoopsAreWhole` |
| `arithmetic` | all programs of up to four instructions over the ranges [1, 3] and [-1, 1], initial errors 0 and 1, rounding error 1 | `ErrorsCover` (programs without negation), `NoiseTermsSorted`, `MatchingErrorsCancel`; over all ranges with ends in a set on both sides of zero, of one and of 0.99, and six rules, `CommonDerivativesMaximized` |
| `struct` | three functions, one of them recursive, five calls that pass a struct, a field of it, an element of an array of structs, a global and a parameter; ten pointers of all kinds to load and store through; allocas and other instructions with struct metadata | `TypeOK`, `BindingsPointOutwards`, `WalksEnd`, `ReadsLastWritten` (without recursion, plain pointers) |
| `constants` | ten instructions over two constants of three bits and four types, among them one that takes the range of its operand and a select without a range, in any order, repeatedly | `MetadataWins`, `AgreedConstantsReadAsResult`, `PhiTypesConstants`, `RoundTrip` (all values of up to four bits) |
| `memory` | thirteen values, two MemoryPhis in a cycle, three stores, a call, a spilled pointer, a struct field; with and without `-sloppyaa` | `TypeOK`, `FindsReachingDefinitions`, `LoadsCoverStores`, `WalksEnd` |
| `estimator` | 2 widths x 4 merge distances, all measurements, up to two killed processes | `NeverRepeats`, `NearestUntried`, `StopIsFinal`, `SearchEnds`, `Converges` |

The other runs show disagreements between the code and its own words:

| Run | The code | says | 
|---|---|---|
| `return_errors` | `computeErrorsWithCopy` overwrites the error a recursive function, when not cloned, has collected from its own `ret`s | "if RetErr is larger than the previous one" |
| `arithmetic_negation` | a negated value shares the noise terms of the value with the same sign, so `x - (-x)` counts as exact | "No further error is introduced by flipping sign" |
| `struct_elements` | the indices of a gep with several fields are used from the last to the first, so that `s.b.y` reached by one gep and by two are different fields; indices of arrays of structs are dropped at one end only | "If this is a load of a struct element, lookup in the struct errors" |
| `constant_types` | a constant keeps the type of its first user; a signed type without fractional bits counts as unsigned | "We interpret the value of VInt with the same fractional bits and sign of the result" |
| `unroll_priority` | the count in the metadata comes before the trip count, which only caps it | "determined from the following sources, in decreasing order of priority: 1. the trip count ..." |

More was met while modelling; the models do what the code does, and the
properties of the runs are stated so that they hold beside it:

- `applyArgumentErrors` (`RangeErrorMap.cpp:160`) reads actuals from the map whose
  parameters it is replacing: when a recursive call passes the function's own
  parameters, those with metadata have been reset by `retrieveRangeErrors`, and
  those bound by an earlier turn of the loop have their new error. Of `f(y, x)`
  in `f(x, y)` the second argument is bound to the error of the first. `Replaced`
  in `ArgumentsBound` names what is lost; all other arguments are bound as
  `RangeErrorMap.h:81` says.
- A global passed by pointer loses the error the callee computed: the write back
  (`FunctionErrorPropagator.cpp:71`) is overwritten by the callee's entry for the
  global (line 78), which stores through the parameter do not reach, although
  errors are to be transferred to the actual parameters if they are pointers
  (`FunctionErrorPropagator.h:76`). `PointersLearnt` says which of the two remains.
- `getOriginPointer` returns `nullptr` for globals (`MemSSAUtils.cpp:104`), so that
  a store to a global never raises its target, contrary to `README.md:45`.
- `checkCmp` takes the percentage of `-cmpthresh` of the larger upper bound of the
  operands (`Propagators.cpp:483`), not of the tolerance as `README.md:61` says; the
  tolerance only decides whether it is looked at.
- The derivative of 1/x over a negative range is taken at its lower end, where it
  is smallest (`Propagators.cpp:70`); likewise those of acos and asin over a range
  that reaches farther below zero than above (`SpecialFunctions.cpp:127`, `150`). Each
  variant "maximizes" derivatives by its comment (`AffineForms.h:457`). Hence
  *Common* in `CommonDerivativesMaximized`.
- Errors a callee stores to the fields of a global struct that it is not passed are
  dropped with its map: of globals, line 74 copies single errors only.
- In a loop with a second exiting block the second visit of the header precedes
  the rest of the body (`FunctionErrorPropagator.cpp:361`): `WhileLoopsAreWhole` is
  about loops left from their header only.
- `mergeMulNoiseTerms` gives noise terms of the second factor the symbol of the
  first factor's current one (`AffineForms.h:413`).
- `--max-err` of `taffo-fe.py` is parsed and not used.
- A load without range metadata that finds several entries gets no error at all,
  which `LoadsCoverStores` excepts.
- Recursion may bind the parameters of the function the driver started to
  themselves, since they were not bound before; a walk from them then does not
  end. `WalksEnd` and `BindingsPointOutwards` except it.

### Bounds, and why they are enough

- `StackLimit` 6 in `FunctionErrorPropagator`: with limits of at most two
  activations for each of two functions the stack never holds more than four;
  a deeper call would be blocked and `Termination` would fail. `MaxArity` 2 is
  the number of parameters; two are needed for one binding to disturb another.
- The menu of instructions has each opcode class at least once in a place where
  its operands may be unknown, and calls that pass a parameter on, pass a
  global, recurse directly and through the other function. Three command lines:
  cloned with `-startonly`, not cloned with recursion limit one, not cloned with
  limit two and a limit of one in the metadata.
- Calls in the menu pass `el`, an element of what p points to, which has no error
  of its own until something is written back to it, so that its origin p is passed
  instead, and the global G: `PointersLearnt` is about these. Longer bodies add an
  early return, a load of what a store recorded (or did not), a chain of conversions
  that copies a range to a comparison, and a function without metadata for its
  parameters that calls itself with them swapped, once it was called with two
  different errors.
- `arithmetic`, points of approximations: one at a time, since nothing is shared.
  Numbers are hundredths; the ends include those at which `acos` and `asin` are cut
  off, and ranges beyond, which the cut turns around.
- Three free blocks are the fewest that make a loop with a second exit and two
  nested or overlapping loops. An entry with two successors makes loops that are
  entered at two places, the irreducible graphs.
- `Length` 4: a product or a sum of two inputs and one instruction that combines
  it with one of its operands. Inputs are at the ends of their ranges and
  errors, where a polynomial that is linear in each of them is largest. `Limit`
  only keeps numbers small. Ranges have ends of the same parity so that their
  centers are integers.
- `struct`: `MaxRecCount` 2 and `MaxDepth` 3 allow main to reach g through f, and g
  to call itself once, so that a binding can meet its own parameter. One error
  value is enough: it differs from what the metadata say. `Paths` are all paths
  of the types.
- `constants`: the state is finite without a bound. Three bits and `Narrow` 3,
  `Wide` 4 make a value whose sign bit is set and doubled fractional bits that
  exceed the width, where the assertions fail.
- `memory`: errors 1 and 2, so that a smaller one can hide a larger. Two phis in a
  cycle are what a nest of two loops makes.
- `unroll_priority`: counts up to 3, one loop; loops do not meet.
- 8 options instead of the 15 of `allowed_n_bits` and `allowed_max_merge_dist`:
  the full lists take TLC too long, and neither the numbering of the options nor
  the steps of the search (one option, or one row of widths) depend on how many
  there are. `ProbeLimit` 24 exceeds the turns any search over 8 options takes;
  a longer one would be blocked and `SearchEnds` would fail. `KillLimit` 2: a
  process killed with the file torn, and another in the middle of the recovery.

### Fairness

`FunctionErrorPropagator` assumes `WF_vars(Next)`: the pass is one thread that
waits for nothing. `FeedbackEstimator` assumes `WF_vars(Run)`: a process that
is not killed runs to its end; nobody is obliged to start another, so `Converges`
says what happens if the loop keeps calling. `MemSSAUtils` assumes
`WF_vars(Walk)`: the walk waits for nothing, and nothing else runs before it is
finished. The other modules have no liveness properties and no fairness.

Deadlock is checked where the system never stops (`memory`, `estimator`). The
other models stop in states that are their end: after the report, with the
schedule complete, at the length bound, with all loops seen, or after a failed
assertion.

## What is proved

Seven modules, named after the modules they are about, hold theorems for all
values of the constants that satisfy the assumptions of those modules. An
eighth, `RecursionLemmas`, holds what they need to reason about recursive
functions: induction over a set of numbers and along chains that end, and that
the function a recursion defines exists and satisfies its equations.

| Module | Theorem | Property |
|---|---|---|
| `FunctionErrorPropagator_proofs` | `TypeCorrect` | `TypeOK` |
| | `MemSSAIsCurrent` | `MemSSACurrent` |
| | `RecursionCounted` | `RecCountIsDepth` |
| | `RecursionBounded` | `ActivationsBounded` |
| | `TargetsAreTracked` | `TargetsTracked`: the core implements `TargetErrors` |
| | `TargetsAreComplete` | `TargetsComplete`, if no comparison has an initial error in its metadata (`ComparisonsHaveNoError`) |
| | `ArgumentsAreBound` | `ArgumentsBound` |
| | `OnlyStartingPoints` | `MetadataOnlyFromStartingPoints` |
| | `CallersLearn` | `PointersLearnt` |
| | `ClonedReturnsCovered` | `ClonedReturnErrorCovers`, if nothing in the module refers to a clone (`ClonesAreFresh`) |
| | `PointersKeepErrors` | `PointerErrorKept`, if nothing refers to a clone and functions, globals, arguments and instructions are different values (`KindsAreDistinct`) |
| `BBScheduler_proofs` | `TypeCorrect` | `TypeOK` |
| | `EveryBlockOnce` | `AllBlocksScheduled` |
| | `BlocksInForwardOrder` | `ForwardOrder` |
| | `LoopsEvaluatedWhole` | `WhileLoopsAreWhole` |
| `Propagators_proofs` | `TypeCorrect` | `TypeOK` |
| | `TermsStaySorted` | `NoiseTermsSorted` |
| | `ClaimedErrorsCover` | `ErrorsCover` |
| | `SameErrorsCancel` | `MatchingErrorsCancel` |
| `StructErrorMap_proofs` | `BindingsLeadOutwards` | `BindingsPointOutwards` |
| | `BoundWalksEnd` | `WalksEnd`, if the outermost function is not entered again, as the property says |
| | `TypeCorrect` | `TypeOK`: trees follow the types of their objects |
| | `LoadsFindLastStore` | `ReadsLastWritten` |
| `ConstantOperands_proofs` | `TypeCorrect` | `TypeOK` |
| | `MetadataDecides` | `MetadataWins` |
| | `AgreementSuffices` | instructions that agree on a constant read what each would make of it alone, the symbolic half of `AgreedConstantsReadAsResult` |
| | `AgreementReadsResults` | `AgreedConstantsReadAsResult` |
| | `PhisTypeConstants` | `PhiTypesConstants` |
| | `MetadataRoundTrip` | `RoundTrip` |
| `MemSSAUtils_proofs` | `TypeCorrect` | `TypeOK` |
| | `FindsThem` | `FindsReachingDefinitions`: the walk implements `ReachingDefinitions` |
| | `LoadsCover` | `LoadsCoverStores` |
| `FeedbackEstimator_proofs` | `TypeCorrect` | `TypeOK` |
| | `NothingTwice` | `NeverRepeats` |
| | `SearchFindsNearest` | `NearestUntried` |
| | `StopStays` | `StopIsFinal` |

The assumptions: special values are distinct from each other and from data; in
the core, functions and clones are no targets, there are at most `MaxArity`
parameters, all different; a call passes values of its function or globals;
MemorySSA names accesses of the function; values and struct fields are finitely
many and defined after their operands, a gep of two indices leads to a field or
element of the type it says, functions have each of their parameters once, calls
pass values of the parameters' types, the paths of a tree go down to every field,
array and pointer types are made of other types, metadata of structs have the
shape of their types; widths and merge
distances are lists without repetitions that hold the initial ones;
control flow graphs have finitely many blocks and no branch to the entry; ranges
of inputs have integer ends of one parity, so that their centers are integers.

None of the invariants is inductive alone.

- `TypeOK` of the core does not say that a propagator that waits for its callee
  stands at an instruction, so that the step after the call has one to finish.
  `TypeInv` adds `StackOK`: the activations below the top wait in a call, one
  that waits stands at an instruction of its body, and none is left once the
  report is out.
- `RecCountIsDepth` is not preserved when a propagator ends, since the count is
  not decremented but set to what it was on entry. `RecInv` adds that the
  `OldRecCount` of every activation is the number of activations of its function
  below it.
- `ActivationsBounded` follows from `RecInv`, the limits recorded in `FCMap` and
  the guard `MaxRecursionCountReached`.
- For the targets the argument is monotonic: `Progress` says of a step from one
  map to another that no target lost an error and that every changed entry of a
  target is covered. Each operation on maps has a lemma that it is `Progress`
  (`SetErrorProgress`, `CopyGlobalsProgress`, `MergeProgress`, ...), and
  `ProgressTrans` composes them. `SeenInv` adds to `TargetsComplete` what the
  pairs in `seen` are. It survives a call because the callee starts from a copy
  of the caller's table, and a return because the callee's whole table is merged
  into the caller's after the arguments and globals.
- `MetadataOnlyFromStartingPoints` needs to know who may attach metadata:
  `MetaInv` adds that an activation whose `GenMetadata` holds is of a function
  the driver does not pass over.
- `ClonedReturnErrorCovers` needs `RetInv`: the functions of all activations
  have an entry in `FCMap`, so that none is cloned or loses its clone while it
  is active, and no argument that will be written back is a clone. Then only a
  `ret` of the activation itself touches the key of its clone (`ComputeOwn`,
  `MergeOwn`).
- `PointerErrorKept` is about one return and comes from what holds all along:
  `KeptInv` says of every activation that for a global, and for each parameter,
  it knows an error at least as large as the one its caller has for the global
  or the actual. It starts so (`StartedBinds`, `StartedKeeps`), since the call
  passes none of the callee's own parameters; an instruction raises entries of
  others or replaces its own (`ComputeRises`); and what a callee writes back is
  by the same invariant not below what it replaces (`MergeRises`).
- `ArgumentsBound` is about the state right after a call. Reading metadata changes
  the function's key and described parameters only (`StartedReads`), and of the two
  bindings the first cannot change what the second reads unless it is the first
  parameter (`StartedBinds`).
- `PointersLearnt` speaks of what the caller knew before the call. `ArgsInv` says
  that it still is what was handed over: the arguments of every activation are those
  its caller would pass now, since a waiting activation does not change. The merge
  is then followed entry by entry (`WriteBackIs`, `MergeIs`).
- `BindingsPointOutwards` survives a call because bindings are inserted, never
  replaced: a parameter that is not bound yet belongs to a function that is not
  active, except as the first, and is bound to a value of the caller, which is.
  That is `ActiveFormalsBound`: every activation above the first has bound the
  struct parameters of the functions active below it, and its own.
- `WalksEnd` follows: the walk goes from a pointer to one defined before it
  (`Position`), or from a parameter to a value whose function became active
  earlier (`Level`), because bound parameters are those of functions active above
  the outermost (`BoundAreActive`). So an endless walk would pass more values than
  there are (`WalksBackEnd`).
- `TypeOK` of `StructErrorMap` is about what a walk makes on its way: one node for
  a path, where the tree has none, below a node that is of a struct type with such
  a field and is in the tree or made by the same walk (`Sound`, `NavigateStep`).
  Such nodes keep a tree typed, and so does an error at the field found, because
  nothing is below it (`GrownIsTree`). The metadata take the same type for a field
  as the walk does, although they strip pointers too (`ElementsAreStructs`).
  `TreeInv` adds that a tree has a root unless it is none, without which the walk
  of a store would not start at a struct.
- `ReadsLastWritten` is about the running activation; `ReadInv` is about all of
  them, and has two halves. `CallsInv` says what the calls have passed: without
  recursion every function is active once, so that a struct parameter is bound
  to the argument of the one call that began its activation (`PassedInv`,
  `ParametersStandFor`). From it follows, by induction over the activations and
  over the pointers in each, that the walker takes a direct pointer for the
  object it points into, with the indices of its fields, or that both objects
  are stale (`PlacesAreRight`). `StoresInv` says what the trees hold: `TreesTell`,
  that an activation's tree of an object it can reach says what `memory` does,
  unless an activation above it has stored there. That survives a return
  because what the callee stored was handed to it (`OnlyHanded`), is therefore
  the root of an argument, and its tree is merged if there is one; if there is
  none the caller has none either (`TreesStay`). A call finds no tree for the
  callee's own objects (`NoTreesYet`). What is left is that the indices lead to
  the field: the walk in a tree takes them from the back, one for each struct
  and array on the way, and gets to the field that `Route` describes whether
  the nodes are there or are made on the way (`RoutesReach`).
- The scheduler is depth-first search, and `AllBlocksScheduled` is about its
  end. `ScheduleInv` says what holds in the middle: the successors of a visited
  block are visited or still to be, and the entries of a block in `Queue` and
  its `push_back`s in `todo` are together as many as its visit made, one or two.
  Visited blocks are reachable; at the end they are closed under successors,
  hence all that are.
- `ForwardOrder` needs that a block is finished after its forward successors.
  `OrderInv` says that the blocks waiting for their `push_back` form a path of
  forward edges (`Nested`), that a successor not yet visited comes before the
  `push_back` of its predecessor (`Pending`), and that a finished block comes
  after its forward successors in `Queue` (`Finished`). A forward successor that
  is visited and not finished would be below its predecessor on that path and
  close a cycle, which `Reducible` excludes. Each `enqueue` comes from a forward
  edge because of `Dominated`: visited blocks are reached without passing any
  that are not, so that an edge to one that is not visited is no back edge.
- `WholeInv` follows a loop that is left from its header only. Until the header
  is queued for the first time (its second visit, read backwards) nothing of the
  body is visited, since a natural loop is entered through its header; after
  that, what is left of the body comes before the header's own `push_back`. That
  what follows the loop is finished before both needs `Reducible`; the attempt
  to prove it without found the graphs where it fails.
- `ErrorsCover` is not inductive: that the operands' errors are covered says
  nothing about their difference once they share symbols. `ClaimsInv` says that
  *one* assignment explains the errors of all values at once: every occurrence
  of a symbol, a pair of the symbol and its place among the terms with that
  symbol, has a number in [-1, 1] (a fraction with a common denominator), such
  that every error is the sum of its form's terms times these numbers.
  Occurrences are needed because products give two terms one symbol
  (`AffineForms.h:413`). A sum keeps the assignment, because the walk takes
  every term once and matches occurrence with occurrence (`TotalsAdd`,
  `AllMatched`); a rounding or an initial error gives a fresh symbol a value;
  and a product gives its fresh symbols values, which exist because the exact
  factors lie in their ranges and the errors in their claims, once the
  denominator is refined (`ConsistentMul`).
- `MatchingErrorsCancel` comes from the same lemmas: an absolute sum is attained
  by the assignment of signs (`AbsSumAttained`), and the terms of (x + y) - y
  under every assignment are those of x.
- `NoiseTermsSorted` holds since a walk through sorted terms never goes back and
  fresh symbols exceed all before.
- `NearestUntried`: `Searching` says that the search is at the first option of
  its generator that is untried, all before it being tried; the generator yields
  options by their distance.
- `RoundTrip` and `TypeOK` of `ConstantOperands` are arithmetic modulo powers of
  two: the low bits of a number that fits are the number, signed or not, and
  reading the bits of a bound again with the same width gives the bound.
- `AgreementSuffices` rests on `EntriesHaveSources`: every entry of a constant
  was made by an instruction that has been evaluated.
- For the walk through MemorySSA, `WalkInv` is a partition of the work: what was
  found comes from visited accesses, visited and pending ones reach the load,
  and whatever a visited access leads to is visited or pending. With nothing
  pending the visited accesses are closed, hence exactly `ReachingTo`.
  `SearchInv` says the same of the chain of pointers: what is still to come of
  the chain, and what was found, are together `NearestError`. The walk maps
  every step but `Finish` to a stutter.
- `NothingTwice` needs that the tool remembers: `Remembered` adds that what was
  printed since the last `--init` is in the chain that the file holds and in the
  one the present process works with, that a process past its search has a
  combination that is not, and that it saves before it prints. `StopStays`
  follows from `StopKept`: after `STOP` the flag is set in the file and in the
  process.

Only model-checked:

- liveness (`Termination`, `WalksEnd` of `MemSSAUtils`, `SearchEnds`, `Converges`),
  which needs ENABLED;
- `CommonDerivativesMaximized`, and that the properties of the
  `violation` runs fail.

## Plan

Done: the core with its proofs; the modules it takes its order and its
arithmetic from; the points of linear approximations; the feedback estimator; struct errors; constants and fixed point
values; the walk through MemorySSA; the choice of unroll counts.

What could follow, most useful first:

1. The values of division and of the linear approximations over rationals, with the
   square root and the other special functions as monotone functions given by
   tables; of these `LinearApproximation` has where the derivative is taken.
2. A composition of the core with `StructErrorMap`, so that targets and struct
   fields are in one map.

## Not modelled, and why

- `checkOverflow` and everything written to the debug stream: nothing reads it.
- The rewriting of clones by LLVM's unroller; a clone's body is part of the
  program. `UnrollLoops` keeps a list of loops while it unrolls them; whether LLVM
  leaves the remaining ones valid is a matter of its pass manager.
- LLVM's analyses: dominators, loops and MemorySSA are modelled by what the code
  uses of them.
- The values of division, square root, exponentials, trigonometry and
  `computeMinRangeDiff`: they work on `long double`, for which neither tool has numbers.
- Floating point constants: all of them are replaced by 1.0 in the code
  (`PropagatorsUtils.cpp:20`), without any state.
- Relative errors (`-relerror`, experimental) and the bounds of ranges in the
  core.
- The performance estimator and the build files.
