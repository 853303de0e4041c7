---------------------------- MODULE LoopUnrolling ----------------------------
(***************************************************************************)
(* UnrollLoops (FunctionCopyMap.cpp): how often each outermost loop of a   *)
(* clone is to be unrolled.  What LLVM makes of the request is its own.    *)
(***************************************************************************)
EXTENDS Naturals, Sequences

CONSTANTS
  Counts,     \* the counts that loops and options may have; 0 stands for unknown
  MaxLoops,   \* bound: outermost loops of a function
  NoMetadata  \* a loop without unroll count in its metadata

\* A loop: LLVM's trip count and trip multiple, the count in its metadata.
Loop == [TripCount : Counts, TripMultiple : Counts, OUC : Counts \cup {NoMetadata}]

VARIABLES
  Loops,      \* the outermost loops, in LoopInfo's order
  options,    \* the command line: -dunroll, -maxunroll, -nounroll
  requested   \* the UnrollLoopOptions UnrollLoop was called with, loop by loop

vars == <<Loops, options, requested>>

\* checkCommandLine: -nounroll is a maximum of zero.
MaxUnroll == IF options.nounroll THEN 0 ELSE options.maxunroll

AtMost(n, bound) == IF n > bound THEN bound ELSE n

\* The metadata come first, then the trip count, then the default.
WantedCount(L) ==
  IF L.OUC # NoMetadata THEN IF L.TripCount # 0 THEN AtMost(L.OUC, L.TripCount) ELSE L.OUC
  ELSE IF L.TripCount # 0 THEN L.TripCount ELSE options.dunroll
UnrollCount(L) == AtMost(WantedCount(L), MaxUnroll)

UnrollLoopOptions(L) ==
  [Count |-> UnrollCount(L), TripCount |-> L.TripCount,
   TripMultiple |-> IF L.TripMultiple = 0 THEN UnrollCount(L) ELSE L.TripMultiple]

Init ==
  /\ Loops \in UNION {[1..n -> Loop] : n \in 0..MaxLoops}
  /\ options \in [dunroll : Counts, maxunroll : Counts, nounroll : BOOLEAN]
  /\ requested = <<>>

\* One turn of the loop of UnrollLoops.  prepareFunctionData does not clone a
\* function when nothing may be unrolled.
UnrollLoop ==
  /\ MaxUnroll > 0 /\ Len(requested) < Len(Loops)
  /\ requested' = Append(requested, UnrollLoopOptions(Loops[Len(requested) + 1]))
  /\ UNCHANGED <<Loops, options>>

Next == UnrollLoop
Spec == Init /\ [][Next]_vars

\* "The number of times a loop is unrolled (the trip count) is determined from
\* the following sources, in decreasing order of priority" (README.md): the trip
\* count LLVM detected comes before the count in the metadata, if that asks for
\* any unrolling at all.
TripCountFirst ==
  \A k \in DOMAIN requested :
    Loops[k].TripCount # 0 /\ Loops[k].OUC # 0 =>
      requested[k].Count = AtMost(Loops[k].TripCount, MaxUnroll)
=============================================================================
