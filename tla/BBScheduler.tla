----------------------------- MODULE BBScheduler -----------------------------
(***************************************************************************)
(* The order in which computeFunctionErrors evaluates the basic blocks of  *)
(* a function.  BBScheduler walks the control flow graph from the entry    *)
(* block; enqueueChildren calls itself for the successors and then puts    *)
(* its block at the end of Queue, which is read backwards.                 *)
(*                                                                         *)
(* The recursion is a list of what is left to do: a call of enqueueChildren*)
(* is replaced by the calls and the push_backs its body makes.             *)
(***************************************************************************)
EXTENDS Naturals, Sequences, FiniteSets, SequencesExt, FiniteSetsExt

CONSTANTS Blocks,    \* the basic blocks of a function
          Entry,     \* its entry block
          NoLoop,    \* nullptr
          Graphs     \* control flow graphs: the successors of each block

ASSUME GraphsAssumption ==
  /\ Entry \in Blocks /\ IsFiniteSet(Blocks) /\ NoLoop \notin Blocks
  /\ Graphs \subseteq [Blocks -> Seq(Blocks)]
  /\ \A succ \in Graphs, b \in Blocks : Entry \notin ToSet(succ[b])

VARIABLES succ,      \* the graph of the function
          loop,      \* LoopInfo: the innermost loop around each block
          todo,      \* the rest of the recursion
          Queue,     \* the blocks scheduled so far, the last one to be evaluated first
          Set        \* the blocks visited

vars == <<succ, loop, todo, Queue, Set>>

-----------------------------------------------------------------------------
(* LLVM's LoopInfo: the natural loops of a graph G, by header.             *)

\* The blocks reached from those in from without passing through avoid.
Reach(G, from, avoid) ==
  LET reached[n \in 0 .. Cardinality(Blocks)] ==
        IF n = 0 THEN from \ avoid
        ELSE reached[n - 1] \cup ((UNION {ToSet(G[b]) : b \in reached[n - 1]}) \ avoid)
  IN  reached[Cardinality(Blocks)]

Reachable(G) == Reach(G, {Entry}, {})
BackEdges(G) ==
  UNION { {<<b, h>> : h \in {d \in ToSet(G[b]) : b \notin Reach(G, {Entry}, {d})}} :
          b \in Reachable(G)}

\* The loop of a header: the blocks that reach one of its latches without passing it.
LoopOf(G, edges, h) ==
  LET latches == {e[1] : e \in {d \in edges : d[2] = h}}
  IN  [header |-> h,
       blocks |-> {h} \cup {b \in Reachable(G) \ {h} : Reach(G, {b}, {h}) \cap latches # {}}]

\* The innermost loop around each block.
LoopInfo(G) ==
  LET edges == BackEdges(G)
      loops == {LoopOf(G, edges, h) : h \in {e[2] : e \in edges}}
      around(b) == {L \in loops : b \in L.blocks}
  IN  [b \in Blocks |->
         IF around(b) = {} THEN NoLoop
         ELSE CHOOSE L \in around(b) : \A K \in around(b) : L.blocks \subseteq K.blocks]

-----------------------------------------------------------------------------
isLoopExiting(L, b) == ToSet(succ[b]) \ L.blocks # {}
isLoopLatch(L, b) == b \in L.blocks /\ L.header \in ToSet(succ[b])

\* True if d is an exiting or external block with respect to the loop L.
isExiting(d, L) == d \in L.blocks => isLoopExiting(L, d)

Items == [do : {"enqueue", "push"}, bb : Blocks]
Enqueues(bs) == [k \in DOMAIN bs |-> [do |-> "enqueue", bb |-> bs[k]]]
PushBack(b) == <<[do |-> "push", bb |-> b]>>

\* The elements of s that are in S, in their order.
Pick(s, S) ==
  LET picked[n \in 0 .. Len(s)] ==
        IF n = 0 THEN <<>>
        ELSE IF s[n] \in S THEN Append(picked[n - 1], s[n]) ELSE picked[n - 1]
  IN  picked[Len(s)]

\* The successors of b to be visited first: those that leave its loop or are exiting.
Outward(b) == {d \in ToSet(succ[b]) : isExiting(d, loop[b])}

\* Mutants: the successors in a loop in their own order; the body of a loop left out.
BodyInOrder(b) ==
  IF loop[b] = NoLoop THEN Enqueues(succ[b])
  ELSE (IF isLoopExiting(loop[b], b) /\ ~isLoopLatch(loop[b], b) THEN PushBack(b) ELSE <<>>)
         \o Enqueues(succ[b])
BodyLeftOut(b) ==
  IF loop[b] = NoLoop THEN Enqueues(succ[b]) ELSE Enqueues(Pick(succ[b], Outward(b)))

\* What enqueueChildren does for the successors of b.  In a loop, those that
\* leave it or are exiting come first, so that they are scheduled at the end;
\* between them and the others b itself, if it is exiting and no latch.
Children(b) ==
  IF loop[b] = NoLoop THEN Enqueues(succ[b])
  ELSE Enqueues(Pick(succ[b], Outward(b)))
         \o (IF isLoopExiting(loop[b], b) /\ ~isLoopLatch(loop[b], b) THEN PushBack(b) ELSE <<>>)
         \o Enqueues(Pick(succ[b], ToSet(succ[b]) \ Outward(b)))

\* Mutant: the block before its successors.
PreOrder(b) == PushBack(b) \o Children(b)

Calls(b) == Children(b) \o PushBack(b)

-----------------------------------------------------------------------------
\* BBScheduler(F, LI): enqueueChildren of the entry block.
Init ==
  /\ succ \in Graphs
  /\ loop = LoopInfo(succ)
  /\ todo = Enqueues(<<Entry>>)
  /\ Queue = <<>>
  /\ Set = {}

AtItem(do) == todo # <<>> /\ Head(todo).do = do

\* enqueueChildren of a block that was visited before returns at once.
AlreadyVisited ==
  /\ AtItem("enqueue") /\ Head(todo).bb \in Set
  /\ todo' = Tail(todo)
  /\ UNCHANGED <<succ, loop, Queue, Set>>

\* Mutant: the block is not marked.
VisitUnmarked ==
  /\ AtItem("enqueue") /\ Head(todo).bb \notin Set
  /\ todo' = Calls(Head(todo).bb) \o Tail(todo)
  /\ UNCHANGED <<succ, loop, Queue, Set>>

Visit ==
  /\ AtItem("enqueue") /\ Head(todo).bb \notin Set
  /\ Set' = Set \cup {Head(todo).bb}
  /\ todo' = Calls(Head(todo).bb) \o Tail(todo)
  /\ UNCHANGED <<succ, loop, Queue>>

Push ==
  /\ AtItem("push")
  /\ Queue' = Append(Queue, Head(todo).bb)
  /\ todo' = Tail(todo)
  /\ UNCHANGED <<succ, loop, Set>>

Next == AlreadyVisited \/ Visit \/ Push

Spec == Init /\ [][Next]_vars

-----------------------------------------------------------------------------
(* Properties.  The schedule is Queue read backwards (rbegin to rend).     *)

Scheduled == todo = <<>>
Schedule == Reverse(Queue)
Positions(b) == {k \in DOMAIN Schedule : Schedule[k] = b}
FirstVisit(b) == Min(Positions(b))
LastVisit(b) == Max(Positions(b))

\* Every piece of state has its type; a block is queued only once visited.
TypeOK ==
  /\ succ \in [Blocks -> Seq(Blocks)]
  /\ todo \in Seq(Items)
  /\ Queue \in Seq(Set)
  /\ Set \subseteq Blocks

\* The blocks that can be executed are evaluated, no others, and none is
\* evaluated twice except for the second visit of an exiting block of a loop.
AllBlocksScheduled ==
  Scheduled =>
    \A b \in Blocks :
      /\ Positions(b) # {} <=> b \in Reachable(succ)
      /\ Cardinality(Positions(b)) > 1 =>
           /\ Cardinality(Positions(b)) = 2
           /\ loop[b] # NoLoop /\ isLoopExiting(loop[b], b) /\ ~isLoopLatch(loop[b], b)

\* A graph without its back edges; if that has no cycles, the graph is reducible.
Forward(G) == LET edges == BackEdges(G)
              IN  [b \in Blocks |-> Pick(G[b], {d \in Blocks : <<b, d>> \notin edges})]

Reducible ==
  \A b \in Reachable(succ) : \A d \in ToSet(Forward(succ)[b]) : b \notin Reach(Forward(succ), {d}, {})

\* "All BBs that could be executed before another BB come before it in the
\* ordering" (FunctionErrorPropagator.h), loops aside: in a reducible graph a
\* block is evaluated for the first time before any block it branches to, except
\* back to the header of a loop.
ForwardOrder ==
  Scheduled /\ Reducible =>
    LET edges == BackEdges(succ)
    IN  \A b \in Reachable(succ) : \A d \in ToSet(succ[b]) :
          <<b, d>> \notin edges => FirstVisit(b) < FirstVisit(d)

\* The headers that the second visit is meant for: exiting, and no latch.
ExitingHeaders ==
  {h \in Blocks : /\ loop[h] # NoLoop /\ loop[h].header = h
                  /\ isLoopExiting(loop[h], h) /\ ~isLoopLatch(loop[h], h)}

\* A loop that is left only from its header is evaluated as a whole: header,
\* body, the header a second time, and only then what follows the loop.  (In an
\* irreducible graph what follows the loop may also lead to its header.)
WhileLoopsAreWhole ==
  Scheduled =>
    \A h \in ExitingHeaders :
      (\A b \in loop[h].blocks \ {h} : ~isLoopExiting(loop[h], b)) =>
        /\ \A b \in loop[h].blocks \ {h} :
             FirstVisit(h) < FirstVisit(b) /\ LastVisit(b) < LastVisit(h)
        /\ Reducible =>
             \A d \in ToSet(succ[h]) \ loop[h].blocks :
               <<h, d>> \in BackEdges(succ) \/ LastVisit(h) < FirstVisit(d)
=============================================================================
