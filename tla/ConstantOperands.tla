--------------------------- MODULE ConstantOperands ---------------------------
(***************************************************************************)
(* Integer constants as operands (getConstantRangeError, retrieveConst-    *)
(* Ranges).  A constant carries no type: an instruction reads it with the  *)
(* metadata it has for the operand, or with the fractional bits and sign   *)
(* of its own result.  There is one ConstantInt for all uses of a number,  *)
(* hence one entry in the RangeErrorMap that all of them share.            *)
(*                                                                         *)
(* The instructions of a function are evaluated in any order, and again.   *)
(***************************************************************************)
EXTENDS FixedPoint

CONSTANTS Constants, ConstantValue,  \* the ConstantInts of the function
          Instructions, Inst,
          Types,                     \* FPTypes: sign and fractional bits
          ExactConst,                \* the option -exactconst
          NoType, NoInfo, NoEntry,
          Uninitialized,             \* a range that no InputInfo describes
          Exact                      \* an error of zero

Results == Types \cup {NoType}
Errors == Types \cup {Exact}         \* the rounding error of a type, or none
Operands == Constants \cup Instructions
Ops == {"div", "other", "unary", "select", "phi"}

\* What metadata says of a constant operand.
Infos == [Min : Int, Max : Int, exp : Nat, type : Results]

\* ranged: the instruction has range metadata, of the type named if any; initial:
\* they give it an error too.  operands: the two values of a select.  A load that
\* has a single definition does what a unary instruction does.
ASSUME InstructionsAssumption ==
  /\ Types \subseteq [isSigned : BOOLEAN, PointPos : Nat]
  /\ ConstantValue \in [Constants -> ConstantInts]
  /\ Inst \in [Instructions -> [op : Ops, ranged : BOOLEAN, type : Results, initial : BOOLEAN,
                                operands : Seq(Operands), info : Seq(Infos \cup {NoInfo})]]
  /\ \A i \in Instructions : /\ ~Inst[i].ranged => Inst[i].type = NoType
                             /\ Inst[i].op = "unary" => Inst[i].operands # <<>>
                             /\ DOMAIN Inst[i].info = DOMAIN Inst[i].operands
  /\ ExactConst \in BOOLEAN /\ Constants \cap Instructions = {}
  /\ NoType \notin Types /\ NoInfo \notin Infos /\ Exact \notin Types

\* What the range in an entry says of the type (FPInterval::getTType).
RangeTypes == Results \cup {Uninitialized}

\* exp: the bounds are multiples of 2^-exp; width: the bits they are stored in.
Entries == [Min : Int, Max : Int, exp : Nat, type : RangeTypes, error : Errors, width : Nat]

\* Of the entry of an instruction: the type of its range, and whether it has an error.
InstEntries == [type : RangeTypes, error : BOOLEAN]

ASSUME EntryAssumption ==
  NoEntry \notin Entries \cup InstEntries /\ Uninitialized \notin Results

VARIABLES entries,  \* of the constants, in REMap
          insts,    \* the entries of the instructions, in REMap
          trapped,  \* an assertion failed
          done,     \* history: the instructions that have been evaluated
          last,     \* history: the one evaluated last
          read      \* history: what it read for its constant operands

vars == <<entries, insts, trapped, done, last, read>>

-----------------------------------------------------------------------------
Uses(i, c) == {k \in DOMAIN Inst[i].operands : Inst[i].operands[k] = c}
ConstantUses(i) == {k \in DOMAIN Inst[i].operands : Inst[i].operands[k] \in Constants}

RoundingError(T) == IF ExactConst THEN Exact ELSE T

\* Mutant: the value is read without sign.
IgnoreSign(T, double) == IF double THEN 2 * T.PointPos ELSE T.PointPos

\* "SPointPos": negative for a signed type, twice as large if double.
SignedPointPos(T, double) ==
  LET pos == IF double THEN 2 * T.PointPos ELSE T.PointPos
  IN  IF T.isSigned THEN -pos ELSE pos

\* getConstantRangeError of a constant without an entry.
Interpret(c, T, double) ==
  LET v == ConstantValue[c]
      x == createFromConstantInt(SignedPointPos(T, double), NoWidth, v, v)
      range == getInterval(x)
  IN  IF T = NoType
      THEN [Min |-> getSExtValue(v), Max |-> getSExtValue(v), exp |-> 0, type |-> Uninitialized,
            error |-> Exact, width |-> v.width]
      ELSE [Min |-> range.Min, Max |-> range.Max, exp |-> range.exp, type |-> Uninitialized,
            error |-> RoundingError(T), width |-> x.prec]

\* getConstantRangeError: an entry stays as it is.
getConstantRangeError(e, c, T, double) == IF e = NoEntry THEN Interpret(c, T, double) ELSE e

\* The entry that the metadata of an operand gives its constant.
Described(info) ==
  [Min |-> info.Min, Max |-> info.Max, exp |-> info.exp, type |-> info.type,
   error |-> IF info.type # NoType /\ info.type.PointPos # 0
             THEN RoundingError(info.type) ELSE Exact,
   width |-> info.exp]

Told(i, c) == {k \in Uses(i, c) : Inst[i].info[k] # NoInfo}

\* Mutant: entries that exist are kept.
KeepConstRanges(i, c) ==
  IF Told(i, c) = {} \/ entries[c] # NoEntry THEN entries[c]
  ELSE Described(Inst[i].info[CHOOSE k \in Told(i, c) : \A j \in Told(i, c) : j <= k])

\* retrieveConstRanges: every operand's metadata replaces the entry of its
\* constant, one operand after the other.
retrieveConstRanges(i, c) ==
  IF Told(i, c) = {} THEN entries[c]
  ELSE Described(Inst[i].info[CHOOSE k \in Told(i, c) : \A j \in Told(i, c) : j <= k])

\* retrieveRangeError(I): the entry that the range metadata of an instruction gives it.
retrieveRangeError(i) ==
  IF Inst[i].ranged THEN [type |-> Inst[i].type, error |-> Inst[i].initial] ELSE insts[i]

\* The entry of an operand that is an instruction, i perhaps, when i is evaluated.
EntryOf(i, v) == IF v = i THEN retrieveRangeError(i) ELSE insts[v]

TypeIn(e) == IF e = NoEntry \/ e.type = Uninitialized THEN NoType ELSE e.type

\* The type of the result: what the instruction's own entry says.
OwnType(i) == TypeIn(retrieveRangeError(i))

\* The type in the entry of an operand, if there are an entry and a type.
EntryType(i, v) == TypeIn(IF v \in Constants THEN retrieveConstRanges(i, v) ELSE EntryOf(i, v))

\* Constant c is among the operands 1 .. n.
Within(i, c, n) == \E k \in Uses(i, c) : k <= n

\* propagateSelect returns before it looks at its operands if it has no entry.
ReadsOperands(i) == Inst[i].op = "select" => retrieveRangeError(i) # NoEntry
ReadUses(i) == {k \in ConstantUses(i) : ReadsOperands(i)}

\* propagateBinaryOp, propagateStore and the other users of operands: a division
\* reads its dividend with twice the fractional bits.
readOperand(i, c) ==
  LET e == retrieveConstRanges(i, c)
  IN  IF Uses(i, c) = {} \/ ~ReadsOperands(i) THEN e
      ELSE getConstantRangeError(e, c, OwnType(i), Inst[i].op = "div" /\ Within(i, c, 1))

\* Mutant: the type that was found is not used.
DropFallback(i, c) ==
  IF Uses(i, c) = {} THEN retrieveConstRanges(i, c)
  ELSE getConstantRangeError(retrieveConstRanges(i, c), c, OwnType(i), FALSE)

\* propagatePhi, without an entry of its own: the type of the first incoming value
\* that has one, with which c is read unless it was passed in looking for it.
ConstFallbackTy(i, c) ==
  LET ops == Inst[i].operands
      typed == {k \in DOMAIN ops : EntryType(i, ops[k]) # NoType}
      first == CHOOSE k \in typed : \A j \in typed : k <= j
  IN  IF typed = {} \/ Within(i, c, first) THEN NoType ELSE EntryType(i, ops[first])

\* Constants that were passed in looking for a type have an entry without one.
readIncoming(i, c) ==
  LET e == retrieveConstRanges(i, c)
  IN  IF Uses(i, c) = {} THEN e
      ELSE getConstantRangeError(e, c, IF retrieveRangeError(i) # NoEntry THEN OwnType(i)
                                       ELSE ConstFallbackTy(i, c), FALSE)

readEntry(i, c) == IF Inst[i].op = "phi" THEN readIncoming(i, c) ELSE readOperand(i, c)

\* The assertions on what was read.
Fits(e) == Consistent([PointPos |-> e.exp, prec |-> e.width, Min |-> e.Min, Max |-> e.Max])

HasError(i, v) == v \in Constants \/ (EntryOf(i, v) # NoEntry /\ EntryOf(i, v).error)

\* An error can be computed: from one incoming value of a phi, from all operands
\* of another instruction.
Computable(i) ==
  LET ops == Inst[i].operands
  IN  IF Inst[i].op = "phi" THEN \E k \in DOMAIN ops : HasError(i, ops[k])
      ELSE ReadsOperands(i) /\ \A k \in DOMAIN ops : HasError(i, ops[k])

\* setError: an entry made for an error has no range to speak of.
WithError(e) == [type |-> IF e = NoEntry THEN Uninitialized ELSE e.type, error |-> TRUE]

\* unOpErrorPassThrough: an instruction without a range takes that of its operand.
PassedThrough(i, consts) ==
  LET own == retrieveRangeError(i)
      v == Inst[i].operands[1]
  IN  IF own # NoEntry /\ own.type # Uninitialized THEN WithError(own)
      ELSE WithError(IF v \in Constants THEN consts[v] ELSE EntryOf(i, v))

\* The entry that the rule of the instruction leaves, consts being what it read.
Propagated(i, consts) ==
  IF ~Computable(i) THEN retrieveRangeError(i)
  ELSE IF Inst[i].op = "unary" THEN PassedThrough(i, consts)
  ELSE WithError(retrieveRangeError(i))

Init ==
  /\ entries = [c \in Constants |-> NoEntry]
  /\ insts = [i \in Instructions |-> NoEntry] /\ trapped = FALSE
  /\ done = {} /\ last = NoEntry /\ read = <<>>

\* computeInstructionErrors: retrieveRangeError, then the rule of the instruction.
Evaluate(i) ==
  /\ ~trapped
  /\ LET after == [c \in Constants |-> readEntry(i, c)]
     IN  /\ entries' = after
         /\ done' = done \cup {i} /\ last' = i
         /\ read' = [k \in ReadUses(i) |-> after[Inst[i].operands[k]]]
         /\ trapped' = \E k \in ReadUses(i) : ~Fits(after[Inst[i].operands[k]])
         /\ insts' = [insts EXCEPT ![i] = Propagated(i, after)]

Next == \E i \in Instructions : Evaluate(i)

Spec == Init /\ [][Next]_vars

-----------------------------------------------------------------------------
(* Properties.                                                             *)

\* Every entry is a range of numbers the constant's bits can hold, and read
\* follows the operands of the instructions (getConstantRangeError).
TypeOK ==
  /\ entries \in [Constants -> Entries \cup {NoEntry}]
  /\ insts \in [Instructions -> InstEntries \cup {NoEntry}]
  /\ done \subseteq Instructions /\ trapped \in BOOLEAN
  /\ done # {} => /\ last \in done
                  /\ DOMAIN read \subseteq ConstantUses(last) /\ read \in [DOMAIN read -> Entries]
  /\ ~trapped => \A c \in Constants : entries[c] # NoEntry => entries[c].exp <= entries[c].width

\* "errors from metadata" (retrieveConstRanges): an instruction with metadata for
\* an operand reads that, whatever other instructions made of the constant
\* before; unless it has other metadata for another operand that is the same.
MetadataWins ==
  done # {} =>
    \A k \in DOMAIN read :
      LET I == Inst[last]
      IN  (/\ I.info[k] # NoInfo
           /\ \A j \in Uses(last, I.operands[k]) : I.info[j] \in {NoInfo, I.info[k]})
          => read[k] = Described(I.info[k])

\* How an instruction means a constant: by metadata, or by a type.
Meaning(i, k) ==
  <<Inst[i].info[k], Inst[i].type, Inst[i].op = "div" /\ k = 1>>

\* The bits of a constant as a number of the type of a result.
AsResult(c, T, double) ==
  LET v == ConstantValue[c]
      n == IF T.isSigned THEN getSExtValue(v) ELSE getZExtValue(v)
  IN  [Min |-> n, Max |-> n, exp |-> IF double THEN 2 * T.PointPos ELSE T.PointPos]

RangeOf(e) == [Min |-> e.Min, Max |-> e.Max, exp |-> e.exp]

\* "We interpret the value of VInt with the same fractional bits and sign of the
\* result" (PropagatorsUtils.cpp:36): so an instruction reads it, provided all
\* instructions so far mean the constant alike, and the type has fractional bits
\* if it is signed.
AgreedConstantsReadAsResult ==
  done # {} =>
    \A k \in DOMAIN read :
      LET c == Inst[last].operands[k]
          T == Inst[last].type
      IN  (/\ T # NoType /\ Inst[last].info[k] = NoInfo /\ (T.isSigned => T.PointPos > 0)
           /\ \A j \in done : \A l \in Uses(j, c) : Meaning(j, l) = Meaning(last, k))
          => RangeOf(read[k]) = AsResult(c, T, Inst[last].op = "div" /\ k = 1)

\* propagatePhi: a phi without range metadata of its own gives a constant nobody
\* has read the type of an incoming value, if one with a type comes first.
PhiTypesConstants ==
  [][ \A i \in Instructions :
        Inst[i].op = "phi" /\ ~Inst[i].ranged /\ insts[i] = NoEntry /\ Evaluate(i) =>
          LET ops == Inst[i].operands
          IN  \A k \in DOMAIN ops :
                /\ ops[k] \in Instructions /\ TypeIn(insts[ops[k]]) # NoType
                /\ \A j \in 1 .. k - 1 : ops[j] \in Instructions /\ insts[ops[j]] = NoEntry
                => \A l \in ConstantUses(i) :
                     /\ entries[ops[l]] = NoEntry
                     /\ \A u \in Uses(i, ops[l]) : Inst[i].info[u] = NoInfo
                     => read'[l] = Interpret(ops[l], TypeIn(insts[ops[k]]), FALSE) ]_vars

\* A FixedPointValue of any width, written by toMetadata and read back by
\* createFromMDNode, is the one that was written.
RoundTrip ==
  done = {} =>
    \A w \in 1 .. Wide : \A p \in -w .. w : \A b1, b2 \in 0 .. TwoTo[w] - 1 :
      LET x == createFromConstantInt(p, NoWidth, [bits |-> b1, width |-> w],
                                     [bits |-> b2, width |-> w])
      IN  Consistent(x) => createFromMDNode(NoWidth, toMetadata(x)) = x

\* "We interpret the value of VInt with the same fractional bits and sign of the
\* result" (PropagatorsUtils.cpp:36), whoever else has read it.
ConstantsReadAsResult ==
  done # {} =>
    \A k \in DOMAIN read :
      LET T == Inst[last].type
      IN  T # NoType /\ Inst[last].info[k] = NoInfo /\ Inst[last].op # "div" =>
            RangeOf(read[k]) = AsResult(Inst[last].operands[k], T, FALSE)
=============================================================================
