----------------------- MODULE ConstantOperands_proofs -----------------------
(***************************************************************************)
(* What an integer constant is read as, for every function and every order *)
(* of evaluation, and what the readings are as numbers.                    *)
(***************************************************************************)
EXTENDS ConstantOperands, RecursionLemmas

\* The instruction means constants by its own type.
ByType(i) == Inst[i].ranged

\* The reading that instruction i gives constant c when it has no entry.
OwnReading(i, c) == Interpret(c, Inst[i].type, Inst[i].op = "div" /\ Within(i, c, 1))

\* Instruction j gives constant c the entry e.
Made(j, e, c) ==
  \/ \E m \in Told(j, c) : e = Described(Inst[j].info[m])
  \/ Uses(j, c) # {} /\ ByType(j) /\ e = OwnReading(j, c)
  \/ Uses(j, c) # {} /\ ~ByType(j)

\* Every entry, and everything the last instruction read, was made by an
\* instruction that has been evaluated.
EntriesHaveSources ==
  /\ done \subseteq Instructions
  /\ \A c \in Constants : entries[c] # NoEntry => \E j \in done : Made(j, entries[c], c)
  /\ done # {} => /\ last \in done
                  /\ DOMAIN read \subseteq ConstantUses(last)
                  /\ \A k \in DOMAIN read : \E j \in done : Made(j, read[k], Inst[last].operands[k])

\* A constant that nobody means otherwise is read with the fractional bits and
\* the sign of the result.
AgreedConstantsReadAlike ==
  done # {} =>
    \A k \in DOMAIN read :
      LET c == Inst[last].operands[k]
      IN  (/\ Inst[last].type # NoType /\ Inst[last].info[k] = NoInfo
           /\ \A j \in done : \A l \in Uses(j, c) : Meaning(j, l) = Meaning(last, k))
          => read[k] = Interpret(c, Inst[last].type, Inst[last].op = "div" /\ k = 1)

\* An instruction's fields.
LEMMA InstFields ==
  ASSUME NEW i \in Instructions
  PROVE  /\ Inst[i].type \in Results /\ Inst[i].ranged \in BOOLEAN /\ Inst[i].initial \in BOOLEAN
         /\ ~Inst[i].ranged => Inst[i].type = NoType
         /\ DOMAIN Inst[i].info = DOMAIN Inst[i].operands
         /\ \A k \in DOMAIN Inst[i].info : Inst[i].info[k] \in Infos \cup {NoInfo}
         /\ \A k \in DOMAIN Inst[i].operands : k \in Nat \ {0}
<1>1. Inst[i] \in [op : Ops, ranged : BOOLEAN, type : Results, initial : BOOLEAN,
                   operands : Seq(Operands), info : Seq(Infos \cup {NoInfo})]
  BY InstructionsAssumption
<1>2. Inst[i].operands \in Seq(Operands) /\ Inst[i].info \in Seq(Infos \cup {NoInfo})
  BY <1>1
<1> QED
  BY <1>1, <1>2, InstructionsAssumption

\* An instruction with range metadata has the entry and the type that they say.
LEMMA RangedEntry ==
  ASSUME NEW i \in Instructions, Inst[i].ranged
  PROVE  /\ retrieveRangeError(i) \in InstEntries /\ retrieveRangeError(i) # NoEntry
         /\ OwnType(i) = Inst[i].type
<1>1. retrieveRangeError(i) = [type |-> Inst[i].type, error |-> Inst[i].initial]
  BY DEF retrieveRangeError
<1>2. retrieveRangeError(i) \in InstEntries
  BY <1>1, InstFields DEF InstEntries, RangeTypes
<1>3. Inst[i].type # Uninitialized
  BY InstFields, EntryAssumption
<1> QED
  BY <1>1, <1>2, <1>3, EntryAssumption DEF OwnType, TypeIn

\* Metadata describes an entry.
LEMMA DescribedIsEntry == \A info \in Infos : Described(info) \in Entries /\ Described(info) # NoEntry
<1> SUFFICES ASSUME NEW info \in Infos PROVE Described(info) \in Entries
  BY EntryAssumption
<1>1. info.Min \in Int /\ info.Max \in Int /\ info.exp \in Nat /\ info.type \in Results
  BY DEF Infos
<1>2. RoundingError(info.type) \in Errors \/ info.type = NoType
  BY <1>1 DEF RoundingError, Errors, Results
<1> QED
  BY <1>1, <1>2 DEF Described, Entries, Errors, RangeTypes

\* A nonempty set of positions of a sequence has a last one.
LEMMA LastPosition ==
  ASSUME NEW n \in Nat, NEW T, T \subseteq 1 .. n, T # {}
  PROVE  \E k \in T : \A j \in T : j <= k
<1>1. T \subseteq 0 .. n
  OBVIOUS
<1> QED
  BY <1>1, GreatestNumber

\* retrieveConstRanges gives a constant an entry of metadata, if there is any.
LEMMA Retrieved ==
  ASSUME NEW i \in Instructions, NEW c \in Constants
  PROVE  /\ Told(i, c) = {} => retrieveConstRanges(i, c) = entries[c]
         /\ Told(i, c) # {} =>
              /\ retrieveConstRanges(i, c) # NoEntry
              /\ \E m \in Told(i, c) : retrieveConstRanges(i, c) = Described(Inst[i].info[m])
<1>1. CASE Told(i, c) = {}
  BY <1>1 DEF retrieveConstRanges
<1>2. CASE Told(i, c) # {}
  <2>1. Inst[i].operands \in Seq(Operands)
    BY InstructionsAssumption
  <2>2. Told(i, c) \subseteq 1 .. Len(Inst[i].operands)
    BY <2>1 DEF Told, Uses
  <2> DEFINE n == Len(Inst[i].operands)
             T == Told(i, c)
  <2>3. \E k \in T : \A j \in T : j <= k
    <3>1. n \in Nat /\ T \subseteq 1 .. n /\ T # {}
      BY <1>2, <2>1, <2>2
    <3> HIDE DEF n, T
    <3> QED
      BY <3>1, LastPosition
  <2> DEFINE m == CHOOSE k \in Told(i, c) : \A j \in Told(i, c) : j <= k
  <2>4. m \in Told(i, c)
    BY <2>3
  <2>5. retrieveConstRanges(i, c) = Described(Inst[i].info[m])
    BY <1>2 DEF retrieveConstRanges
  <2>6. Inst[i].info[m] \in Infos
    BY <2>4, InstFields DEF Told, Uses
  <2> HIDE DEF m
  <2> QED
    BY <1>2, <2>4, <2>5, <2>6, DescribedIsEntry
<1> QED
  BY <1>1, <1>2

\* What an instruction does to the entry of a constant: it keeps it, or makes it.
LEMMA ReadEntryMade ==
  ASSUME NEW i \in Instructions, NEW c \in Constants
  PROVE  \/ readEntry(i, c) = entries[c] /\ (Uses(i, c) # {} /\ ReadsOperands(i) => entries[c] # NoEntry)
         \/ Made(i, readEntry(i, c), c)
<1> DEFINE e == retrieveConstRanges(i, c)
<1>1. CASE Uses(i, c) = {}
  <2>1. Told(i, c) = {}
    BY <1>1 DEF Told
  <2>2. readEntry(i, c) = e
    BY <1>1 DEF readEntry, readOperand, readIncoming
  <2> QED
    BY <1>1, <2>1, <2>2, Retrieved
<1>2. CASE Uses(i, c) # {} /\ e # NoEntry
  <2>1. readEntry(i, c) = e
    BY <1>2 DEF readEntry, readOperand, readIncoming, getConstantRangeError
  <2>2. CASE Told(i, c) = {}
    BY <1>2, <2>1, <2>2, Retrieved
  <2>3. CASE Told(i, c) # {}
    <3>1. \E m \in Told(i, c) : e = Described(Inst[i].info[m])
      BY <2>3, Retrieved
    <3> QED
      BY <2>1, <3>1 DEF Made
  <2> QED
    BY <2>2, <2>3
<1>3. CASE Uses(i, c) # {} /\ e = NoEntry /\ ~ReadsOperands(i)
  <2>1. readEntry(i, c) = e
    BY <1>3 DEF readEntry, readOperand, ReadsOperands
  <2>2. Told(i, c) = {}
    BY <1>3, Retrieved
  <2> QED
    BY <1>3, <2>1, <2>2, Retrieved
<1>4. CASE Uses(i, c) # {} /\ e = NoEntry /\ ReadsOperands(i)
  <2>1. CASE Inst[i].ranged /\ Inst[i].op # "phi"
    <3>1. readEntry(i, c) = OwnReading(i, c)
      BY <1>4, <2>1, RangedEntry DEF readEntry, readOperand, getConstantRangeError, OwnReading
    <3> QED
      BY <1>4, <2>1, <3>1 DEF Made, ByType
  <2>2. CASE Inst[i].ranged /\ Inst[i].op = "phi"
    <3>1. readEntry(i, c) = Interpret(c, Inst[i].type, FALSE)
      BY <1>4, <2>2, RangedEntry DEF readEntry, readIncoming, getConstantRangeError
    <3>2. Interpret(c, Inst[i].type, FALSE) = OwnReading(i, c)
      <4>1. (Inst[i].op = "div" /\ Within(i, c, 1)) = FALSE
        BY <2>2
      <4> QED
        BY <4>1 DEF OwnReading
    <3> QED
      BY <1>4, <2>2, <3>1, <3>2 DEF Made, ByType
  <2>3. CASE ~Inst[i].ranged
    BY <1>4, <2>3 DEF Made, ByType
  <2> QED
    BY <2>1, <2>2, <2>3
<1> QED
  BY <1>1, <1>2, <1>3, <1>4

\* A use is a use of the constant it uses.
LEMMA ConstantUsesAreUses ==
  ASSUME NEW i \in Instructions, NEW k \in ConstantUses(i)
  PROVE  Inst[i].operands[k] \in Constants /\ k \in Uses(i, Inst[i].operands[k])
BY DEF ConstantUses, Uses

\* What is read is a use of a constant.
LEMMA ReadUsesAreUses ==
  ASSUME NEW i \in Instructions, NEW k \in ReadUses(i)
  PROVE  k \in ConstantUses(i) /\ ReadsOperands(i)
BY DEF ReadUses

\* Every entry has its source.
LEMMA SourcesInvariant == Spec => []EntriesHaveSources
<1>1. Init => EntriesHaveSources
  BY DEF Init, EntriesHaveSources
<1>2. EntriesHaveSources /\ [Next]_vars => EntriesHaveSources'
  <2> SUFFICES ASSUME EntriesHaveSources, [Next]_vars PROVE EntriesHaveSources'
    OBVIOUS
  <2>1. CASE UNCHANGED vars
    BY <2>1 DEF EntriesHaveSources, vars, ConstantUses
  <2>2. ASSUME NEW i \in Instructions, Evaluate(i) PROVE EntriesHaveSources'
    <3>1. /\ \A c \in Constants : entries'[c] = readEntry(i, c)
          /\ done' = done \cup {i} /\ last' = i
          /\ DOMAIN read' = ReadUses(i)
          /\ \A k \in ReadUses(i) : read'[k] = entries'[Inst[i].operands[k]]
      BY <2>2 DEF Evaluate
    <3>2. ASSUME NEW c \in Constants, entries'[c] # NoEntry
          PROVE  \E j \in done' : Made(j, entries'[c], c)
      BY <3>1, <3>2, ReadEntryMade DEF EntriesHaveSources
    <3>3. ASSUME NEW k \in ReadUses(i)
          PROVE  \E j \in done' : Made(j, read'[k], Inst[i].operands[k])
      <4> DEFINE c == Inst[i].operands[k]
      <4>1. c \in Constants /\ Uses(i, c) # {} /\ ReadsOperands(i)
        BY ConstantUsesAreUses, ReadUsesAreUses
      <4>2. read'[k] = readEntry(i, c)
        BY <3>1, <4>1
      <4> HIDE DEF c
      <4>3. \/ readEntry(i, c) = entries[c] /\ entries[c] # NoEntry
            \/ Made(i, readEntry(i, c), c)
        BY <4>1, ReadEntryMade
      <4>4. \E j \in done' : Made(j, read'[k], c)
        BY <3>1, <4>1, <4>2, <4>3 DEF EntriesHaveSources
      <4> QED
        BY <4>4 DEF c
    <3> QED
      BY <2>2, <3>1, <3>2, <3>3, ReadUsesAreUses DEF EntriesHaveSources, ConstantUses
  <2> QED
    BY <2>1, <2>2 DEF Next
<1> QED
  BY <1>1, <1>2, PTL DEF Spec

\* Instructions that mean a constant alike read the same of it: the cache of
\* constants is only seen where they do not (PropagatorsUtils.cpp:32).
THEOREM AgreementSuffices == Spec => []AgreedConstantsReadAlike
<1>1. EntriesHaveSources => AgreedConstantsReadAlike
  <2> SUFFICES ASSUME EntriesHaveSources, done # {}, NEW k \in DOMAIN read,
                      Inst[last].type # NoType, Inst[last].info[k] = NoInfo,
                      \A j \in done : \A l \in Uses(j, Inst[last].operands[k]) :
                        Meaning(j, l) = Meaning(last, k)
               PROVE  read[k] = Interpret(Inst[last].operands[k], Inst[last].type,
                                          Inst[last].op = "div" /\ k = 1)
    BY DEF AgreedConstantsReadAlike
  <2> DEFINE c == Inst[last].operands[k]
             double == Inst[last].op = "div" /\ k = 1
  <2>1. last \in Instructions
    BY DEF EntriesHaveSources
  <2>2. PICK j \in done : Made(j, read[k], c)
    BY DEF EntriesHaveSources
  <2>3. j \in Instructions
    BY DEF EntriesHaveSources
  <2>4. ASSUME NEW l \in Uses(j, c)
        PROVE  /\ Inst[j].info[l] = NoInfo /\ Inst[j].type = Inst[last].type
               /\ (Inst[j].op = "div" /\ l = 1) = double /\ ByType(j)
    <3>1. Meaning(j, l) = Meaning(last, k)
      OBVIOUS
    <3>2. Inst[j].type # NoType => ByType(j)
      BY <2>3, InstFields DEF ByType
    <3> QED
      BY <3>1, <3>2 DEF Meaning
  <2>5. \A m \in Told(j, c) : m \in Uses(j, c) /\ Inst[j].info[m] # NoInfo
    BY DEF Told
  <2>6. Uses(j, c) # {} /\ ByType(j) /\ read[k] = OwnReading(j, c)
    BY <2>2, <2>4, <2>5 DEF Made
  <2>7. \A l \in Uses(j, c) : l \in Nat \ {0}
    BY <2>3, InstFields DEF Uses
  <2>8. (Inst[j].op = "div" /\ Within(j, c, 1)) = double
    <3>1. Within(j, c, 1) <=> 1 \in Uses(j, c)
      BY <2>7 DEF Within
    <3>2. CASE 1 \in Uses(j, c)
      BY <2>4, <3>1, <3>2
    <3>3. CASE 1 \notin Uses(j, c)
      BY <2>4, <2>6, <3>1, <3>3
    <3> QED
      BY <3>2, <3>3
  <2> QED
    BY <2>4, <2>6, <2>8 DEF OwnReading
<1> QED
  BY <1>1, SourcesInvariant, PTL

\* "errors from metadata" (RangeErrorMap.cpp:297): metadata decides what its
\* instruction reads, whatever was read of the constant before.
THEOREM MetadataDecides == Spec => []MetadataWins
<1>1. Init => MetadataWins
  BY DEF Init, MetadataWins
<1>2. MetadataWins /\ [Next]_vars => MetadataWins'
  <2> SUFFICES ASSUME MetadataWins, [Next]_vars PROVE MetadataWins'
    OBVIOUS
  <2>1. CASE UNCHANGED vars
    BY <2>1 DEF MetadataWins, vars
  <2>2. ASSUME NEW i \in Instructions, Evaluate(i) PROVE MetadataWins'
    <3>1. /\ \A c \in Constants : entries'[c] = readEntry(i, c)
          /\ last' = i
          /\ DOMAIN read' = ReadUses(i)
          /\ \A k \in ReadUses(i) : read'[k] = entries'[Inst[i].operands[k]]
      BY <2>2 DEF Evaluate
    <3>2. ASSUME NEW k \in ReadUses(i), Inst[i].info[k] # NoInfo,
                 \A j \in Uses(i, Inst[i].operands[k]) : Inst[i].info[j] \in {NoInfo, Inst[i].info[k]}
          PROVE  read'[k] = Described(Inst[i].info[k])
      <4> DEFINE c == Inst[i].operands[k]
                 e == retrieveConstRanges(i, c)
      <4>1. c \in Constants /\ k \in Uses(i, c) /\ k \in Told(i, c)
        BY <3>2, ConstantUsesAreUses, ReadUsesAreUses DEF Told
      <4>2. e # NoEntry /\ \E m \in Told(i, c) : e = Described(Inst[i].info[m])
        BY <4>1, Retrieved
      <4>3. e = Described(Inst[i].info[k])
        BY <3>2, <4>2 DEF Told
      <4>4. readEntry(i, c) = e
        BY <4>1, <4>2 DEF readEntry, readOperand, readIncoming, getConstantRangeError
      <4>5. read'[k] = readEntry(i, c)
        BY <3>1, <4>1
      <4> QED
        BY <4>3, <4>4, <4>5
    <3> QED
      BY <3>1, <3>2 DEF MetadataWins
  <2> QED
    BY <2>1, <2>2 DEF Next
<1> QED
  BY <1>1, <1>2, PTL DEF Spec

\* propagatePhi (Propagators.cpp:394): the type of the first incoming value that has
\* one is what a phi without metadata gives to constants nobody has read.
THEOREM PhisTypeConstants == Spec => PhiTypesConstants
<1>3. ASSUME NEW i \in Instructions, Inst[i].op = "phi", ~Inst[i].ranged, insts[i] = NoEntry,
             Evaluate(i), NEW k \in DOMAIN Inst[i].operands,
             Inst[i].operands[k] \in Instructions, TypeIn(insts[Inst[i].operands[k]]) # NoType,
             \A j \in 1 .. k - 1 : /\ Inst[i].operands[j] \in Instructions
                                   /\ insts[Inst[i].operands[j]] = NoEntry,
             NEW l \in ConstantUses(i), entries[Inst[i].operands[l]] = NoEntry,
             \A u \in Uses(i, Inst[i].operands[l]) : Inst[i].info[u] = NoInfo
      PROVE  read'[l] = Interpret(Inst[i].operands[l], TypeIn(insts[Inst[i].operands[k]]), FALSE)
  <2> DEFINE ops == Inst[i].operands
             c == ops[l]
             typed == {m \in DOMAIN ops : EntryType(i, ops[m]) # NoType}
             first == CHOOSE m \in typed : \A j \in typed : m <= j
  <2>1. Constants \cap Instructions = {}
    BY InstructionsAssumption
  <2>12. retrieveRangeError(i) = NoEntry /\ \A v : EntryOf(i, v) = insts[v]
    BY <1>3 DEF retrieveRangeError, EntryOf
  <2>2. \A m \in DOMAIN ops : m \in Nat \ {0}
    BY InstFields
  <2>3. c \in Constants /\ Uses(i, c) # {}
    BY ConstantUsesAreUses
  <2>4. EntryType(i, ops[k]) = TypeIn(insts[ops[k]]) /\ k \in typed
    BY <1>3, <2>1, <2>12 DEF EntryType
  <2>5. ASSUME NEW j \in typed PROVE k <= j
    <3>1. CASE j \in 1 .. k - 1
      <4>1. ops[j] \in Instructions /\ insts[ops[j]] = NoEntry
        BY <1>3, <3>1
      <4>2. EntryType(i, ops[j]) = NoType
        BY <2>1, <2>12, <4>1 DEF EntryType, TypeIn
      <4> QED
        BY <2>5, <4>2
    <3>2. CASE j \notin 1 .. k - 1
      BY <2>2, <2>5, <3>2
    <3> QED
      BY <3>1, <3>2
  <2>6. first = k
    <3>1. first \in typed /\ \A j \in typed : first <= j
      BY <2>4, <2>5
    <3>2. first <= k /\ k <= first
      BY <2>4, <2>5, <3>1
    <3>3. first \in Nat /\ k \in Nat
      BY <2>2, <3>1
    <3> HIDE DEF first
    <3> QED
      BY <3>2, <3>3
  <2>7. ~Within(i, c, k)
    <3> SUFFICES ASSUME NEW u \in Uses(i, c), u <= k PROVE FALSE
      BY DEF Within
    <3>1. u \in DOMAIN ops /\ ops[u] = c
      BY DEF Uses
    <3>2. u = k \/ u \in 1 .. k - 1
      BY <2>2, <3>1
    <3> QED
      BY <1>3, <2>1, <2>3, <3>1, <3>2
  <2>8. retrieveConstRanges(i, c) = NoEntry
    <3>1. Told(i, c) = {}
      BY <1>3 DEF Told
    <3> QED
      BY <1>3, <3>1 DEF retrieveConstRanges
  <2>9. ConstFallbackTy(i, c) = EntryType(i, ops[k])
    <3>1. typed # {}
      BY <2>4
    <3>2. ConstFallbackTy(i, c) = IF typed = {} \/ Within(i, c, first) THEN NoType
                                  ELSE EntryType(i, ops[first])
      BY DEF ConstFallbackTy
    <3> HIDE DEF typed, first
    <3> QED
      BY <2>6, <2>7, <3>1, <3>2
  <2>10. readEntry(i, c) = Interpret(c, EntryType(i, ops[k]), FALSE)
    BY <1>3, <2>3, <2>8, <2>9, <2>12 DEF readEntry, readIncoming, getConstantRangeError
  <2>11. read'[l] = readEntry(i, c)
    <3>1. l \in ReadUses(i)
      BY <1>3 DEF ReadUses, ReadsOperands
    <3> QED
      BY <1>3, <2>3, <3>1 DEF Evaluate
  <2> QED
    BY <2>4, <2>10, <2>11
<1>4. [Next]_vars => [\A i \in Instructions :
        Inst[i].op = "phi" /\ ~Inst[i].ranged /\ insts[i] = NoEntry /\ Evaluate(i) =>
          LET ops == Inst[i].operands
          IN  \A k \in DOMAIN ops :
                /\ ops[k] \in Instructions /\ TypeIn(insts[ops[k]]) # NoType
                /\ \A j \in 1 .. k - 1 : ops[j] \in Instructions /\ insts[ops[j]] = NoEntry
                => \A l \in ConstantUses(i) :
                     /\ entries[ops[l]] = NoEntry
                     /\ \A u \in Uses(i, ops[l]) : Inst[i].info[u] = NoInfo
                     => read'[l] = Interpret(ops[l], TypeIn(insts[ops[k]]), FALSE)]_vars
  BY <1>3, Zenon
<1> QED
  BY <1>4, PTL DEF Spec, PhiTypesConstants

-----------------------------------------------------------------------------
(* The arithmetic of fixed point bounds.                                   *)

\* Powers of two: what their recursion computes.
LEMMA PowersOfTwo ==
  /\ TwoTo \in [Nat -> Nat] /\ TwoTo[0] = 1
  /\ \A n \in Nat : TwoTo[n + 1] = 2 * TwoTo[n] /\ TwoTo[n] > 0
<1> DEFINE step == [n \in Nat \ {0} |-> [x \in Nat |-> 2 * x]]
           IsPower(f) == f = [n \in Nat |-> IF n = 0 THEN 1 ELSE 2 * f[n - 1]]
<1>1. step \in [Nat \ {0} -> [Nat -> Nat]] /\ 1 \in Nat
  OBVIOUS
<1>2. \A n \in Nat : \A x \in Nat : step[n + 1][x] = 2 * x
  OBVIOUS
<1> HIDE DEF step
<1>3. PICK f \in [Nat -> Nat] : ComputesOnNat(f, 1, step)
  BY <1>1, RecursiveFunctionOnNat
<1>4. f[0] = 1 /\ \A n \in Nat : f[n + 1] = 2 * f[n]
  BY <1>2, <1>3 DEF ComputesOnNat
<1>5. IsPower(f)
  <2>1. ASSUME NEW n \in Nat PROVE f[n] = IF n = 0 THEN 1 ELSE 2 * f[n - 1]
    <3>1. CASE n # 0
      <4>1. n - 1 \in Nat /\ (n - 1) + 1 = n
        BY <3>1
      <4> QED
        BY <4>1, <1>4, <3>1
    <3> QED
      BY <3>1, <1>4
  <2> QED
    BY <2>1
<1>6. TwoTo = CHOOSE g : IsPower(g)
  BY DEF TwoTo
<1>7. IsPower(TwoTo)
  <2> HIDE DEF IsPower
  <2> QED
    BY <1>5, <1>6, Zenon
<1>8. TwoTo[0] = 1 /\ \A n \in Nat : TwoTo[n + 1] = 2 * TwoTo[n]
  <2>1. \A n \in Nat : n + 1 \in Nat /\ n + 1 # 0 /\ (n + 1) - 1 = n /\ 0 \in Nat
    OBVIOUS
  <2>2. \A n \in Nat : TwoTo[n] = IF n = 0 THEN 1 ELSE 2 * TwoTo[n - 1]
    BY <1>7
  <2> HIDE <1>7
  <2> QED
    BY <2>1, <2>2
<1>9. \A n \in Nat : TwoTo[n] \in Nat \ {0}
  <2> DEFINE T == {n \in Nat : TwoTo[n] \in Nat \ {0}}
  <2>1. 0 \in T /\ \A n \in Nat : n \in T => n + 1 \in T
    BY <1>8
  <2> HIDE DEF T
  <2>2. \A n \in Nat : n \in T
    BY <2>1, InductionOverNat
  <2> QED
    BY <2>2 DEF T
<1>10. DOMAIN TwoTo = Nat /\ TwoTo = [n \in DOMAIN TwoTo |-> TwoTo[n]]
  BY <1>7
<1> QED
  BY <1>8, <1>9, <1>10

\* They grow.
LEMMA PowersGrow ==
  ASSUME NEW v \in Nat, NEW w \in Nat, v <= w
  PROVE  TwoTo[v] <= TwoTo[w]
<1> DEFINE T == {n \in Nat : TwoTo[v] <= TwoTo[v + n]}
<1>1. 0 \in T
  BY PowersOfTwo
<1>2. ASSUME NEW n \in Nat, n \in T PROVE n + 1 \in T
  <2>1. v + n \in Nat /\ v + (n + 1) = (v + n) + 1
    OBVIOUS
  <2>2. TwoTo[v + n] \in Nat /\ TwoTo[v] \in Nat /\ TwoTo[(v + n) + 1] = 2 * TwoTo[v + n]
    BY <2>1, PowersOfTwo
  <2> QED
    BY <1>2, <2>1, <2>2
<1> HIDE DEF T
<1>3. \A n \in Nat : n \in T
  BY <1>1, <1>2, InductionOverNat
<1>4. w - v \in Nat /\ v + (w - v) = w
  OBVIOUS
<1> QED
  BY <1>3, <1>4 DEF T

\* The remainder of a division, for both signs.
LEMMA Remainder ==
  ASSUME NEW v \in Int, NEW m \in Nat \ {0}
  PROVE  /\ v % m \in 0 .. m - 1
         /\ v \in 0 .. m - 1 => v % m = v
         /\ (v - m) % m = v % m
<1>1. \A x \in Int : x % m \in 0 .. m - 1 /\ x \div m \in Int /\ x = m * (x \div m) + (x % m)
  OBVIOUS
<1>2. ASSUME NEW a \in 0 .. m - 1, NEW b \in 0 .. m - 1, NEW p \in Int, NEW q \in Int,
             m * p + a = m * q + b
      PROVE  a = b
  <2>1. m * (p - q) = m * p - m * q /\ m * (q - p) = m * q - m * p
    OBVIOUS
  <2>2. p - q >= 1 => m * (p - q) >= m
    <3>1. \A k \in Nat : m * (1 + k) = m + m * k /\ m * k \in Nat
      OBVIOUS
    <3>2. p - q >= 1 => (p - q) - 1 \in Nat /\ 1 + ((p - q) - 1) = p - q
      OBVIOUS
    <3> QED
      BY <3>1, <3>2
  <2>3. q - p >= 1 => m * (q - p) >= m
    <3>1. \A k \in Nat : m * (1 + k) = m + m * k /\ m * k \in Nat
      OBVIOUS
    <3>2. q - p >= 1 => (q - p) - 1 \in Nat /\ 1 + ((q - p) - 1) = q - p
      OBVIOUS
    <3> QED
      BY <3>1, <3>2
  <2>4. m * p \in Int /\ m * q \in Int
    OBVIOUS
  <2> QED
    BY <1>2, <2>1, <2>2, <2>3, <2>4
<1> DEFINE a == v % m
           p == v \div m
           b == (v - m) % m
           q == (v - m) \div m
<1>3. a \in 0 .. m - 1 /\ p \in Int /\ v = m * p + a
  BY <1>1
<1>4. b \in 0 .. m - 1 /\ q \in Int /\ v - m = m * q + b
  <2>1. v - m \in Int
    OBVIOUS
  <2> QED
    BY <2>1, <1>1
<1>5. v % m = a /\ (v - m) % m = b
  OBVIOUS
<1> HIDE DEF a, p, b, q
<1>6. v \in 0 .. m - 1 => a = v
  <2>1. m * p + a = m * 0 + v
    BY <1>3
  <2> QED
    BY <2>1, <1>2, <1>3
<1>7. b = a
  <2>1. m * (q + 1) = m * q + m /\ m * q \in Int /\ q + 1 \in Int
    BY <1>4
  <2>2. m * (q + 1) + b = m * p + a
    BY <2>1, <1>3, <1>4
  <2> QED
    BY <2>1, <2>2, <1>2, <1>3, <1>4
<1> QED
  BY <1>3, <1>5, <1>6, <1>7

\* The low bits with a sign are those without, or a power of two below them.
LEMMA SignedIs ==
  ASSUME NEW v \in Int, NEW w \in Nat \ {0}
  PROVE  LET full == TwoTo[w]
             half == TwoTo[w - 1]
         IN  /\ half \in Nat \ {0} /\ full = 2 * half
             /\ Unsigned(v, w) \in 0 .. full - 1
             /\ Signed(v, w) \in -half .. half - 1
             /\ Signed(v, w) % full = v % full /\ Unsigned(v, w) % full = v % full
<1> DEFINE full == TwoTo[w]
           half == TwoTo[w - 1]
           r == v % full
<1>1. half \in Nat \ {0} /\ full = 2 * half
  <2>1. w - 1 \in Nat /\ (w - 1) + 1 = w
    OBVIOUS
  <2> QED
    BY <2>1, PowersOfTwo
<1>2. full \in Nat \ {0}
  BY <1>1
<1>5. Unsigned(v, w) = r /\ Signed(v, w) = IF r < half THEN r ELSE r - full
  BY DEF Unsigned, Signed
<1> HIDE DEF full, half
<1>3. r \in 0 .. full - 1
  BY <1>2, Remainder
<1>8. v % full = r
  OBVIOUS
<1> HIDE DEF r
<1>4. r % full = r /\ (r - full) % full = r % full
  <2>1. r \in Int
    BY <1>2, <1>3
  <2>2. r % full = r
    BY <1>2, <1>3, <2>1, Remainder
  <2>3. (r - full) % full = r % full
    BY <1>2, <2>1, Remainder
  <2> QED
    BY <2>2, <2>3
<1>6. Signed(v, w) \in -half .. half - 1
  BY <1>1, <1>3, <1>5
<1>7. Signed(v, w) % full = r /\ Unsigned(v, w) % full = r
  BY <1>4, <1>5
<1> QED
  BY <1>1, <1>3, <1>5, <1>6, <1>7, <1>8 DEF full, half

\* The low bits depend on the remainder only.
LEMMA SignedOfSame ==
  ASSUME NEW v \in Int, NEW u \in Int, NEW w \in Nat, v % TwoTo[w] = u % TwoTo[w]
  PROVE  Signed(v, w) = Signed(u, w) /\ Unsigned(v, w) = Unsigned(u, w)
BY DEF Signed, Unsigned

\* A number that is one of w bits is its own low bits, in w bits or more.
LEMMA SignedFits ==
  ASSUME NEW w \in Nat \ {0}, NEW p \in Nat \ {0}, w <= p, NEW n \in Int
  PROVE  /\ n \in -TwoTo[w - 1] .. TwoTo[w - 1] - 1 => Signed(n, p) = n
         /\ n \in 0 .. TwoTo[w] - 1 => Unsigned(n, p) = n
<1> DEFINE full == TwoTo[p]
           half == TwoTo[p - 1]
           h == TwoTo[w - 1]
           f == TwoTo[w]
<1>1. half \in Nat \ {0} /\ full = 2 * half /\ full \in Nat \ {0} /\ h \in Nat /\ f \in Nat
  <2>1. p - 1 \in Nat /\ (p - 1) + 1 = p /\ w - 1 \in Nat
    OBVIOUS
  <2> QED
    BY <2>1, PowersOfTwo
<1>2. h <= half /\ f <= full
  <2>1. w - 1 \in Nat /\ p - 1 \in Nat /\ w - 1 <= p - 1
    OBVIOUS
  <2> QED
    BY <2>1, PowersGrow
<1>3. Unsigned(n, p) = n % full
      /\ Signed(n, p) = IF n % full < half THEN n % full ELSE (n % full) - full
  BY DEF Signed, Unsigned
<1> HIDE DEF full, half, h, f
<1>4. ASSUME n \in 0 .. f - 1 PROVE Unsigned(n, p) = n
  <2>1. n \in 0 .. full - 1
    BY <1>1, <1>2, <1>4
  <2> QED
    BY <2>1, <1>1, <1>3, Remainder
<1>5. ASSUME n \in -h .. h - 1 PROVE Signed(n, p) = n
  <2>1. CASE n >= 0
    <3>1. n \in 0 .. full - 1 /\ n < half
      BY <1>1, <1>2, <1>5, <2>1
    <3>2. n % full = n
      BY <3>1, <1>1, Remainder
    <3> QED
      BY <3>1, <3>2, <1>3
  <2>2. CASE n < 0
    <3>1. n + full \in 0 .. full - 1 /\ n + full \in Int /\ (n + full) - full = n /\ ~ (n + full < half)
      BY <1>1, <1>2, <1>5, <2>2
    <3>2. n % full = n + full
      <4>1. (n + full) % full = n + full /\ ((n + full) - full) % full = (n + full) % full
        BY <3>1, <1>1, Remainder
      <4> QED
        BY <4>1, <3>1
    <3> QED
      BY <3>1, <3>2, <1>3
  <2> QED
    BY <2>1, <2>2, <1>1, <1>5
<1> QED
  BY <1>4, <1>5 DEF h, f

\* The width of a class is at least the width it is chosen for, and is chosen for itself.
LEMMA PrecisionIs ==
  ASSUME NEW w \in Nat \ {0}
  PROVE  /\ Precision(w) \in Nat \ {0} /\ w <= Precision(w)
         /\ Precision(Precision(w)) = Precision(w)
BY WidthAssumption DEF Precision

-----------------------------------------------------------------------------
(* Constants, read as numbers of the type of the result.                   *)

\* The bits of a constant, with and without sign, are numbers of its width.
LEMMA ConstantIs ==
  ASSUME NEW c \in Constants
  PROVE  LET v == ConstantValue[c]
             prec == Precision(v.width)
         IN  /\ v.width \in Nat \ {0} /\ prec \in Nat \ {0}
             /\ getZExtValue(v) \in Nat /\ getSExtValue(v) \in Int
             /\ Unsigned(getZExtValue(v), prec) = getZExtValue(v)
             /\ Signed(getSExtValue(v), prec) = getSExtValue(v)
<1> DEFINE v == ConstantValue[c]
           w == v.width
           n == v.bits
           prec == Precision(w)
<1>1. v \in ConstantInts
  BY InstructionsAssumption
<1>2. w \in Nat \ {0} /\ n \in Nat /\ n < TwoTo[w]
  BY <1>1 DEF ConstantInts, Widths
<1>3. getZExtValue(v) = n /\ getSExtValue(v) = Signed(n, w)
  BY DEF getZExtValue, getSExtValue
<1> HIDE DEF v, w, n
<1>4. prec \in Nat \ {0} /\ w <= prec
  BY <1>2, PrecisionIs
<1>5. n \in 0 .. TwoTo[w] - 1 /\ n \in Int
  <2>1. TwoTo[w] \in Nat
    BY <1>2, PowersOfTwo
  <2> QED
    BY <2>1, <1>2
<1> DEFINE s == Signed(n, w)
<1>6. s \in -TwoTo[w - 1] .. TwoTo[w - 1] - 1 /\ s \in Int
  <2>1. TwoTo[w - 1] \in Nat /\ s \in -TwoTo[w - 1] .. TwoTo[w - 1] - 1
    BY <1>2, <1>5, SignedIs
  <2> HIDE DEF s
  <2> QED
    BY <2>1
<1> HIDE DEF s, prec
<1>7. Unsigned(n, prec) = n
  BY <1>2, <1>4, <1>5, SignedFits
<1>8. Signed(s, prec) = s
  BY <1>2, <1>4, <1>6, SignedFits
<1> QED
  BY <1>2, <1>3, <1>4, <1>6, <1>7, <1>8 DEF v, w, s, prec

\* The fractional bits that a type gives a constant.
LEMMA PointPosIs ==
  ASSUME NEW T \in Types, NEW double \in BOOLEAN
  PROVE  LET pos == IF double THEN 2 * T.PointPos ELSE T.PointPos
         IN  /\ pos \in Nat /\ T.isSigned \in BOOLEAN
             /\ SignedPointPos(T, double) = IF T.isSigned THEN -pos ELSE pos
             /\ T.PointPos > 0 => pos > 0
<1>1. T.PointPos \in Nat /\ T.isSigned \in BOOLEAN
  BY InstructionsAssumption
<1> QED
  BY <1>1 DEF SignedPointPos

\* What getConstantRangeError makes of a constant is an entry.
LEMMA InterpretIsEntry ==
  ASSUME NEW c \in Constants, NEW T \in Results, NEW double \in BOOLEAN
  PROVE  Interpret(c, T, double) \in Entries /\ Interpret(c, T, double) # NoEntry
<1> SUFFICES Interpret(c, T, double) \in Entries
  BY EntryAssumption
<1> DEFINE v == ConstantValue[c]
           prec == Precision(v.width)
           sp == SignedPointPos(T, double)
           x == createFromConstantInt(sp, NoWidth, v, v)
<1>1. /\ v.width \in Nat \ {0} /\ prec \in Nat \ {0}
      /\ getZExtValue(v) \in Nat /\ getSExtValue(v) \in Int
      /\ Unsigned(getZExtValue(v), prec) = getZExtValue(v)
      /\ Signed(getSExtValue(v), prec) = getSExtValue(v)
  BY ConstantIs
<1> HIDE DEF v, prec
<1>2. CASE T = NoType
  <2>1. Interpret(c, T, double) =
          [Min |-> getSExtValue(v), Max |-> getSExtValue(v), exp |-> 0, type |-> Uninitialized,
           error |-> Exact, width |-> v.width]
    BY <1>2 DEF Interpret, v
  <2> QED
    BY <1>1, <2>1 DEF Entries, Errors, RangeTypes
<1>3. CASE T \in Types
  <2>1. T # NoType
    BY <1>3, InstructionsAssumption
  <2>2. sp \in Int
    BY <1>3, PointPosIs
  <2> HIDE DEF sp
  <2>3. x.PointPos \in Nat /\ x.Min \in Int /\ x.Max \in Int /\ x.prec = prec
    BY <1>1, <2>2 DEF createFromConstantInt, prec
  <2>4. Interpret(c, T, double) =
          [Min |-> x.Min, Max |-> x.Max, exp |-> x.PointPos, type |-> Uninitialized,
           error |-> RoundingError(T), width |-> x.prec]
    BY <2>1 DEF Interpret, v, sp, getInterval
  <2>5. RoundingError(T) \in Errors
    BY <1>3 DEF RoundingError, Errors
  <2> HIDE DEF x
  <2> QED
    BY <1>1, <2>3, <2>4, <2>5 DEF Entries, RangeTypes
<1> QED
  BY <1>2, <1>3 DEF Results

\* A constant that is read with a type is its bits, as a number of that type.
LEMMA InterpretIsResult ==
  ASSUME NEW c \in Constants, NEW T \in Types, NEW double \in BOOLEAN, T.isSigned => T.PointPos > 0
  PROVE  RangeOf(Interpret(c, T, double)) = AsResult(c, T, double)
<1> DEFINE v == ConstantValue[c]
           prec == Precision(v.width)
           sp == SignedPointPos(T, double)
           pos == IF double THEN 2 * T.PointPos ELSE T.PointPos
           x == createFromConstantInt(sp, NoWidth, v, v)
           n == IF T.isSigned THEN getSExtValue(v) ELSE getZExtValue(v)
<1>1. /\ Unsigned(getZExtValue(v), prec) = getZExtValue(v)
      /\ Signed(getSExtValue(v), prec) = getSExtValue(v)
  BY ConstantIs
<1>2. pos \in Nat /\ T.isSigned \in BOOLEAN /\ sp = (IF T.isSigned THEN -pos ELSE pos)
      /\ (T.PointPos > 0 => pos > 0)
  BY PointPosIs
<1>3. T # NoType
  BY InstructionsAssumption
<1>4. RangeOf(Interpret(c, T, double)) = [Min |-> x.Min, Max |-> x.Max, exp |-> x.PointPos]
  BY <1>3 DEF Interpret, getInterval, RangeOf
<1>5. AsResult(c, T, double) = [Min |-> n, Max |-> n, exp |-> pos]
  BY DEF AsResult
<1> HIDE DEF v, sp, pos
<1>6. /\ x.PointPos = IF sp < 0 THEN -sp ELSE sp
      /\ x.Min = (IF sp < 0 THEN Signed(getSExtValue(v), prec) ELSE Unsigned(getZExtValue(v), prec))
      /\ x.Max = x.Min
  BY DEF createFromConstantInt
<1> HIDE DEF x, prec
<1>7. x.PointPos = pos /\ x.Min = n /\ x.Max = n
  BY <1>1, <1>2, <1>6
<1> QED
  BY <1>4, <1>5, <1>7

\* Instructions that all mean a constant alike read it as a number of the type of
\* their results (PropagatorsUtils.cpp:36), whatever its bits.
THEOREM AgreementReadsResults == Spec => []AgreedConstantsReadAsResult
<1>1. EntriesHaveSources /\ AgreedConstantsReadAlike => AgreedConstantsReadAsResult
  <2> SUFFICES ASSUME EntriesHaveSources, AgreedConstantsReadAlike, done # {}, NEW k \in DOMAIN read,
                      Inst[last].type # NoType, Inst[last].info[k] = NoInfo,
                      Inst[last].type.isSigned => Inst[last].type.PointPos > 0,
                      \A j \in done : \A l \in Uses(j, Inst[last].operands[k]) :
                        Meaning(j, l) = Meaning(last, k)
               PROVE  RangeOf(read[k]) = AsResult(Inst[last].operands[k], Inst[last].type,
                                                  Inst[last].op = "div" /\ k = 1)
    BY DEF AgreedConstantsReadAsResult
  <2> DEFINE c == Inst[last].operands[k]
             T == Inst[last].type
             double == Inst[last].op = "div" /\ k = 1
  <2>1. last \in Instructions /\ k \in ConstantUses(last)
    BY DEF EntriesHaveSources
  <2>2. c \in Constants /\ T \in Types /\ double \in BOOLEAN
    BY <2>1, ConstantUsesAreUses, InstFields DEF Results
  <2>3. read[k] = Interpret(c, T, double)
    BY DEF AgreedConstantsReadAlike
  <2>4. T.isSigned => T.PointPos > 0
    OBVIOUS
  <2> HIDE DEF c, T, double
  <2>5. RangeOf(Interpret(c, T, double)) = AsResult(c, T, double)
    BY <2>2, <2>4, InterpretIsResult
  <2> QED
    BY <2>3, <2>5 DEF c, T, double
<1> QED
  BY <1>1, SourcesInvariant, AgreementSuffices, PTL

-----------------------------------------------------------------------------
(* Fixed point values as metadata.                                         *)

\* The class that a FixedPointValue belongs to is the one its metadata is read as.
LEMMA ReadBack ==
  ASSUME NEW w \in Nat \ {0}, NEW p \in Int, NEW b1 \in Nat, NEW b2 \in Nat
  PROVE  LET x == createFromConstantInt(p, NoWidth, [bits |-> b1, width |-> w],
                                        [bits |-> b2, width |-> w])
         IN  createFromMDNode(NoWidth, toMetadata(x)) = x
<1> DEFINE prec == Precision(w)
           n1 == IF p < 0 THEN Signed(b1, w) ELSE b1
           n2 == IF p < 0 THEN Signed(b2, w) ELSE b2
           Cut(n) == IF p < 0 THEN Signed(n, prec) ELSE Unsigned(n, prec)
           x == createFromConstantInt(p, NoWidth, [bits |-> b1, width |-> w],
                                      [bits |-> b2, width |-> w])
           m == toMetadata(x)
           y == createFromMDNode(NoWidth, m)
<1>1. prec \in Nat \ {0} /\ Precision(prec) = prec
  BY PrecisionIs
<1>2. n1 \in Int /\ n2 \in Int
  <2>1. \A b \in Nat : Signed(b, w) \in Int
    <3> SUFFICES ASSUME NEW b \in Nat PROVE Signed(b, w) \in Int
      OBVIOUS
    <3>1. TwoTo[w - 1] \in Nat /\ Signed(b, w) \in -TwoTo[w - 1] .. TwoTo[w - 1] - 1
      BY SignedIs
    <3> QED
      BY <3>1
  <2> QED
    BY <2>1
<1>3. x = [PointPos |-> IF p < 0 THEN -p ELSE p, isSigned |-> p < 0, prec |-> prec,
           Min |-> Cut(n1), Max |-> Cut(n2)]
  BY DEF createFromConstantInt, getSExtValue, getZExtValue
<1>4. ASSUME NEW n \in Int
      PROVE  /\ Cut(n) \in Int /\ Unsigned(Cut(n), prec) \in Nat
             /\ IF p < 0 THEN Signed(Signed(Unsigned(Cut(n), prec), prec), prec) = Cut(n)
                ELSE Unsigned(Unsigned(Cut(n), prec), prec) = Cut(n)
  <2> DEFINE full == TwoTo[prec]
             half == TwoTo[prec - 1]
  <2>1. \A v \in Int : /\ half \in Nat \ {0} /\ full = 2 * half
                       /\ Unsigned(v, prec) \in 0 .. full - 1 /\ Signed(v, prec) \in -half .. half - 1
                       /\ Signed(v, prec) % full = v % full /\ Unsigned(v, prec) % full = v % full
    BY <1>1, SignedIs
  <2>2. \A v \in Int, u \in Int : v % full = u % full =>
          Signed(v, prec) = Signed(u, prec) /\ Unsigned(v, prec) = Unsigned(u, prec)
    BY <1>1, SignedOfSame
  <2> HIDE DEF full, half, prec
  <2>3. \A v \in Int : Unsigned(v, prec) \in Nat /\ Signed(v, prec) \in Int
    BY <2>1
  <2> DEFINE u == Unsigned(n, prec)
             s == Signed(n, prec)
             us == Unsigned(s, prec)
             sus == Signed(us, prec)
             uu == Unsigned(u, prec)
  <2>4. u \in Nat /\ u \in Int /\ s \in Int /\ us \in Nat /\ us \in Int /\ sus \in Int /\ uu \in Nat /\ uu \in Int
    BY <2>3
  <2>5. u % full = n % full /\ s % full = n % full
    BY <2>1
  <2>6. us % full = n % full
    BY <2>1, <2>4, <2>5
  <2>7. uu % full = n % full
    BY <2>1, <2>4, <2>5
  <2>8. sus % full = n % full
    BY <2>1, <2>4, <2>6
  <2>9. Signed(sus, prec) = s
    BY <2>2, <2>4, <2>8
  <2>10. Unsigned(uu, prec) = u
    BY <2>2, <2>4, <2>7
  <2> QED
    BY <2>4, <2>9, <2>10
<1> HIDE DEF prec, n1, n2, Cut
<1>5. m = <<p, [bits |-> Unsigned(Cut(n1), prec), width |-> prec],
               [bits |-> Unsigned(Cut(n2), prec), width |-> prec]>>
  <2> HIDE DEF x
  <2>1. /\ x.PointPos = (IF p < 0 THEN -p ELSE p) /\ x.isSigned = (p < 0) /\ x.prec = prec
        /\ x.Min = Cut(n1) /\ x.Max = Cut(n2)
    BY <1>3
  <2>2. getPointPosMetadata(x) = p
    <3>1. CASE p < 0
      <4>1. x.isSigned = TRUE /\ x.PointPos = -p
        BY <2>1, <3>1
      <4> QED
        BY <4>1 DEF getPointPosMetadata
    <3>2. CASE ~ (p < 0)
      <4>1. x.isSigned = FALSE
        <5>1. (p < 0) = FALSE
          BY <3>2
        <5> QED
          BY <2>1, <5>1
      <4>2. x.PointPos = p
        BY <2>1, <3>2, Zenon
      <4> QED
        BY <4>1, <4>2 DEF getPointPosMetadata
    <3> QED
      BY <3>1, <3>2
  <2> QED
    BY <2>1, <2>2 DEF toMetadata, getBoundMetadata
<1> HIDE DEF x, m
<1> DEFINE u1 == Unsigned(Cut(n1), prec)
           u2 == Unsigned(Cut(n2), prec)
<1>6. IF p < 0 THEN Signed(Signed(u1, prec), prec) = Cut(n1) /\ Signed(Signed(u2, prec), prec) = Cut(n2)
      ELSE Unsigned(u1, prec) = Cut(n1) /\ Unsigned(u2, prec) = Cut(n2)
  BY <1>2, <1>4
<1> HIDE DEF u1, u2
<1>7. m[1] = p /\ m[2] = [bits |-> u1, width |-> prec] /\ m[3] = [bits |-> u2, width |-> prec]
  BY <1>5 DEF u1, u2
<1>8. y = createFromConstantInt(p, NoWidth, [bits |-> u1, width |-> prec], [bits |-> u2, width |-> prec])
  BY <1>7 DEF createFromMDNode
<1> HIDE DEF y
<1>9. y = [PointPos |-> IF p < 0 THEN -p ELSE p, isSigned |-> p < 0, prec |-> prec,
           Min |-> IF p < 0 THEN Signed(Signed(u1, prec), prec) ELSE Unsigned(u1, prec),
           Max |-> IF p < 0 THEN Signed(Signed(u2, prec), prec) ELSE Unsigned(u2, prec)]
  BY <1>1, <1>8 DEF createFromConstantInt, getSExtValue, getZExtValue
<1>10. y = x
  BY <1>3, <1>6, <1>9
<1> QED
  BY <1>10 DEF y, m, x

\* A FixedPointValue of any width is read back from its metadata as it was written
\* (FixedPoint.cpp:64 and 173).
THEOREM MetadataRoundTrip == Spec => []RoundTrip
<1>1. RoundTrip
  <2> SUFFICES ASSUME NEW w \in 1 .. Wide, NEW p \in -w .. w,
                      NEW b1 \in 0 .. TwoTo[w] - 1, NEW b2 \in 0 .. TwoTo[w] - 1
               PROVE  LET x == createFromConstantInt(p, NoWidth, [bits |-> b1, width |-> w],
                                                     [bits |-> b2, width |-> w])
                      IN  createFromMDNode(NoWidth, toMetadata(x)) = x
    BY DEF RoundTrip
  <2>1. w \in Nat \ {0} /\ p \in Int /\ TwoTo[w] \in Nat
    BY WidthAssumption, PowersOfTwo
  <2>2. b1 \in Nat /\ b2 \in Nat
    BY <2>1
  <2> QED
    BY <2>1, <2>2, ReadBack, Zenon
<1> QED
  BY <1>1, PTL

-----------------------------------------------------------------------------
(* Type correctness.                                                       *)

\* The entry of an instruction is one, and the type in it is a type or none.
LEMMA InstEntryIs ==
  ASSUME TypeOK, NEW i \in Instructions
  PROVE  /\ retrieveRangeError(i) \in InstEntries \cup {NoEntry}
         /\ \A v \in Instructions : EntryOf(i, v) \in InstEntries \cup {NoEntry}
         /\ OwnType(i) \in Results
<1>1. retrieveRangeError(i) \in InstEntries \cup {NoEntry}
  <2>1. CASE Inst[i].ranged
    BY <2>1, RangedEntry
  <2>2. CASE ~Inst[i].ranged
    BY <2>2 DEF retrieveRangeError, TypeOK
  <2> QED
    BY <2>1, <2>2
<1>2. \A v \in Instructions : EntryOf(i, v) \in InstEntries \cup {NoEntry}
  BY <1>1 DEF EntryOf, TypeOK
<1>3. OwnType(i) \in Results
  BY <1>1 DEF OwnType, TypeIn, InstEntries, RangeTypes, Results
<1> QED
  BY <1>1, <1>2, <1>3

\* The type in the entry of an operand is a type or none.
LEMMA EntryTypeIs ==
  ASSUME TypeOK, NEW i \in Instructions
  PROVE  /\ \A c \in Constants : retrieveConstRanges(i, c) \in Entries \cup {NoEntry}
         /\ \A v \in Operands : EntryType(i, v) \in Results
         /\ \A c : ConstFallbackTy(i, c) \in Results
<1>1. ASSUME NEW c \in Constants PROVE retrieveConstRanges(i, c) \in Entries \cup {NoEntry}
  <2>1. CASE Told(i, c) = {}
    BY <2>1, Retrieved DEF TypeOK
  <2>2. CASE Told(i, c) # {}
    <3>1. PICK m \in Told(i, c) : retrieveConstRanges(i, c) = Described(Inst[i].info[m])
      BY <2>2, Retrieved
    <3>2. Inst[i].info[m] \in Infos
      BY InstFields DEF Told, Uses
    <3> QED
      BY <3>1, <3>2, DescribedIsEntry
  <2> QED
    BY <2>1, <2>2
<1>2. ASSUME NEW v \in Operands PROVE EntryType(i, v) \in Results
  <2>1. CASE v \in Constants
    <3>1. \A e \in Entries : e.type \in RangeTypes
      BY DEF Entries
    <3> QED
      BY <1>1, <2>1, <3>1 DEF EntryType, TypeIn, Results, RangeTypes
  <2>2. CASE v \notin Constants
    <3>1. EntryOf(i, v) \in InstEntries \cup {NoEntry}
      BY <2>2, InstEntryIs DEF Operands
    <3> QED
      BY <2>2, <3>1 DEF EntryType, TypeIn, InstEntries, RangeTypes, Results
  <2> QED
    BY <2>1, <2>2
<1>3. ASSUME NEW c PROVE ConstFallbackTy(i, c) \in Results
  <2> DEFINE ops == Inst[i].operands
             typed == {k \in DOMAIN ops : EntryType(i, ops[k]) # NoType}
             first == CHOOSE k \in typed : \A j \in typed : k <= j
             T == EntryType(i, ops[first])
  <2>1. ConstFallbackTy(i, c) = IF typed = {} \/ Within(i, c, first) THEN NoType ELSE T
    BY DEF ConstFallbackTy
  <2>2. CASE typed = {}
    BY <2>1, <2>2 DEF Results
  <2>3. CASE typed # {}
    <3>1. \E k \in typed : \A j \in typed : k <= j
      <4>1. ops \in Seq(Operands)
        BY InstructionsAssumption
      <4>2. typed \subseteq Nat
        BY <4>1
      <4> HIDE DEF typed
      <4> QED
        BY <2>3, <4>2, LeastNumber
    <3>2. first \in DOMAIN ops
      BY <3>1
    <3>3. ops[first] \in Operands
      <4>1. ops \in Seq(Operands)
        BY InstructionsAssumption
      <4> HIDE DEF first, ops
      <4> QED
        BY <3>2, <4>1
    <3>4. T \in Results
      BY <1>2, <3>3
    <3> HIDE DEF T, typed, first
    <3> QED
      BY <2>1, <3>4 DEF Results
  <2> QED
    BY <2>2, <2>3
<1> QED
  BY <1>1, <1>2, <1>3

\* What an instruction leaves for a constant is an entry, if it reads the constant.
LEMMA ReadEntryType ==
  ASSUME TypeOK, NEW i \in Instructions, NEW c \in Constants
  PROVE  /\ readEntry(i, c) \in Entries \cup {NoEntry}
         /\ Uses(i, c) # {} /\ ReadsOperands(i) => readEntry(i, c) \in Entries
         /\ Uses(i, c) = {} => readEntry(i, c) = entries[c]
<1> DEFINE e == retrieveConstRanges(i, c)
<1>1. e \in Entries \cup {NoEntry} /\ OwnType(i) \in Results /\ ConstFallbackTy(i, c) \in Results
  BY EntryTypeIs, InstEntryIs
<1>2. CASE Uses(i, c) = {}
  <2>1. Told(i, c) = {}
    BY <1>2 DEF Told
  <2>2. readEntry(i, c) = e
    BY <1>2 DEF readEntry, readOperand, readIncoming
  <2> QED
    BY <1>1, <1>2, <2>1, <2>2, Retrieved
<1>3. CASE Uses(i, c) # {} /\ ~ReadsOperands(i)
  <2>1. readEntry(i, c) = e
    BY <1>3 DEF readEntry, readOperand, ReadsOperands
  <2> QED
    BY <1>1, <1>3, <2>1
<1>4. CASE Uses(i, c) # {} /\ ReadsOperands(i)
  <2>1. \E T \in Results, double \in BOOLEAN : readEntry(i, c) = getConstantRangeError(e, c, T, double)
    <3>1. CASE Inst[i].op = "phi"
      <4> DEFINE T == IF retrieveRangeError(i) # NoEntry THEN OwnType(i) ELSE ConstFallbackTy(i, c)
      <4>1. readEntry(i, c) = getConstantRangeError(e, c, T, FALSE) /\ T \in Results
        BY <1>1, <1>4, <3>1 DEF readEntry, readIncoming
      <4> QED
        BY <4>1
    <3>2. CASE Inst[i].op # "phi"
      <4> DEFINE double == Inst[i].op = "div" /\ Within(i, c, 1)
      <4>1. readEntry(i, c) = getConstantRangeError(e, c, OwnType(i), double) /\ double \in BOOLEAN
        BY <1>4, <3>2 DEF readEntry, readOperand
      <4> QED
        BY <1>1, <4>1
    <3> QED
      BY <3>1, <3>2
  <2>2. PICK T \in Results, double \in BOOLEAN : readEntry(i, c) = getConstantRangeError(e, c, T, double)
    BY <2>1
  <2> HIDE DEF e
  <2>3. readEntry(i, c) \in Entries
    BY <1>1, <2>2, InterpretIsEntry DEF getConstantRangeError
  <2> QED
    BY <1>4, <2>3
<1> QED
  BY <1>2, <1>3, <1>4

\* What the rule of an instruction leaves for it is an entry, if it leaves anything.
LEMMA PropagatedType ==
  ASSUME TypeOK, NEW i \in Instructions, NEW consts, \A c \in Constants : consts[c] = readEntry(i, c)
  PROVE  Propagated(i, consts) \in InstEntries \cup {NoEntry}
<1>1. \A e \in InstEntries \cup {NoEntry} : WithError(e) \in InstEntries
  BY DEF WithError, InstEntries, RangeTypes
<1>2. \A e \in Entries \cup {NoEntry} : WithError(e) \in InstEntries
  BY DEF WithError, InstEntries, Entries, RangeTypes
<1>3. retrieveRangeError(i) \in InstEntries \cup {NoEntry}
  BY InstEntryIs
<1>4. ASSUME Inst[i].op = "unary" PROVE PassedThrough(i, consts) \in InstEntries
  <2> DEFINE v == Inst[i].operands[1]
  <2>1. v \in Operands
    <3>1. Inst[i].operands \in Seq(Operands) /\ Inst[i].operands # <<>>
      BY <1>4, InstructionsAssumption
    <3> QED
      BY <3>1
  <2>2. CASE v \in Constants
    <3>1. consts[v] \in Entries \cup {NoEntry}
      BY <2>2, ReadEntryType
    <3> QED
      BY <1>1, <1>2, <1>3, <2>2, <3>1 DEF PassedThrough
  <2>3. CASE v \notin Constants
    <3>1. EntryOf(i, v) \in InstEntries \cup {NoEntry}
      BY <2>1, <2>3, InstEntryIs DEF Operands
    <3> QED
      BY <1>1, <1>3, <2>3, <3>1 DEF PassedThrough
  <2> QED
    BY <2>2, <2>3
<1> QED
  BY <1>1, <1>3, <1>4 DEF Propagated

LEMMA TypeStep == TypeOK /\ [Next]_vars => TypeOK'
<1> SUFFICES ASSUME TypeOK, [Next]_vars PROVE TypeOK'
  OBVIOUS
<1>1. CASE UNCHANGED vars
  BY <1>1 DEF TypeOK, vars, ConstantUses
<1>2. ASSUME NEW i \in Instructions, Evaluate(i) PROVE TypeOK'
  <2>1. /\ ~trapped /\ entries' = [c \in Constants |-> readEntry(i, c)]
        /\ done' = done \cup {i} /\ last' = i
        /\ read' = [k \in ReadUses(i) |-> entries'[Inst[i].operands[k]]]
        /\ trapped' = \E k \in ReadUses(i) : ~Fits(entries'[Inst[i].operands[k]])
        /\ insts' = [insts EXCEPT ![i] = Propagated(i, entries')]
    BY <1>2 DEF Evaluate
  <2>2. entries' \in [Constants -> Entries \cup {NoEntry}]
    BY <2>1, ReadEntryType
  <2>3. done' \subseteq Instructions /\ trapped' \in BOOLEAN
    BY <2>1 DEF TypeOK
  <2>7. insts' \in [Instructions -> InstEntries \cup {NoEntry}]
    <3>1. Propagated(i, entries') \in InstEntries \cup {NoEntry}
      BY <2>1, PropagatedType
    <3> QED
      BY <2>1, <3>1 DEF TypeOK
  <2>4. DOMAIN read' = ReadUses(i) /\ read' \in [ReadUses(i) -> Entries]
    <3>1. ASSUME NEW k \in ReadUses(i) PROVE entries'[Inst[i].operands[k]] \in Entries
      <4>1. Inst[i].operands[k] \in Constants /\ Uses(i, Inst[i].operands[k]) # {} /\ ReadsOperands(i)
        BY ConstantUsesAreUses, ReadUsesAreUses
      <4> QED
        BY <4>1, <2>1, ReadEntryType
    <3> QED
      BY <2>1, <3>1
  <2>5. ASSUME ~trapped', NEW c \in Constants, entries'[c] # NoEntry
        PROVE  entries'[c].exp <= entries'[c].width
    <3>1. CASE Uses(i, c) = {}
      <4>1. entries'[c] = entries[c]
        BY <2>1, <3>1, ReadEntryType
      <4> QED
        BY <2>1, <2>5, <4>1 DEF TypeOK
    <3>2. CASE Uses(i, c) # {} /\ ReadsOperands(i)
      <4>1. PICK k \in Uses(i, c) : TRUE
        BY <3>2
      <4>2. k \in ReadUses(i) /\ Inst[i].operands[k] = c
        BY <3>2, <4>1 DEF ReadUses, ConstantUses, Uses
      <4>3. Fits(entries'[c])
        BY <2>1, <2>5, <4>2
      <4> QED
        BY <4>3 DEF Fits, Consistent
    <3>3. CASE ~ReadsOperands(i)
      <4>1. entries'[c] = retrieveConstRanges(i, c)
        BY <2>1, <3>3 DEF readEntry, readOperand, ReadsOperands
      <4>2. CASE Told(i, c) = {}
        BY <2>1, <2>5, <4>1, <4>2, Retrieved DEF TypeOK
      <4>3. CASE Told(i, c) # {}
        <5>1. PICK m \in Told(i, c) : entries'[c] = Described(Inst[i].info[m])
          BY <4>1, <4>3, Retrieved
        <5>2. Inst[i].info[m] \in Infos
          BY InstFields DEF Told, Uses
        <5> QED
          BY <5>1, <5>2 DEF Described, Infos
      <4> QED
        BY <4>2, <4>3
    <3> QED
      BY <3>1, <3>2, <3>3
  <2>6. last' \in done' /\ DOMAIN read' \subseteq ConstantUses(last)'
    BY <2>1, <2>4 DEF ConstantUses, ReadUses
  <2> QED
    BY <2>2, <2>3, <2>4, <2>5, <2>6, <2>7 DEF TypeOK
<1> QED
  BY <1>1, <1>2 DEF Next

\* Every entry is one, and as long as no assertion failed the bits a range is stored
\* in hold its fractional bits; an instruction finds an entry for every constant it reads.
THEOREM TypeCorrect == Spec => []TypeOK
<1>1. Init => TypeOK
  BY DEF Init, TypeOK
<1> QED
  BY <1>1, TypeStep, PTL DEF Spec
=============================================================================
