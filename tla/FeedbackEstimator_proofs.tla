----------------------- MODULE FeedbackEstimator_proofs -----------------------
(***************************************************************************)
(* Theorems about FeedbackEstimator, for all lists of widths and merge     *)
(* distances, all measurements and any number of killed processes.         *)
(***************************************************************************)
EXTENDS FeedbackEstimator, TLAPS

\* The position of an element of a list, counted from zero.
LEMMA IndexType ==
  ASSUME NEW s \in Seq(Nat), NEW x \in Elements(s)
  PROVE  Index(s, x) \in 0 .. Len(s) - 1
<1>1. \E k \in DOMAIN s : s[k] = x
  BY DEF Elements
<1> DEFINE k == CHOOSE k \in DOMAIN s : s[k] = x
<1>2. k \in DOMAIN s
  BY <1>1
<1> HIDE DEF k
<1>3. k \in 1 .. Len(s)
  BY <1>2
<1>4. Index(s, x) = k - 1
  BY DEF Index, k
<1> QED
  BY <1>3, <1>4

\* Rows and columns: the number of a cell is below the number of cells.
LEMMA CellNumber ==
  ASSUME NEW n \in Nat, NEW m \in Nat, NEW i \in 0 .. n - 1, NEW j \in 0 .. m - 1
  PROVE  i * m + j \in 0 .. n * m - 1
<1>1. i * m \in Nat /\ n * m \in Int
  OBVIOUS
<1>2. (i + 1) * m <= n * m
  <2>1. n - (i + 1) \in Nat
    OBVIOUS
  <2>2. (n - (i + 1)) * m \in Nat
    BY <2>1
  <2>3. n * m = (i + 1) * m + (n - (i + 1)) * m
    OBVIOUS
  <2> QED
    BY <2>2, <2>3
<1>3. (i + 1) * m = i * m + m
  OBVIOUS
<1> QED
  BY <1>1, <1>2, <1>3

\* The row and the column of a number.
LEMMA CellOf ==
  ASSUME NEW n \in Nat, NEW m \in Nat, NEW opt \in 0 .. n * m - 1
  PROVE  /\ (opt % m) + 1 \in 1 .. m
         /\ (opt \div m) + 1 \in 1 .. n
<1>1. m > 0
  <2>1. m = 0 => n * m = 0
    OBVIOUS
  <2> QED
    BY <2>1
<1> DEFINE q == opt \div m
           r == opt % m
<1>2. q \in Int /\ r \in 0 .. m - 1 /\ opt = m * q + r
  BY <1>1
<1> HIDE DEF q, r
<1>3. q >= 0
  <2> SUFFICES ASSUME q < 0 PROVE FALSE
    BY <1>2
  <2>1. (- 1 - q) * m >= 0
    <3>1. - 1 - q \in Nat
      BY <1>2
    <3> QED
      BY <3>1
  <2>2. (- 1 - q) * m = - m - m * q
    BY <1>2
  <2> QED
    BY <1>2, <2>1, <2>2
<1>4. q < n
  <2> SUFFICES ASSUME q >= n PROVE FALSE
    BY <1>2
  <2>1. (q - n) * m >= 0
    <3>1. q - n \in Nat
      BY <1>2
    <3> QED
      BY <3>1
  <2>2. (q - n) * m = m * q - n * m
    BY <1>2
  <2> QED
    BY <1>2, <2>1, <2>2
<1> QED
  BY <1>2, <1>3, <1>4 DEF q, r

\* The number of a state's option is one of the options'.
LEMMA OptionNumber ==
  ASSUME NEW st \in States
  PROVE  cur_option_num(st) \in 0 .. num_options - 1
<1>1. st.n_bits \in Elements(NBits) /\ st.max_merge_dist \in Elements(MergeDists)
  BY DEF States
<1>2. Index(NBits, st.n_bits) \in 0 .. Len(NBits) - 1
  BY <1>1, IndexType, OptionsAssumption
<1>3. Index(MergeDists, st.max_merge_dist) \in 0 .. Len(MergeDists) - 1
  BY <1>1, IndexType, OptionsAssumption
<1>4. Len(NBits) \in Nat /\ Len(MergeDists) \in Nat
  BY OptionsAssumption
<1> QED
  BY <1>2, <1>3, <1>4, CellNumber DEF cur_option_num, num_options

\* Setting an option by its number changes nothing else.
LEMMA SetOption ==
  ASSUME NEW st \in States, NEW opt \in 0 .. num_options - 1
  PROVE  /\ set_option_from_num(st, opt) \in States
         /\ set_option_from_num(st, opt).previous = st.previous
         /\ set_option_from_num(st, opt).stop = st.stop
<1>1. Len(NBits) \in Nat /\ Len(MergeDists) \in Nat
  BY OptionsAssumption
<1> DEFINE dist == MergeDists[(opt % Len(MergeDists)) + 1]
           bits == NBits[(opt \div Len(MergeDists)) + 1]
<1>2. /\ (opt % Len(MergeDists)) + 1 \in 1 .. Len(MergeDists)
      /\ (opt \div Len(MergeDists)) + 1 \in 1 .. Len(NBits)
  BY <1>1, CellOf DEF num_options
<1>3. dist \in Elements(MergeDists) /\ bits \in Elements(NBits)
  <2>1. DOMAIN MergeDists = 1 .. Len(MergeDists) /\ DOMAIN NBits = 1 .. Len(NBits)
    BY OptionsAssumption
  <2> DEFINE column == (opt % Len(MergeDists)) + 1
             row == (opt \div Len(MergeDists)) + 1
  <2>2. column \in DOMAIN MergeDists /\ row \in DOMAIN NBits
    BY <1>2, <2>1
  <2> HIDE DEF column, row
  <2>3. MergeDists[column] \in Elements(MergeDists) /\ NBits[row] \in Elements(NBits)
    BY <2>2 DEF Elements
  <2> QED
    BY <2>3 DEF column, row
<1>4. set_option_from_num(st, opt) = [st EXCEPT !.max_merge_dist = dist, !.n_bits = bits]
  BY DEF set_option_from_num
<1> HIDE DEF dist, bits
<1> QED
  BY <1>3, <1>4 DEF States

\* The state of a new loop, and one that was measured.
LEMMA NewStateType == NewState \in States /\ NewState.previous = {} /\ ~NewState.stop
BY OptionsAssumption DEF NewState, States

LEMMA CombinationType ==
  ASSUME NEW st \in States
  PROVE  combination(st) \in Combinations
BY DEF combination, Combinations, States

LEMMA AdvancedType ==
  ASSUME NEW st \in States, NEW pe, NEW ep
  PROVE  /\ Advanced(st, pe, ep) \in States
         /\ Advanced(st, pe, ep).previous = tried_combinations(st)
         /\ Advanced(st, pe, ep).stop = (st.stop \/ Stops(st, pe, ep))
         /\ combination(Advanced(st, pe, ep)) = combination(st)
<1>1. tried_combinations(st) \subseteq Combinations
  BY CombinationType DEF tried_combinations, States
<1>2. Stops(st, pe, ep) \in BOOLEAN
  BY DEF Stops, Within, Direction
<1> QED
  BY <1>1, <1>2 DEF Advanced, States, combination

-----------------------------------------------------------------------------
(* Type correctness.                                                       *)

\* A step keeps the types, action by action.
LEMMA TypeStep == TypeOK /\ [Next]_vars => TypeOK'
<1> SUFFICES ASSUME TypeOK, [Next]_vars PROVE TypeOK'
  OBVIOUS
<1>0. /\ Len(NBits) \in Nat /\ 0 \in 0 .. ProbeLimit
      /\ NewState \in States /\ 0 \in 0 .. KillLimit
      /\ NoSearch.direction = 0 /\ NoSearch.n = 0 /\ NoSearch.opt = 0
  BY OptionsAssumption, NewStateType DEF NoSearch
<1>1. NoSearch \in [opt : 0 .. num_options - 1, direction : {0, 1, -1, -Len(NBits)}, n : 0 .. ProbeLimit]
  <2>1. 0 <= num_options - 1
    <3>1. cur_option_num(NewState) \in 0 .. num_options - 1
      BY <1>0, OptionNumber
    <3>2. num_options \in Nat
      BY OptionsAssumption DEF num_options
    <3> QED
      BY <3>1, <3>2
  <2>2. num_options \in Nat
    BY OptionsAssumption DEF num_options
  <2> QED
    BY <1>0, <2>1, <2>2 DEF NoSearch
<1>2. CASE StartInit
  BY <1>0, <1>2 DEF StartInit, TypeOK
<1>3. ASSUME NEW pe \in Estimates, NEW ep \in Errors \cup {NaN}, StartEstimate(pe, ep) PROVE TypeOK'
  <2>1. file \in States
    BY <1>3 DEF StartEstimate, TypeOK
  <2>2. self' \in States
    BY <1>3, <2>1, AdvancedType DEF StartEstimate
  <2>3. Direction(pe, ep) \in {0, 1, -1, -Len(NBits)}
    BY DEF Direction
  <2>4. search' \in [opt : 0 .. num_options - 1, direction : {0, 1, -1, -Len(NBits)}, n : 0 .. ProbeLimit]
    BY <1>0, <1>3, <2>1, <2>3, OptionNumber DEF StartEstimate
  <2> QED
    BY <1>3, <2>2, <2>4 DEF StartEstimate, TypeOK
<1>4. CASE Probe
  <2> DEFINE option == search.opt + search.direction + fosc(search.n)
  <2>1. self' = IF option \in 0 .. num_options - 1 THEN set_option_from_num(self, option) ELSE self
    BY <1>4 DEF Probe
  <2> HIDE DEF option
  <2>2. self' \in States
    BY <2>1, SetOption DEF TypeOK
  <2>3. search.n + 1 \in 0 .. ProbeLimit
    BY <1>4, OptionsAssumption DEF Probe, TypeOK
  <2>4. search' \in [opt : 0 .. num_options - 1, direction : {0, 1, -1, -Len(NBits)}, n : 0 .. ProbeLimit]
    BY <1>4, <2>3 DEF Probe, TypeOK
  <2> QED
    BY <1>4, <2>2, <2>4 DEF Probe, TypeOK
<1>5. CASE EndSearch
  BY <1>5 DEF EndSearch, TypeOK
<1>6. CASE Open
  BY <1>6 DEF Open, TypeOK
<1>7. CASE Dump
  BY <1>7 DEF Dump, TypeOK
<1>8. CASE Answer
  <2>1. printed' \subseteq Combinations
    BY <1>8, CombinationType DEF Answer, TypeOK
  <2>2. stopped' \in BOOLEAN
    BY <1>8 DEF Answer, TypeOK, States
  <2> QED
    BY <1>0, <1>1, <1>8, <2>1, <2>2 DEF Answer, TypeOK
<1>9. CASE Crash
  <2>1. killed + 1 \in 0 .. KillLimit
    BY <1>9, OptionsAssumption DEF Crash, TypeOK
  <2> QED
    BY <1>0, <1>1, <1>9, <2>1 DEF Crash, TypeOK
<1>10. CASE UNCHANGED vars
  BY <1>10 DEF vars, TypeOK
<1> QED
  BY <1>2, <1>3, <1>4, <1>5, <1>6, <1>7, <1>8, <1>9, <1>10 DEF Next

LEMMA InitType == Init => TypeOK
<1> SUFFICES ASSUME Init PROVE TypeOK
  OBVIOUS
<1>1. NewState \in States
  BY NewStateType
<1>2. cur_option_num(NewState) \in 0 .. num_options - 1 /\ num_options \in Nat
  BY <1>1, OptionNumber, OptionsAssumption DEF num_options
<1>3. NoSearch \in [opt : 0 .. num_options - 1, direction : {0, 1, -1, -Len(NBits)}, n : 0 .. ProbeLimit]
  BY <1>2, OptionsAssumption DEF NoSearch
<1> QED
  <2>1. 0 \in 0 .. KillLimit
    BY OptionsAssumption
  <2> QED
    BY <1>1, <1>3, <2>1 DEF Init, TypeOK

\* Every piece of state has its type, and the search never leaves the options,
\* however the offsets lead it about (TypeOK).
THEOREM TypeCorrect == Spec => []TypeOK
BY InitType, TypeStep, PTL DEF Spec

-----------------------------------------------------------------------------
(* Combinations are not proposed twice, and STOP is final.                 *)

\* What the process and the file know of what was printed.  A process that is
\* not about to stop has, once its search is over, a combination that is new.
Remembered ==
  /\ file # Torn => printed \subseteq tried_combinations(file)
  /\ at # "gone" => printed \subseteq self.previous
  /\ at \in {"open", "dump", "print"} /\ ~self.stop => combination(self) \notin self.previous
  /\ at = "print" => file = self

\* Once STOP was printed, whatever is loaded or saved has the flag set.
StopKept ==
  stopped => /\ file # Torn => file.stop
             /\ at # "gone" => self.stop

LEMMA MemoryStep ==
  ASSUME TypeOK, TypeOK', Remembered, StopKept, [Next]_vars
  PROVE  Remembered' /\ StopKept'
<1>1. CASE StartInit
  BY <1>1, NewStateType DEF StartInit, Remembered, StopKept
<1>2. ASSUME NEW pe \in Estimates, NEW ep \in Errors \cup {NaN}, StartEstimate(pe, ep)
      PROVE  Remembered' /\ StopKept'
  <2>1. file \in States /\ file # Torn
    BY <1>2 DEF StartEstimate, TypeOK
  <2>2. /\ self'.previous = tried_combinations(file)
        /\ self'.stop = (file.stop \/ Stops(file, pe, ep))
    BY <1>2, <2>1, AdvancedType DEF StartEstimate
  <2> QED
    BY <1>2, <2>1, <2>2 DEF StartEstimate, Remembered, StopKept, tried_combinations, combination
<1>3. CASE Probe
  <2> DEFINE option == search.opt + search.direction + fosc(search.n)
  <2>1. self' = IF option \in 0 .. num_options - 1 THEN set_option_from_num(self, option) ELSE self
    BY <1>3 DEF Probe
  <2> HIDE DEF option
  <2>2. self'.previous = self.previous /\ self'.stop = self.stop
    BY <2>1, SetOption DEF TypeOK
  <2> QED
    BY <1>3, <2>2 DEF Probe, Remembered, StopKept, tried_combinations, combination
<1>4. CASE EndSearch
  BY <1>4 DEF EndSearch, Remembered, StopKept, tried_combinations, combination
<1>5. CASE Open
  BY <1>5 DEF Open, Remembered, StopKept, tried_combinations, combination
<1>6. CASE Dump
  BY <1>6 DEF Dump, Remembered, StopKept, tried_combinations, combination
<1>7. CASE Answer
  BY <1>7 DEF Answer, Remembered, StopKept, tried_combinations, combination
<1>8. CASE Crash
  BY <1>8 DEF Crash, Remembered, StopKept, tried_combinations, combination
<1>9. CASE UNCHANGED vars
  BY <1>9 DEF vars, Remembered, StopKept, tried_combinations, combination
<1> QED
  BY <1>1, <1>2, <1>3, <1>4, <1>5, <1>6, <1>7, <1>8, <1>9 DEF Next

LEMMA MemoryInvariant == Spec => [](TypeOK /\ Remembered /\ StopKept)
<1>1. Init => Remembered /\ StopKept
  BY DEF Init, Remembered, StopKept
<1>2. Spec => []TypeOK
  BY TypeCorrect
<1>3. TypeOK /\ TypeOK' /\ Remembered /\ StopKept /\ [Next]_vars => Remembered' /\ StopKept'
  BY MemoryStep
<1> QED
  BY <1>1, <1>2, <1>3, PTL DEF Spec

\* No combination is printed twice between two --init, wherever processes are
\* killed: a torn file keeps later calls from going on (NeverRepeats).
THEOREM NothingTwice == Spec => []NeverRepeats
<1>1. Remembered => NeverRepeats
  BY DEF Remembered, NeverRepeats
<1> QED
  BY <1>1, MemoryInvariant, PTL

\* After STOP nothing is printed but STOP until the next --init (StopIsFinal).
THEOREM StopStays == Spec => StopIsFinal
<1>1. TypeOK /\ StopKept /\ [Next]_vars => [stopped /\ stopped' => printed' = printed]_vars
  <2> SUFFICES ASSUME TypeOK, StopKept, [Next]_vars, stopped, stopped' PROVE printed' = printed
    OBVIOUS
  <2>1. CASE StartInit
    BY <2>1 DEF StartInit
  <2>2. CASE Answer
    BY <2>2 DEF Answer, StopKept
  <2>3. CASE \/ \E pe \in Estimates, ep \in Errors \cup {NaN} : StartEstimate(pe, ep)
             \/ Probe \/ EndSearch \/ Open \/ Dump \/ Crash \/ UNCHANGED vars
    BY <2>3 DEF StartEstimate, Probe, EndSearch, Open, Dump, Crash, vars
  <2> QED
    BY <2>1, <2>2, <2>3 DEF Next
<1> QED
  BY <1>1, MemoryInvariant, PTL DEF Spec, StopIsFinal

-----------------------------------------------------------------------------
(* The search ends on the nearest untried option.                          *)

Options == 0 .. num_options - 1

\* The combination of an option, whatever the state it is set in.
Option(o) == <<NBits[(o \div Len(MergeDists)) + 1], MergeDists[(o % Len(MergeDists)) + 1]>>

\* The option the n-th turn of a search looks at.
Target(n) == search.opt + search.direction + fosc(n)

TriedBefore(n) == \A m \in 0 .. n - 1 : Target(m) \in Options => Option(Target(m)) \in self.previous

\* A search has found all the options it looked at tried, or is at the first that was not.
Searching ==
  at = "search" =>
    \/ combination(self) \in self.previous /\ TriedBefore(search.n)
    \/ /\ combination(self) \notin self.previous
       /\ \E n \in Nat : cur_option_num(self) = Target(n) /\ TriedBefore(n)

\* An element of a list without repetitions has one position.
LEMMA IndexOf ==
  ASSUME NEW s \in Seq(Nat), Distinct(s), NEW k \in 1 .. Len(s)
  PROVE  Index(s, s[k]) = k - 1
<1> DEFINE j == CHOOSE j \in DOMAIN s : s[j] = s[k]
<1>1. k \in DOMAIN s
  OBVIOUS
<1>2. j \in DOMAIN s /\ s[j] = s[k]
  BY <1>1
<1>3. Index(s, s[k]) = j - 1
  BY DEF Index
<1> HIDE DEF j
<1> QED
  BY <1>1, <1>2, <1>3 DEF Distinct

\* A number is its quotient times the divisor and its rest.
LEMMA QuotientAndRest ==
  ASSUME NEW m \in Nat \ {0}, NEW o \in Nat
  PROVE  (o \div m) * m + (o % m) = o
<1> DEFINE q == o \div m
           r == o % m
<1>1. q \in Int /\ r \in Int /\ o = m * q + r
  OBVIOUS
<1> HIDE DEF q, r
<1>2. m * q = q * m
  BY <1>1
<1> QED
  BY <1>1, <1>2 DEF q, r

\* A state set to an option has that option's combination and number.
LEMMA OptionOf ==
  ASSUME NEW st \in States, NEW o \in Options
  PROVE  /\ combination(set_option_from_num(st, o)) = Option(o)
         /\ cur_option_num(set_option_from_num(st, o)) = o
<1> DEFINE M == Len(MergeDists)
           N == Len(NBits)
           column == (o % M) + 1
           row == (o \div M) + 1
           new == set_option_from_num(st, o)
<1>1. /\ M \in Nat /\ N \in Nat /\ NBits \in Seq(Nat) /\ Distinct(NBits)
      /\ MergeDists \in Seq(Nat) /\ Distinct(MergeDists)
  BY OptionsAssumption
<1>2. o \in 0 .. N * M - 1
  BY DEF Options, num_options
<1>3. column \in 1 .. M /\ row \in 1 .. N
  BY <1>1, <1>2, CellOf
<1>4. M # 0 /\ o \in Nat
  BY <1>1, <1>2, <1>3
<1>5. (o \div M) * M + (o % M) = o
  BY <1>1, <1>4, QuotientAndRest
<1>6. o \div M \in Int /\ o % M \in Int
  BY <1>1, <1>4
<1>7. new = [st EXCEPT !.max_merge_dist = MergeDists[column], !.n_bits = NBits[row]]
  BY DEF set_option_from_num
<1>8. Option(o) = <<NBits[row], MergeDists[column]>>
  BY DEF Option
<1> HIDE DEF M, N, column, row, new
<1>9. new.max_merge_dist = MergeDists[column] /\ new.n_bits = NBits[row]
  BY <1>7 DEF States
<1>10. Index(NBits, NBits[row]) = row - 1 /\ Index(MergeDists, MergeDists[column]) = column - 1
  BY <1>1, <1>3, IndexOf DEF M, N
<1>11. cur_option_num(new) = (row - 1) * M + (column - 1)
  BY <1>9, <1>10 DEF cur_option_num, M
<1>12. row - 1 = o \div M /\ column - 1 = o % M
  BY <1>6 DEF row, column
<1> QED
  BY <1>5, <1>8, <1>9, <1>11, <1>12 DEF combination, new

\* The offsets are integers, each is reached, and they lead away from zero, up before down.
LEMMA OffsetIs ==
  ASSUME NEW n \in Nat
  PROVE  \E k \in Nat : \/ n = 2 * k /\ fosc(n) = -k
                        \/ n + 1 = 2 * k /\ fosc(n) = k /\ k > 0
<1>1. CASE n % 2 = 1
  <2>1. (n + 1) \div 2 \in Nat /\ n + 1 = 2 * ((n + 1) \div 2) /\ (n + 1) \div 2 > 0
    BY <1>1
  <2>2. fosc(n) = (n + 1) \div 2
    BY <1>1 DEF fosc
  <2> QED
    BY <2>1, <2>2
<1>2. CASE n % 2 # 1
  <2>1. n \div 2 \in Nat /\ n = 2 * (n \div 2)
    BY <1>2
  <2>2. fosc(n) = -(n \div 2)
    BY <1>2 DEF fosc
  <2> QED
    BY <2>1, <2>2
<1> QED
  BY <1>1, <1>2

LEMMA EveryOffset ==
  ASSUME NEW d \in Int
  PROVE  \E n \in Nat : fosc(n) = d
<1>1. CASE d > 0
  <2>1. 2 * d - 1 \in Nat
    BY <1>1
  <2>2. PICK k \in Nat : \/ 2 * d - 1 = 2 * k /\ fosc(2 * d - 1) = -k
                         \/ (2 * d - 1) + 1 = 2 * k /\ fosc(2 * d - 1) = k /\ k > 0
    BY <2>1, OffsetIs
  <2> QED
    BY <2>1, <2>2
<1>2. CASE d <= 0
  <2>1. 2 * (-d) \in Nat
    BY <1>2
  <2>2. PICK k \in Nat : \/ 2 * (-d) = 2 * k /\ fosc(2 * (-d)) = -k
                         \/ 2 * (-d) + 1 = 2 * k /\ fosc(2 * (-d)) = k /\ k > 0
    BY <2>1, OffsetIs
  <2> QED
    BY <2>1, <2>2
<1> QED
  BY <1>1, <1>2

Size(d) == IF d >= 0 THEN d ELSE -d

LEMMA OffsetsLeadAway ==
  ASSUME NEW n \in Nat, NEW m \in Nat, n <= m
  PROVE  /\ fosc(n) \in Int /\ fosc(m) \in Int
         /\ Size(fosc(n)) < Size(fosc(m)) \/ (Size(fosc(n)) = Size(fosc(m)) /\ fosc(n) >= fosc(m))
<1>1. PICK k \in Nat : \/ n = 2 * k /\ fosc(n) = -k
                       \/ n + 1 = 2 * k /\ fosc(n) = k /\ k > 0
  BY OffsetIs
<1>2. PICK l \in Nat : \/ m = 2 * l /\ fosc(m) = -l
                       \/ m + 1 = 2 * l /\ fosc(m) = l /\ l > 0
  BY OffsetIs
<1> QED
  BY <1>1, <1>2 DEF Size

LEMMA SearchStep ==
  ASSUME TypeOK, Searching, [Next]_vars
  PROVE  Searching'
<1>1. CASE StartInit
  BY <1>1 DEF StartInit, Searching
<1>2. ASSUME NEW pe \in Estimates, NEW ep \in Errors \cup {NaN}, StartEstimate(pe, ep)
      PROVE  Searching'
  <2>1. file \in States /\ self' = Advanced(file, pe, ep) /\ search'.n = 0
    BY <1>2 DEF StartEstimate, TypeOK
  <2>2. self'.previous = tried_combinations(file) /\ combination(self)' = combination(file)
    BY <2>1, AdvancedType DEF combination
  <2>3. combination(self)' \in self'.previous
    BY <2>2 DEF tried_combinations
  <2>4. 0 .. search'.n - 1 = {}
    BY <2>1
  <2> QED
    BY <2>3, <2>4 DEF Searching, TriedBefore
<1>3. CASE Probe
  <2>1. PICK n \in Nat : n = search.n
    BY OptionsAssumption DEF TypeOK
  <2> DEFINE o == Target(n)
  <2>2. /\ at = "search" /\ combination(self) \in self.previous /\ TriedBefore(n) /\ self \in States
        /\ self' = (IF o \in Options THEN set_option_from_num(self, o) ELSE self)
        /\ search'.opt = search.opt /\ search'.direction = search.direction /\ search'.n = n + 1
    BY <1>3, <2>1 DEF Probe, Searching, Target, Options, TypeOK
  <2>3. \A m : Target(m)' = Target(m)
    BY <2>2 DEF Target
  <2>4. self'.previous = self.previous
    BY <2>2, SetOption DEF Options
  <2>5. \A m \in 0 .. (n + 1) - 1 : m \in 0 .. n - 1 \/ m = n
    OBVIOUS
  <2>6. \A k \in Nat : TriedBefore(k)' <=> TriedBefore(k)
    BY <2>3, <2>4 DEF TriedBefore, Options, num_options, Option
  <2>7. CASE o \in Options /\ Option(o) \notin self.previous
    <3>1. combination(self') = Option(o) /\ cur_option_num(self') = o
      BY <2>2, <2>7, OptionOf
    <3>2. combination(self)' \notin self'.previous
      BY <3>1, <2>4, <2>7 DEF combination
    <3>3. cur_option_num(self)' = Target(n)'
      BY <3>1, <2>3 DEF cur_option_num
    <3>4. TriedBefore(n)'
      BY <2>2, <2>6
    <3> QED
      BY <3>2, <3>3, <3>4 DEF Searching
  <2>8. CASE ~ (o \in Options /\ Option(o) \notin self.previous)
    <3>1. combination(self)' \in self'.previous
      <4>1. combination(self') \in self.previous
        BY <2>2, <2>8, OptionOf
      <4> QED
        BY <4>1, <2>4 DEF combination
    <3>2. TriedBefore(n + 1)
      BY <2>2, <2>5, <2>8 DEF TriedBefore
    <3>3. TriedBefore(n + 1)'
      BY <2>6, <3>2
    <3>4. TriedBefore(search.n)'
      BY <3>3, <2>2 DEF TriedBefore
    <3> QED
      BY <3>1, <3>4 DEF Searching
  <2> QED
    BY <2>7, <2>8
<1>4. CASE EndSearch \/ Open \/ Dump \/ Answer \/ Crash
  BY <1>4 DEF EndSearch, Open, Dump, Answer, Crash, Searching
<1>5. CASE UNCHANGED vars
  BY <1>5 DEF vars, Searching, TriedBefore, Target, combination, cur_option_num
<1> QED
  BY <1>1, <1>2, <1>3, <1>4, <1>5 DEF Next

LEMMA SearchingMeansNearest == TypeOK /\ Searching => NearestUntried
<1> SUFFICES ASSUME TypeOK, Searching, at = "search", combination(self) \notin self.previous,
                    NEW o \in Options, combination(set_option_from_num(self, o)) \notin self.previous
             PROVE  \/ Distance(cur_option_num(self)) < Distance(o)
                    \/ Distance(cur_option_num(self)) = Distance(o) /\ cur_option_num(self) >= o
  BY DEF NearestUntried, Options
<1> DEFINE t == search.opt + search.direction
<1>1. t \in Int /\ self \in States /\ o \in Int
  <2>1. Len(NBits) \in Nat /\ num_options \in Nat
    BY OptionsAssumption DEF num_options
  <2>2. search.opt \in Int /\ search.direction \in Int
    BY <2>1 DEF TypeOK
  <2> QED
    BY <2>1, <2>2 DEF TypeOK, Options
<1>2. PICK n \in Nat : cur_option_num(self) = Target(n) /\ TriedBefore(n)
  BY DEF Searching
<1>3. PICK m \in Nat : fosc(m) = o - t
  BY <1>1, EveryOffset
<1>4. Target(n) = t + fosc(n) /\ Target(m) = t + fosc(m)
  BY DEF Target
<1>5. Target(m) = o
  BY <1>1, <1>3, <1>4
<1>6. ~ (m < n)
  <2>1. Option(o) \notin self.previous
    BY <1>1, OptionOf
  <2> QED
    BY <2>1, <1>5, <1>2 DEF TriedBefore
<1>7. /\ fosc(n) \in Int /\ fosc(m) \in Int
      /\ Size(fosc(n)) < Size(fosc(m)) \/ (Size(fosc(n)) = Size(fosc(m)) /\ fosc(n) >= fosc(m))
  BY <1>2, <1>3, <1>6, OffsetsLeadAway
<1>8. \A d \in Int : Distance(t + d) = Size(d)
  <2>1. search.opt \in Int /\ search.direction \in Int
    <3>1. Len(NBits) \in Nat /\ num_options \in Nat
      BY OptionsAssumption DEF num_options
    <3> QED
      BY <3>1 DEF TypeOK
  <2> QED
    BY <2>1 DEF Distance, Size
<1>9. Distance(cur_option_num(self)) = Size(fosc(n)) /\ Distance(o) = Size(fosc(m))
  BY <1>2, <1>4, <1>5, <1>7, <1>8
<1> HIDE DEF t
<1> QED
  BY <1>1, <1>2, <1>4, <1>5, <1>7, <1>9

\* The combination a search ends on is the untried one nearest to the option the
\* direction points at, the higher one of two (NearestUntried).
THEOREM SearchFindsNearest == Spec => []NearestUntried
<1>1. Init => Searching
  BY DEF Init, Searching
<1> QED
  BY <1>1, TypeCorrect, SearchStep, SearchingMeansNearest, PTL DEF Spec
=============================================================================
