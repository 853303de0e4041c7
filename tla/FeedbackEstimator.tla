-------------------------- MODULE FeedbackEstimator --------------------------
(***************************************************************************)
(* taffo-fe.py: the tool that a compilation loop calls after each          *)
(* compilation, with the verdict pe of the performance estimator and the   *)
(* error ep of the error propagator, to learn with which options of the    *)
(* data type allocator to compile next, or to stop.  Every call is a       *)
(* process of its own; what it knows of the earlier ones is in a file,     *)
(* which it rewrites in place.                                             *)
(*                                                                         *)
(* One step is one access to the file, the printing, or one turn of the    *)
(* search loop; the process may die between any two of them.               *)
(***************************************************************************)
EXTENDS Integers, Sequences, FiniteSets

CONSTANTS NBits,        \* allowed_n_bits()
          MergeDists,   \* allowed_max_merge_dist()
          InitialBits, InitialDist,   \* a new state's option
          MaxErr,       \* a new state's max_err
          Errors,       \* the errors that are told apart
          NaN,          \* the error that is no number
          Torn,         \* a state file that cannot be unpickled, or none at all
          ProbeLimit,   \* bound on the turns of one search
          KillLimit     \* bound on the processes killed since the last --init

Elements(s) == {s[k] : k \in DOMAIN s}
Distinct(s) == \A j, k \in DOMAIN s : s[j] = s[k] => j = k
Combinations == Elements(NBits) \X Elements(MergeDists)

\* Of the chain of previous states only the combinations are kept: error_prop
\* and perf_est are written and never read.
States == [n_bits : Elements(NBits), max_merge_dist : Elements(MergeDists),
           previous : SUBSET Combinations, stop : BOOLEAN]

ASSUME OptionsAssumption ==
  /\ NBits \in Seq(Nat) /\ Distinct(NBits) /\ InitialBits \in Elements(NBits)
  /\ MergeDists \in Seq(Nat) /\ Distinct(MergeDists) /\ InitialDist \in Elements(MergeDists)
  /\ Errors \subseteq Nat /\ MaxErr \in Errors /\ NaN \notin Errors
  /\ Torn \notin States
  /\ ProbeLimit \in Nat /\ KillLimit \in Nat

VARIABLES file,      \* the state file
          at,        \* what the process does next, "gone" when there is none
          self,      \* its FeedbackEstimatorState
          search,    \* the locals of set_next_untried_combination_with_direction
          printed,   \* history: the combinations printed since the last --init
          stopped,   \* history: whether STOP has been printed since then
          killed     \* history: the processes killed since then

vars == <<file, at, self, search, printed, stopped, killed>>

-----------------------------------------------------------------------------
(* FeedbackEstimatorState.                                                 *)

num_options == Len(NBits) * Len(MergeDists)
Index(s, x) == (CHOOSE k \in DOMAIN s : s[k] = x) - 1      \* list.index

\* Mutant: the two factors swapped.
swapped_option_num(st) ==
  Index(MergeDists, st.max_merge_dist) * Len(MergeDists) + Index(NBits, st.n_bits)

cur_option_num(st) ==
  Index(NBits, st.n_bits) * Len(MergeDists) + Index(MergeDists, st.max_merge_dist)

set_option_from_num(st, opt) ==
  [st EXCEPT !.max_merge_dist = MergeDists[(opt % Len(MergeDists)) + 1],
             !.n_bits = NBits[(opt \div Len(MergeDists)) + 1]]

combination(st) == <<st.n_bits, st.max_merge_dist>>

\* Mutant: only the combination that was measured last counts.
tried_last(st) == {combination(st)}

tried_combinations(st) == {combination(st)} \cup st.previous

\* Mutant: the way down first.
fosc_down(n) == IF n % 2 = 1 THEN -((n + 1) \div 2) ELSE n \div 2

\* The n-th offset the generator yields: 0, 1, -1, 2, -2, ...
fosc(n) == IF n % 2 = 1 THEN (n + 1) \div 2 ELSE -(n \div 2)

\* Comparisons with NaN are false; the threshold is the state's, a constant.
Within(ep) == ep # NaN /\ ep <= MaxErr
Beyond(ep) == ep # NaN /\ ep > MaxErr

\* The performance estimate is any number: 2 stands for the positive ones other
\* than 1, -2 for those that are neither positive nor 0 nor -1, and for NaN.
Estimates == {-2, -1, 0, 1, 2}

Direction(pe, ep) ==
  CASE Beyond(ep) /\ pe = 1 -> 1
    [] Beyond(ep) /\ pe \in {-1, 0} -> -1
    [] Within(ep) /\ pe = 0 -> -1
    [] Within(ep) /\ pe = -1 -> -Len(NBits)
    [] OTHER -> 0

\* Mutant: the search space is never exhausted.
EndlessStops(st, pe, ep) == Direction(pe, ep) = 0

\* Whether advance_state sets the flag: conditions fulfilled, search space
\* exhausted, or no direction to go.
Stops(st, pe, ep) ==
  \/ pe > 0 /\ Within(ep)
  \/ Cardinality(tried_combinations(st)) = num_options
  \/ Direction(pe, ep) = 0

NewState == [n_bits |-> InitialBits, max_merge_dist |-> InitialDist,
             previous |-> {}, stop |-> FALSE]
NoSearch == [opt |-> 0, direction |-> 0, n |-> 0]

\* Mutant: a call starts with the flag cleared.
AdvancedAfresh(st, pe, ep) ==
  [st EXCEPT !.previous = tried_combinations(st), !.stop = Stops(st, pe, ep)]

\* The state after advance_state, before the search: its copy is in the chain,
\* and the flag, once set, stays.
Advanced(st, pe, ep) ==
  [st EXCEPT !.previous = tried_combinations(st), !.stop = @ \/ Stops(st, pe, ep)]

-----------------------------------------------------------------------------
Init ==
  /\ file = Torn /\ at = "gone"
  /\ self = NewState /\ search = NoSearch
  /\ printed = {} /\ stopped = FALSE /\ killed = 0

\* taffo-fe --init
StartInit ==
  /\ at = "gone"
  /\ at' = "open" /\ self' = NewState
  /\ printed' = {} /\ stopped' = FALSE /\ killed' = 0
  /\ UNCHANGED <<file, search>>

\* taffo-fe with measurements: the state is loaded and advanced.  Without a
\* state that can be loaded the call fails and changes nothing.
StartEstimate(pe, ep) ==
  /\ at = "gone" /\ file # Torn
  /\ self' = Advanced(file, pe, ep)
  /\ at' = IF Stops(file, pe, ep) THEN "open" ELSE "search"
  /\ search' = [opt |-> cur_option_num(file), direction |-> Direction(pe, ep), n |-> 0]
  /\ UNCHANGED <<file, printed, stopped, killed>>

\* One turn of the search: an offset that leads outside the options is skipped.
Probe ==
  LET option == search.opt + search.direction + fosc(search.n)
  IN  /\ at = "search" /\ combination(self) \in self.previous
      /\ search.n < ProbeLimit
      /\ self' = IF option \in 0 .. num_options - 1 THEN set_option_from_num(self, option) ELSE self
      /\ search' = [search EXCEPT !.n = @ + 1]
      /\ UNCHANGED <<file, at, printed, stopped, killed>>

EndSearch ==
  /\ at = "search" /\ combination(self) \notin self.previous
  /\ at' = "open"
  /\ UNCHANGED <<file, self, search, printed, stopped, killed>>

\* open(..., 'wb') truncates the only copy of the state ...
Open ==
  /\ at = "open"
  /\ file' = Torn /\ at' = "dump"
  /\ UNCHANGED <<self, search, printed, stopped, killed>>

\* ... which is complete again when the file is closed.
Dump ==
  /\ at = "dump"
  /\ file' = self /\ at' = "print"
  /\ UNCHANGED <<self, search, printed, stopped, killed>>

\* print(state.dta_args())
Answer ==
  /\ at = "print"
  /\ printed' = IF self.stop THEN printed ELSE printed \cup {combination(self)}
  /\ stopped' = (stopped \/ self.stop)
  /\ at' = "gone" /\ self' = NewState /\ search' = NoSearch
  /\ UNCHANGED <<file, killed>>

\* The process is killed; the file stays as it is.
Crash ==
  /\ at # "gone" /\ killed < KillLimit
  /\ at' = "gone" /\ self' = NewState /\ search' = NoSearch
  /\ killed' = killed + 1
  /\ UNCHANGED <<file, printed, stopped>>

Run == Probe \/ EndSearch \/ Open \/ Dump \/ Answer

Next ==
  \/ StartInit \/ \E pe \in Estimates, ep \in Errors \cup {NaN} : StartEstimate(pe, ep)
  \/ Probe \/ EndSearch \/ Open \/ Dump \/ Answer \/ Crash

\* A process that is not killed runs to its end.  Nobody has to start one.
Spec == Init /\ [][Next]_vars /\ WF_vars(Run)

-----------------------------------------------------------------------------
(* Properties.                                                             *)

\* Every piece of state has its type; the search stays within the options.
TypeOK ==
  /\ file \in States \cup {Torn}
  /\ at \in {"gone", "search", "open", "dump", "print"}
  /\ self \in States
  /\ search \in [opt : 0 .. num_options - 1, direction : {0, 1, -1, -Len(NBits)},
                 n : 0 .. ProbeLimit]
  /\ printed \subseteq Combinations
  /\ stopped \in BOOLEAN
  /\ killed \in 0 .. KillLimit

\* A combination is printed for compilation at most once, although each call
\* is a process of its own and may be killed anywhere (tried_combinations).
NeverRepeats == at = "print" /\ ~self.stop => combination(self) \notin printed

\* The combination the search ends on is, of all untried options, the nearest
\* to the one the direction points at, the higher one if two are equally near.
Distance(opt) ==
  IF opt >= search.opt + search.direction THEN opt - search.opt - search.direction
  ELSE search.opt + search.direction - opt
NearestUntried ==
  at = "search" /\ combination(self) \notin self.previous =>
    \A opt \in 0 .. num_options - 1 :
      combination(set_option_from_num(self, opt)) \notin self.previous =>
        \/ Distance(cur_option_num(self)) < Distance(opt)
        \/ Distance(cur_option_num(self)) = Distance(opt) /\ cur_option_num(self) >= opt

\* After STOP no combination is printed before the next --init, whatever the
\* later calls measure.
StopIsFinal == [][stopped /\ stopped' => printed' = printed]_vars

\* The search loop ends (its generator does not).
SearchEnds == at = "search" ~> at # "search"

\* A compilation loop that goes on calling the tool, and does not start over,
\* is told to stop.
Converges ==
  []<><<Answer>>_vars /\ <>[][~StartInit]_vars => <>[]stopped
=============================================================================
