---------------------------- MODULE TargetErrors ----------------------------
(***************************************************************************)
(* What the pass promises about targets (README.md, "mark some             *)
(* instructions or global variables as targets: TAFFO-EP will keep track   *)
(* of their relative errors, and display it at the end of the pass"): for  *)
(* each label one error, which is only ever raised while the analysis runs *)
(* and which is displayed once, at the end.  FunctionErrorPropagator keeps *)
(* one copy of this table per activation and copies and merges them; it    *)
(* must not be possible to tell.                                           *)
(***************************************************************************)
EXTENDS Naturals

CONSTANTS Labels,    \* target names found in the metadata
          NotShown   \* the report before the pass has printed it: not in [Labels -> Nat]

VARIABLES best,      \* the largest error met so far, by label
          shown      \* what printTargetErrors displayed

Init == /\ best = [l \in Labels |-> 0]
        /\ shown = NotShown

\* Some values labelled as targets received an error.
Raise == /\ shown = NotShown
         /\ best' \in [Labels -> Nat]
         /\ \A l \in Labels : best'[l] >= best[l]
         /\ UNCHANGED shown

\* The final report.
Show == /\ shown = NotShown
        /\ shown' = best
        /\ UNCHANGED best

Next == Raise \/ Show

Spec == Init /\ [][Next]_<<best, shown>>
=============================================================================
