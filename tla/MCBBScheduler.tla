--------------------------- MODULE MCBBScheduler ---------------------------
\* All graphs of five blocks in which e is the entry of what follows and may
\* branch, x returns and the three others have up to two successors.
EXTENDS BBScheduler, TLC

CONSTANTS e, h, m, l, x

MCBlocks == {e, h, m, l, x}
Successors == {<<>>} \cup {<<c>> : c \in {h, m, l, x}}
                \cup {p \in {h, m, l, x} \X {h, m, l, x} : p[1] # p[2]}
MCGraphs ==
  {e :> se @@ h :> sh @@ m :> sm @@ l :> sl @@ x :> <<>> :
     se \in {<<h>>, <<m, h>>}, sh \in Successors, sm \in Successors, sl \in Successors}
=============================================================================
