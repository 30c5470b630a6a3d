------------------------------ MODULE MCDecide ------------------------------
EXTENDS Decide

Plain ==
  [phase |-> 1, target |-> 1, reverse |-> FALSE, score |-> TRUE, stabilize |-> FALSE,
   stabilizeonly |-> FALSE, forcephase |-> FALSE, walk |-> FALSE, walknonstable |-> FALSE,
   shufflerandom |-> FALSE, restartreusetrail |-> TRUE, rephase |-> FALSE, compact |-> FALSE,
   conflicts |-> 1]

Stable == [Plain EXCEPT !.stabilize = TRUE, !.stabilizeonly = TRUE]

\* The queue or the scores, with either compaction or rephasing; and both modes.
MCOptions == {
  [Plain EXCEPT !.compact = TRUE],
  [Plain EXCEPT !.compact = TRUE, !.reverse = TRUE, !.phase = -1, !.target = 2],
  [Plain EXCEPT !.rephase = TRUE, !.walk = TRUE, !.shufflerandom = TRUE],
  [Stable EXCEPT !.compact = TRUE],
  [Stable EXCEPT !.rephase = TRUE, !.conflicts = 2],
  [Plain EXCEPT !.stabilize = TRUE, !.restartreusetrail = FALSE]}

MCForcible == {-1}

MCImplied == {-3}

MCEliminable == {1, 4}
=============================================================================
