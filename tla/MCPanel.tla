------------------------------ MODULE MCPanel ------------------------------
(* One history file, the invocations and the prunes of it, and the row of   *)
(* its case. The settings: both on one backend, and one on each, with the    *)
(* tag and a record it declared.                                             *)
EXTENDS Panel, TLC

CONSTANTS i1, i2

Outcomes(b1, o1, b2, o2) ==
  (i1 :> [backend |-> b1, outcome |-> o1]) @@
  (i2 :> [backend |-> b2, outcome |-> o2])

TwoSettings ==
  {[tagged |-> FALSE, of |-> Outcomes(Docker, "pass", Docker, "fail")],
   [tagged |-> TRUE, of |-> Outcomes(Docker, "fail", CoWork, "declared")]}
=============================================================================
