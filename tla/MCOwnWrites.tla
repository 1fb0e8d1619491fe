---------------------------- MODULE MCOwnWrites -----------------------------
(* Small instances of OwnWrites: a post to like and another beside it.     *)
(* Two instances in one run: stamps one apart and estimates that differ    *)
(* from tap to tap, where the cache may miss things; or stamps two apart,  *)
(* a steady offset and no stops, where the button settles.                 *)
EXTENDS OwnWrites

CONSTANTS p1, p2

VARIABLE steady

(* Estimates at the server's clock, one or two ahead of it.                *)
AnySkew == {0, 2}

Steady == INSTANCE OwnWrites WITH Deltas <- {2}, Skews <- {-1}, MaxStops <- 0

MCInit == Init /\ steady \in BOOLEAN

MCNext ==
  /\ IF steady THEN Steady!Next ELSE Next
  /\ UNCHANGED steady

MCSpec == MCInit /\ [][MCNext]_<<vars, steady>> /\ (steady => Steady!Fairness)

(* The like button settles in the steady instance.                         *)
SteadyButtonSettles == steady => ButtonSettles
=============================================================================
