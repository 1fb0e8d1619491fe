---------------------------- MODULE MCPostEditor ----------------------------
(* Two devices of one user, two posts.                                     *)
EXTENDS PostEditor, TLC

CONSTANTS p, q, d1, d2

Symmetry == Permutations({p, q}) \cup Permutations({d1, d2})
=============================================================================
