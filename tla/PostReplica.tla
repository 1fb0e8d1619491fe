----------------------------- MODULE PostReplica -----------------------------
(***************************************************************************)
(* What the local cache promises about the posts of the database, and      *)
(* nothing about how: for each post the cache is at some version the       *)
(* database once held, it only moves to later ones, and the posts it shows *)
(* are exactly those that were alive at the version it is at.              *)
(***************************************************************************)
EXTENDS Integers

CONSTANT PostIds

VARIABLES
  truth,    \* the version of each post in the database, 0 before creation
  diedAt,   \* the version that marked it deleted, 0 while it is alive
  copy,     \* the version the cache last took in, 0 if none
  shown     \* the posts with a row in the cache

vars == <<truth, diedAt, copy, shown>>

Alive(p, v, died) == v > 0 /\ (died[p] = 0 \/ v < died[p])

Init ==
  /\ truth = [p \in PostIds |-> 0]
  /\ diedAt = [p \in PostIds |-> 0]
  /\ copy = [p \in PostIds |-> 0]
  /\ shown = {}

(* Somebody changes a post; deletion is a change that is never undone.     *)
Publish(p) ==
  /\ truth' = [truth EXCEPT ![p] = @ + 1]
  /\ \/ diedAt' = diedAt
     \/ diedAt[p] = 0 /\ diedAt' = [diedAt EXCEPT ![p] = truth[p] + 1]
  /\ UNCHANGED <<copy, shown>>

(* The cache takes in later versions of some posts, never earlier ones.    *)
Advance ==
  /\ copy' \in [PostIds -> Nat]
  /\ \A p \in PostIds : copy[p] <= copy'[p] /\ copy'[p] <= truth[p]
  /\ shown' = {p \in PostIds : Alive(p, copy'[p], diedAt)}
  /\ UNCHANGED <<truth, diedAt>>

Next == Advance \/ \E p \in PostIds : Publish(p)

Spec == Init /\ [][Next]_vars
=============================================================================
