----------------------------- MODULE MCFeedSync -----------------------------
(* Small instances of FeedSync: one post of the user's own, one of another *)
(* user's.                                                                 *)
EXTENDS FeedSync

CONSTANTS mine, other
=============================================================================
