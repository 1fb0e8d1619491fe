-------------------------- MODULE MCCommentsScreen --------------------------
(* Two posts: enough for a subscription to outlive its screen.             *)
EXTENDS CommentsScreen

CONSTANTS a, b
=============================================================================
