-------------------------- MODULE MCLevelCompaction --------------------------
EXTENDS LevelCompaction

(* CompactRange is called for all keys. *)
AllKeys == {<<1, LastKey>>}
==============================================================================
