------------------------------ MODULE MCLevelDB ------------------------------
(* Two threads, memtables of one entry, every trigger as low as it goes.     *)
EXTENDS LevelDB
==============================================================================
