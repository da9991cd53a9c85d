---------------------------- MODULE MC_EngineQueue ----------------------------
(* Instance of EngineQueue for TLC: two torrents for one slot. *)
EXTENDS EngineQueue
=============================================================================
