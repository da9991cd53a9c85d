------------------------------ MODULE MC_State ------------------------------
(* Instances of StateManager for TLC.  The two savers are alike. *)
EXTENDS StateManager, TLC

Alike == Permutations(Saver)
=============================================================================
