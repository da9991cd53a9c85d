------------------------------ MODULE MC_Fleet ------------------------------
(* Instances of Fleet for TLC. *)
EXTENDS Fleet
=============================================================================
