------------------------------ MODULE MC_Lease ------------------------------
(* Instance of LeaseClient for TLC.  The token needs no bound: with both keys
   living and dying together it never exceeds 1. *)
EXTENDS LeaseClient
=============================================================================
