------------------------------ MODULE MC_Queue ------------------------------
(* Instance of QueueManager for TLC: four torrents for at most two slots.  Nothing
   tells one torrent from another, so they are interchangeable. *)
EXTENDS QueueManager, TLC

Interchangeable == Permutations(Torrent)
=============================================================================
