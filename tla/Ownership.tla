----------------------------- MODULE Ownership -----------------------------
(***************************************************************************)
(* What the lease service promises, without Redis, keys or clocks: every   *)
(* transfer has at most one holder, a holder is installed only where there *)
(* was none, and a holder leaves only by the transfer becoming free.       *)
(*                                                                         *)
(* LeaseManager's class comment (leaseManager.js:8-9) states this promise; *)
(* module Lease is the Redis implementation and is shown to implement it.  *)
(***************************************************************************)

CONSTANTS Node,      \* worker nodes
          Transfer,  \* info hashes
          Nobody     \* "no holder"

VARIABLE holder      \* the node a transfer belongs to, or Nobody

Init == holder = [t \in Transfer |-> Nobody]

(* A free transfer is given to node n. *)
Grant(n, t) ==
  /\ holder[t] = Nobody
  /\ holder' = [holder EXCEPT ![t] = n]

(* The transfers in S become free, by release or because time passed. *)
Free(S) ==
  holder' = [t \in Transfer |-> IF t \in S THEN Nobody ELSE holder[t]]

Next ==
  \/ \E n \in Node, t \in Transfer : Grant(n, t)
  \/ \E S \in SUBSET Transfer : Free(S)

Spec == Init /\ [][Next]_holder
=============================================================================
