---------------------------- MODULE LeaseClient ----------------------------
(***************************************************************************)
(* The keys of module Lease together with what Redis' answers told each    *)
(* node.  credit is the time for which a node's last positive answer still *)
(* covers it (counted from the execution of the script, so an upper bound  *)
(* of what the node itself can know); held is the last token it was given, *)
(* the one it would pass to validateToken.  caller is the node that made   *)
(* the last call, NoOwner when the last step was the passing of time.      *)
(***************************************************************************)
EXTENDS Lease

VARIABLES credit, held, caller

answers == <<credit, held>>
clientVars == <<keys, answers, caller>>

ClientInit ==
  /\ LeaseInit
  /\ credit = [n \in Node |-> [t \in Transfer |-> 0]]
  /\ held = [n \in Node |-> [t \in Transfer |-> 0]]
  /\ caller = NoOwner

(* The reply to node n: a token for the transfers in granted, null for those
   in denied. *)
Reply(n, granted, denied) ==
  /\ credit' = [credit EXCEPT ![n] = [t \in Transfer |->
                  IF t \in granted THEN TTL ELSE IF t \in denied THEN 0 ELSE @[t]]]
  /\ held' = [held EXCEPT ![n] = [t \in Transfer |->
                  IF t \in granted THEN token'[t] ELSE @[t]]]

(* acquireLease, with its answer, or with an exception in its place: the answer
   of a script that ran was lost. *)
AcquireLease(n, t) ==
  /\ caller' = n
  /\ \/ Acquired(n, t) /\ Reply(n, {t}, {})
     \/ AcquireDenied(n, t) /\ Reply(n, {}, {t})
     \/ Acquired(n, t) /\ UNCHANGED answers

(* renewLeasesBulk, with its answers. *)
RenewLeases(n, S) ==
  /\ caller' = n
  /\ \E failed \in SUBSET S : \E ran \in SUBSET failed :
       /\ RenewLeasesBulk(n, S, failed, ran)
       /\ Reply(n, Renewed(n, S, failed), S \ Renewed(n, S, failed))

(* releaseLease.  Having asked, n no longer counts on the lease. *)
GiveUp(n, t) ==
  /\ caller' = n
  /\ ReleaseLease(n, t)
  /\ credit' = [credit EXCEPT ![n][t] = 0]
  /\ UNCHANGED held

TimePasses ==
  /\ Tick
  /\ caller' = NoOwner
  /\ credit' = [n \in Node |-> [t \in Transfer |-> Less(credit[n][t])]]
  /\ UNCHANGED held

ClientNext ==
  \/ \E n \in Node, t \in Transfer : AcquireLease(n, t) \/ GiveUp(n, t)
  \/ \E n \in Node, S \in SUBSET Transfer : S # {} /\ RenewLeases(n, S)
  \/ TimePasses

ClientSpec == ClientInit /\ [][ClientNext]_clientVars

(* Redis' clock does not stop. *)
FairClientSpec == ClientSpec /\ WF_clientVars(TimePasses)
-----------------------------------------------------------------------------
(* Type invariant of the recorded answers. *)
ClientTypeOK ==
  /\ LeaseTypeOK
  /\ credit \in [Node -> [Transfer -> 0..TTL]]
  /\ held \in [Node -> [Transfer -> Nat]]
  /\ caller \in Node \union {NoOwner}

(* A node whose last positive answer is younger than the TTL, and that has not
   released since, is the owner, and its lease lasts at least as long as it may
   count on it: for that time nobody else can be told that the transfer is his,
   whatever was released, renewed or asked for meanwhile ("only one worker node
   can execute a specific transfer at any given time", leaseManager.js:9, as
   far as Redis can promise it). *)
CreditMeansOwner ==
  \A n \in Node, t \in Transfer :
    credit[n][t] > 0 => Owns(n, t) /\ credit[n][t] <= leaseTTL[t]

(* A node that stops calling, because it crashed, loses every lease it has, for
   good, however often the other nodes ask for them meanwhile. *)
CrashedNodeLosesLeases ==
  \A n \in Node :
    <>[](caller # n) => <>[](\A t \in Transfer : ~Owns(n, t))

(* leaseManager.js:11-15 promises that a token handed to an earlier owner is
   rejected.  It is not: see TokenIsAlwaysOne. *)
StaleTokenRejected ==
  \A n \in Node, t \in Transfer :
    ValidateToken(t, held[n][t]) => Owns(n, t)
=============================================================================
