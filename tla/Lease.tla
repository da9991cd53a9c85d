------------------------------- MODULE Lease -------------------------------
(***************************************************************************)
(* leaseManager.js: ownership of a transfer as two Redis keys,             *)
(*                                                                         *)
(*   lease:transfer:H  the owner's node id        (variable lease)         *)
(*   lease:token:H     the fencing token counter  (variable token)         *)
(*                                                                         *)
(* both written by Lua scripts that Redis runs atomically, both with a     *)
(* time to live of TTL.  One unit of time is whatever Tick stands for: the *)
(* code uses a TTL of 30 s and renews every 10 s, so TTL = 3 makes a unit  *)
(* one heartbeat interval.                                                 *)
(*                                                                         *)
(* A script that finds the key it reads missing gets nil, which the        *)
(* wrapper turns into Number(null) = 0; an absent token key is therefore   *)
(* the value 0 here.  What the callers are told is in module LeaseClient.  *)
(***************************************************************************)
EXTENDS Naturals

CONSTANTS Node,     \* worker node ids
          Transfer, \* info hashes
          NoOwner,  \* the lease key does not exist
          TTL       \* life time of both keys, in ticks

ASSUME LeaseAssumption ==
  /\ TTL \in Nat \ {0}
  /\ NoOwner \notin Node

VARIABLES lease, token, leaseTTL, tokenTTL

keys == <<lease, token, leaseTTL, tokenTTL>>

-----------------------------------------------------------------------------
LeaseInit ==
  /\ lease = [t \in Transfer |-> NoOwner]
  /\ token = [t \in Transfer |-> 0]
  /\ leaseTTL = [t \in Transfer |-> 0]
  /\ tokenTTL = [t \in Transfer |-> 0]

Free(t) == lease[t] = NoOwner
Owns(n, t) == lease[t] = n

(* EXPIRE on both keys of the transfers in S; it does not create a key. *)
RefreshOneKey(S) ==                                              \* mutant
  /\ leaseTTL' = [t \in Transfer |-> IF t \in S THEN TTL ELSE leaseTTL[t]]
  /\ UNCHANGED tokenTTL
RefreshAddsUp(S) ==                                              \* mutant
  /\ leaseTTL' = [t \in Transfer |-> leaseTTL[t] + IF t \in S THEN TTL ELSE 0]
  /\ tokenTTL' = [t \in Transfer |-> tokenTTL[t] + IF t \in S THEN TTL ELSE 0]
RefreshTTL(S) ==
  /\ leaseTTL' = [t \in Transfer |-> IF t \in S THEN TTL ELSE leaseTTL[t]]
  /\ tokenTTL' = [t \in Transfer |->
                    IF t \in S /\ token[t] # 0 THEN TTL ELSE tokenTTL[t]]

(* acquireLease on a transfer nobody owns: SET .. EX, INCR, EXPIRE. *)
AcquireFree(n, t) ==
  /\ Free(t)
  /\ lease' = [lease EXCEPT ![t] = n]
  /\ token' = [token EXCEPT ![t] = @ + 1]
  /\ leaseTTL' = [leaseTTL EXCEPT ![t] = TTL]
  /\ tokenTTL' = [tokenTTL EXCEPT ![t] = TTL]

(* acquireLease on a transfer n owns already: both TTLs are refreshed and the
   token is returned as it is. *)
AcquireOwned(n, t) ==
  /\ Owns(n, t)
  /\ RefreshTTL({t})
  /\ UNCHANGED <<lease, token>>

(* acquireLease on another node's transfer returns null and writes nothing. *)
DeniedButTaken(n, t) ==                                          \* mutant
  /\ ~Free(t) /\ ~Owns(n, t)
  /\ lease' = [lease EXCEPT ![t] = n]
  /\ RefreshTTL({t})
  /\ UNCHANGED token
DeniedButRefreshed(n, t) ==                                      \* mutant
  /\ ~Free(t) /\ ~Owns(n, t)
  /\ RefreshTTL({t})
  /\ UNCHANGED <<lease, token>>
AcquireDenied(n, t) ==
  /\ ~Free(t) /\ ~Owns(n, t)
  /\ UNCHANGED keys

Acquired(n, t) == AcquireFree(n, t) \/ AcquireOwned(n, t)

(* renewLeasesBulk: one script per transfer in one pipeline.  It refreshes the
   keys of the transfers n still owns and answers null for the others, and null
   too for those in failed, whose command came back as an error: the scripts in
   ran (a subset of failed) were executed all the same.  renewLease is the case
   of a single transfer. *)
Renewed(n, S, failed) == {t \in S \ failed : Owns(n, t)}
RenewLeasesBulk(n, S, failed, ran) ==
  /\ RefreshTTL(Renewed(n, S, failed) \union {t \in ran : Owns(n, t)})
  /\ UNCHANGED <<lease, token>>

(* releaseLease: the owner deletes both keys, anybody else deletes nothing. *)
DropKeys(T) ==
  /\ lease' = [t \in Transfer |-> IF t \in T THEN NoOwner ELSE lease[t]]
  /\ token' = [t \in Transfer |-> IF t \in T THEN 0 ELSE token[t]]
  /\ leaseTTL' = [t \in Transfer |-> IF t \in T THEN 0 ELSE leaseTTL[t]]
  /\ tokenTTL' = [t \in Transfer |-> IF t \in T THEN 0 ELSE tokenTTL[t]]
ReleaseUnchecked(n, t) == DropKeys({t})                          \* mutant
ReleaseKeepsToken(n, t) ==                                       \* mutant
  /\ lease' = [lease EXCEPT ![t] = IF @ = n THEN NoOwner ELSE @]
  /\ leaseTTL' = [leaseTTL EXCEPT ![t] = IF lease[t] = n THEN 0 ELSE @]
  /\ UNCHANGED <<token, tokenTTL>>
ReleaseLease(n, t) ==
  IF Owns(n, t) THEN DropKeys({t}) ELSE UNCHANGED keys

(* One unit of time passes: Redis drops the keys whose time is over. *)
Less(ttl) == IF ttl = 0 THEN 0 ELSE ttl - 1
Tick ==
  /\ leaseTTL' = [t \in Transfer |-> Less(leaseTTL[t])]
  /\ tokenTTL' = [t \in Transfer |-> Less(tokenTTL[t])]
  /\ lease' = [t \in Transfer |-> IF leaseTTL'[t] = 0 THEN NoOwner ELSE lease[t]]
  /\ token' = [t \in Transfer |-> IF tokenTTL'[t] = 0 THEN 0 ELSE token[t]]

(* validateToken: the token key exists and holds the worker's token. *)
ValidateToken(t, tok) == token[t] # 0 /\ token[t] = tok

LeaseNext ==
  \/ \E n \in Node, t \in Transfer :
       Acquired(n, t) \/ AcquireDenied(n, t) \/ ReleaseLease(n, t)
  \/ \E n \in Node, S \in SUBSET Transfer :
       \E failed \in SUBSET S : \E ran \in SUBSET failed :
         S # {} /\ RenewLeasesBulk(n, S, failed, ran)
  \/ Tick

LeaseSpec == LeaseInit /\ [][LeaseNext]_keys
-----------------------------------------------------------------------------
(* Type invariant of the two keys. *)
LeaseTypeOK ==
  /\ lease \in [Transfer -> Node \union {NoOwner}]
  /\ token \in [Transfer -> Nat]
  /\ leaseTTL \in [Transfer -> 0..TTL]
  /\ tokenTTL \in [Transfer -> 0..TTL]

(* The two keys are born, refreshed and dropped together: an owner without a
   token would be answered 0, which _handleJobResumed takes for a refusal, and
   a token without an owner would validate a write nobody is entitled to. *)
KeysLiveTogether ==
  \A t \in Transfer :
    /\ Free(t) <=> token[t] = 0
    /\ Free(t) <=> leaseTTL[t] = 0
    /\ leaseTTL[t] = tokenTTL[t]

(* The token key lives exactly as long as the lease key, so INCR always starts
   from nothing: every owner of a transfer is given the same token, 1. *)
TokenIsAlwaysOne == \A t \in Transfer : token[t] \in {0, 1}

(* The keys implement Ownership, with the lease key as the holder. *)
Promise == INSTANCE Ownership WITH holder <- lease, Nobody <- NoOwner
ImplementsOwnership == Promise!Spec
=============================================================================
