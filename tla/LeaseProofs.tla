---------------------------- MODULE LeaseProofs -----------------------------
(***************************************************************************)
(* Proofs about the keys of module Lease and about what the answers of the *)
(* lease service are worth (LeaseClient), for any set of nodes and         *)
(* transfers and any TTL.  KeysInv is the inductive invariant of the keys: *)
(* TokenIsAlwaysOne is not inductive without KeysLiveTogether (AcquireFree *)
(* increments a token that must be gone when the lease is gone), and       *)
(* KeysLiveTogether needs the types, for the arithmetic of Tick.           *)
(*                                                                         *)
(* A step of the clients is a step of the keys, so the theorems about the  *)
(* keys carry over.  ClientInv adds CreditMeansOwner, which needs KeysInv: *)
(* a Tick may drop a lease key only when every credit on it has run out,   *)
(* and a free transfer credits nobody.                                     *)
(*                                                                         *)
(* To the keys a step of the fleet is a step of the lease manager, for any *)
(* number of processes, requests and faults, so the theorems hold there    *)
(* too.  That, and the fleet's types, need that a process has one          *)
(* directive in hand, of a partition that is its own and whose log begins  *)
(* with it (InHand): a commit would shorten an empty log otherwise.        *)
(***************************************************************************)
EXTENDS LeaseClient, Fleet, SequenceTheorems, TLAPS

KeysInv ==
  /\ LeaseTypeOK
  /\ KeysLiveTogether
  /\ TokenIsAlwaysOne

-----------------------------------------------------------------------------
(* A clock value that is not zero yet loses one unit, and stays in range. *)
LEMMA LessFacts ==
  ASSUME NEW x \in 0..TTL
  PROVE  /\ Less(x) \in 0..TTL
         /\ x # 0 => Less(x) = x - 1
         /\ Less(0) = 0
         /\ Less(x) <= x
BY LeaseAssumption DEF Less

(* Under the invariant the refreshed transfers get a full TTL on both keys and
   the others keep theirs. *)
LEMMA RefreshFacts ==
  ASSUME KeysInv, NEW S \in SUBSET Transfer, RefreshTTL(S),
         \A t \in S : ~Free(t)
  PROVE  /\ leaseTTL' = [t \in Transfer |-> IF t \in S THEN TTL ELSE leaseTTL[t]]
         /\ leaseTTL' \in [Transfer -> 0..TTL]
         /\ tokenTTL' \in [Transfer -> 0..TTL]
         /\ \A t \in Transfer : leaseTTL'[t] = tokenTTL'[t]
         /\ \A t \in Transfer : leaseTTL'[t] = 0 <=> leaseTTL[t] = 0
         /\ \A t \in Transfer : leaseTTL[t] <= leaseTTL'[t]
<1>. USE DEF KeysInv
<1>1. TTL \in 0..TTL /\ TTL # 0
  BY LeaseAssumption
<1>2. \A t \in S : t \in Transfer /\ token[t] # 0 /\ leaseTTL[t] # 0
  BY DEF KeysLiveTogether
<1>3. /\ leaseTTL' = [t \in Transfer |-> IF t \in S THEN TTL ELSE leaseTTL[t]]
      /\ tokenTTL' = [t \in Transfer |-> IF t \in S THEN TTL ELSE leaseTTL[t]]
  BY <1>2 DEF RefreshTTL, KeysLiveTogether
<1>4. \A t \in Transfer : leaseTTL[t] \in 0..TTL
  BY DEF LeaseTypeOK
<1>5. /\ leaseTTL' \in [Transfer -> 0..TTL]
      /\ tokenTTL' \in [Transfer -> 0..TTL]
  BY <1>1, <1>3, <1>4
<1>6. ASSUME NEW t \in Transfer
      PROVE  /\ leaseTTL'[t] = tokenTTL'[t]
             /\ leaseTTL'[t] = 0 <=> leaseTTL[t] = 0
             /\ leaseTTL[t] <= leaseTTL'[t]
  <2>1. CASE t \in S
    BY <2>1, <1>1, <1>2, <1>3, <1>4, LeaseAssumption
  <2>2. CASE t \notin S
    BY <2>2, <1>3, <1>4
  <2>. QED BY <2>1, <2>2
<1>. QED BY <1>3, <1>5, <1>6

-----------------------------------------------------------------------------
(* The empty keys of a fresh Redis satisfy the invariant. *)
LEMMA KeysInit == LeaseInit => KeysInv
BY LeaseAssumption
   DEF LeaseInit, KeysInv, LeaseTypeOK, KeysLiveTogether, TokenIsAlwaysOne, Free

(* acquireLease on a free transfer: the token starts from nothing. *)
LEMMA AcquireFreeKeys ==
  ASSUME KeysInv, NEW n \in Node, NEW t \in Transfer, AcquireFree(n, t)
  PROVE  /\ KeysInv'
         /\ lease'[t] = n /\ leaseTTL'[t] = TTL
         /\ \A u \in Transfer \ {t} :
              lease'[u] = lease[u] /\ leaseTTL'[u] = leaseTTL[u]
<1>. USE DEF KeysInv
<1>1. TTL \in 0..TTL /\ TTL # 0 /\ n # NoOwner
  BY LeaseAssumption
<1>2. token[t] = 0 /\ leaseTTL[t] = 0
  BY DEF AcquireFree, KeysLiveTogether
<1>3. /\ lease' \in [Transfer -> Node \union {NoOwner}]
      /\ token' \in [Transfer -> Nat]
      /\ leaseTTL' \in [Transfer -> 0..TTL]
      /\ tokenTTL' \in [Transfer -> 0..TTL]
      /\ lease'[t] = n /\ token'[t] = 1 /\ leaseTTL'[t] = TTL /\ tokenTTL'[t] = TTL
      /\ \A u \in Transfer \ {t} :
           /\ lease'[u] = lease[u] /\ token'[u] = token[u]
           /\ leaseTTL'[u] = leaseTTL[u] /\ tokenTTL'[u] = tokenTTL[u]
  BY <1>1, <1>2 DEF AcquireFree, LeaseTypeOK
<1>4. LeaseTypeOK'
  BY <1>3 DEF LeaseTypeOK
<1>5. KeysLiveTogether'
  BY <1>1, <1>3 DEF KeysLiveTogether, Free
<1>6. TokenIsAlwaysOne'
  BY <1>3 DEF TokenIsAlwaysOne
<1>. QED BY <1>3, <1>4, <1>5, <1>6

(* A refresh of leases that exist: acquireLease by the owner and renewals. *)
LEMMA RefreshKeys ==
  ASSUME KeysInv, NEW S \in SUBSET Transfer, \A t \in S : ~Free(t),
         RefreshTTL(S), UNCHANGED <<lease, token>>
  PROVE  KeysInv'
<1>. USE DEF KeysInv
<1>1. /\ leaseTTL' \in [Transfer -> 0..TTL]
      /\ tokenTTL' \in [Transfer -> 0..TTL]
      /\ \A t \in Transfer : leaseTTL'[t] = tokenTTL'[t]
      /\ \A t \in Transfer : leaseTTL'[t] = 0 <=> leaseTTL[t] = 0
  BY RefreshFacts
<1>2. LeaseTypeOK'
  BY <1>1 DEF LeaseTypeOK
<1>3. KeysLiveTogether'
  BY <1>1 DEF KeysLiveTogether, Free
<1>4. TokenIsAlwaysOne'
  BY DEF TokenIsAlwaysOne
<1>. QED BY <1>2, <1>3, <1>4

(* renewLeasesBulk refreshes transfers that n owns. *)
LEMMA RenewKeys ==
  ASSUME KeysInv, NEW n \in Node, NEW S \in SUBSET Transfer,
         NEW failed, NEW ran, ran \subseteq S,
         RenewLeasesBulk(n, S, failed, ran)
  PROVE  KeysInv'
<1>. DEFINE touched == Renewed(n, S, failed) \union {t \in ran : Owns(n, t)}
<1>1. touched \in SUBSET Transfer
  BY DEF Renewed
<1>2. \A t \in touched : ~Free(t)
  BY LeaseAssumption DEF Renewed, Owns, Free
<1>3. RefreshTTL(touched) /\ UNCHANGED <<lease, token>>
  BY DEF RenewLeasesBulk
<1>. HIDE DEF touched
<1>. QED BY <1>1, <1>2, <1>3, RefreshKeys

(* releaseLease takes both keys away, or none. *)
LEMMA ReleaseKeys ==
  ASSUME KeysInv, NEW n \in Node, NEW t \in Transfer, ReleaseLease(n, t)
  PROVE  KeysInv'
<1>. USE DEF KeysInv
<1>1. CASE Owns(n, t)
  <2>1. /\ lease' = [u \in Transfer |-> IF u \in {t} THEN NoOwner ELSE lease[u]]
        /\ token' = [u \in Transfer |-> IF u \in {t} THEN 0 ELSE token[u]]
        /\ leaseTTL' = [u \in Transfer |-> IF u \in {t} THEN 0 ELSE leaseTTL[u]]
        /\ tokenTTL' = [u \in Transfer |-> IF u \in {t} THEN 0 ELSE tokenTTL[u]]
    BY <1>1 DEF ReleaseLease, DropKeys
  <2>2. LeaseTypeOK'
    BY <2>1, LeaseAssumption DEF LeaseTypeOK
  <2>3. KeysLiveTogether'
    BY <2>1 DEF KeysLiveTogether, Free
  <2>4. TokenIsAlwaysOne'
    BY <2>1 DEF TokenIsAlwaysOne
  <2>. QED BY <2>2, <2>3, <2>4
<1>2. CASE ~Owns(n, t)
  <2>1. UNCHANGED keys
    BY <1>2 DEF ReleaseLease
  <2>. QED BY <2>1 DEF keys, LeaseTypeOK, KeysLiveTogether, TokenIsAlwaysOne, Free
<1>. QED BY <1>1, <1>2

(* Time passes: the two clocks are equal, so the keys go together. *)
LEMMA TickKeys ==
  ASSUME KeysInv, Tick
  PROVE  /\ KeysInv'
         /\ \A t \in Transfer : /\ leaseTTL'[t] = Less(leaseTTL[t])
                                /\ leaseTTL'[t] # 0 => lease'[t] = lease[t]
<1>. USE DEF KeysInv
<1>1. \A t \in Transfer : leaseTTL[t] \in 0..TTL /\ tokenTTL[t] \in 0..TTL
  BY DEF LeaseTypeOK
<1>2. /\ leaseTTL' = [t \in Transfer |-> Less(leaseTTL[t])]
      /\ tokenTTL' = [t \in Transfer |-> Less(tokenTTL[t])]
      /\ lease' = [t \in Transfer |-> IF leaseTTL'[t] = 0 THEN NoOwner ELSE lease[t]]
      /\ token' = [t \in Transfer |-> IF tokenTTL'[t] = 0 THEN 0 ELSE token[t]]
  BY DEF Tick
<1>3. LeaseTypeOK'
  <2>1. leaseTTL' \in [Transfer -> 0..TTL] /\ tokenTTL' \in [Transfer -> 0..TTL]
    BY <1>1, <1>2, LessFacts
  <2>2. lease' \in [Transfer -> Node \union {NoOwner}] /\ token' \in [Transfer -> Nat]
    BY <1>2 DEF LeaseTypeOK
  <2>. QED BY <2>1, <2>2 DEF LeaseTypeOK
<1>4. ASSUME NEW t \in Transfer
      PROVE  /\ leaseTTL'[t] = tokenTTL'[t]
             /\ leaseTTL'[t] = Less(leaseTTL[t])
             /\ lease'[t] = NoOwner <=> leaseTTL'[t] = 0
             /\ token'[t] = 0 <=> leaseTTL'[t] = 0
             /\ leaseTTL'[t] # 0 => lease'[t] = lease[t]
  <2>1. leaseTTL[t] = 0 => leaseTTL'[t] = 0
    BY <1>2 DEF Less
  <2>2. leaseTTL'[t] = tokenTTL'[t] /\ leaseTTL'[t] = Less(leaseTTL[t])
    BY <1>2 DEF KeysLiveTogether
  <2>. QED BY <1>2, <2>1, <2>2 DEF KeysLiveTogether, Free
<1>5. KeysLiveTogether'
  BY <1>4 DEF KeysLiveTogether, Free
<1>6. TokenIsAlwaysOne'
  BY <1>2 DEF TokenIsAlwaysOne
<1>. QED BY <1>3, <1>4, <1>5, <1>6

(* Every step of LeaseNext, and a stutter, preserves the invariant. *)
LEMMA KeysNext == KeysInv /\ [LeaseNext]_keys => KeysInv'
<1>. SUFFICES ASSUME KeysInv, [LeaseNext]_keys
              PROVE  KeysInv'
  OBVIOUS
<1>1. ASSUME NEW n \in Node, NEW t \in Transfer, AcquireFree(n, t)
      PROVE  KeysInv'
  BY <1>1, AcquireFreeKeys
<1>2. ASSUME NEW n \in Node, NEW t \in Transfer, AcquireOwned(n, t)
      PROVE  KeysInv'
  <2>1. /\ {t} \in SUBSET Transfer
        /\ \A u \in {t} : ~Free(u)
        /\ RefreshTTL({t}) /\ UNCHANGED <<lease, token>>
    BY <1>2, LeaseAssumption DEF AcquireOwned, Owns, Free
  <2>. QED BY <2>1, RefreshKeys
<1>3. ASSUME NEW n \in Node, NEW t \in Transfer, ReleaseLease(n, t)
      PROVE  KeysInv'
  BY <1>3, ReleaseKeys
<1>4. ASSUME NEW n \in Node, NEW S \in SUBSET Transfer,
             NEW failed \in SUBSET S, NEW ran \in SUBSET failed,
             RenewLeasesBulk(n, S, failed, ran)
      PROVE  KeysInv'
  <2>1. ran \subseteq S
    OBVIOUS
  <2>. QED BY <1>4, <2>1, RenewKeys
<1>5. CASE Tick
  BY <1>5, TickKeys
<1>6. CASE UNCHANGED keys
  BY <1>6 DEF keys, KeysInv, LeaseTypeOK, KeysLiveTogether, TokenIsAlwaysOne, Free
<1>. QED BY <1>1, <1>2, <1>3, <1>4, <1>5, <1>6 DEF LeaseNext, Acquired, AcquireDenied

(* The whole inductive invariant of the keys. *)
THEOREM KeysAlwaysInv == LeaseSpec => []KeysInv
BY KeysInit, KeysNext, PTL DEF LeaseSpec

(* The keys keep their types. *)
THEOREM LeaseTypeCorrect == LeaseSpec => []LeaseTypeOK
<1>1. KeysInv => LeaseTypeOK
  BY DEF KeysInv
<1>. QED BY KeysAlwaysInv, <1>1, PTL

(* The lease key and the token key live and die together. *)
THEOREM KeysAlwaysTogether == LeaseSpec => []KeysLiveTogether
<1>1. KeysInv => KeysLiveTogether
  BY DEF KeysInv
<1>. QED BY KeysAlwaysInv, <1>1, PTL

(* The fencing token never counts: whoever owns the transfer holds token 1. *)
THEOREM TokenNeverCounts == LeaseSpec => []TokenIsAlwaysOne
<1>1. KeysInv => TokenIsAlwaysOne
  BY DEF KeysInv
<1>. QED BY KeysAlwaysInv, <1>1, PTL

-----------------------------------------------------------------------------
(* A step of the keys is a step of Ownership or leaves the holder alone. *)
LEMMA StepImplements ==
  KeysInv /\ [LeaseNext]_keys => [Promise!Next]_lease
<1>. SUFFICES ASSUME KeysInv, [LeaseNext]_keys
              PROVE  Promise!Next \/ UNCHANGED lease
  OBVIOUS
<1>1. ASSUME NEW n \in Node, NEW t \in Transfer, AcquireFree(n, t)
      PROVE  Promise!Next
  <2>1. Promise!Grant(n, t)
    BY <1>1 DEF AcquireFree, Free, Promise!Grant
  <2>. QED BY <2>1 DEF Promise!Next
<1>2. ASSUME NEW n \in Node, NEW t \in Transfer, ReleaseLease(n, t)
      PROVE  Promise!Next \/ UNCHANGED lease
  <2>1. CASE Owns(n, t)
    <3>1. Promise!Free({t})
      BY <1>2, <2>1 DEF ReleaseLease, DropKeys, Promise!Free
    <3>2. {t} \in SUBSET Transfer
      OBVIOUS
    <3>. QED BY <3>1, <3>2 DEF Promise!Next
  <2>2. CASE ~Owns(n, t)
    BY <1>2, <2>2 DEF ReleaseLease, keys
  <2>. QED BY <2>1, <2>2
<1>3. CASE Tick
  <2>. DEFINE over == {t \in Transfer : Less(leaseTTL[t]) = 0}
  <2>1. over \in SUBSET Transfer
    OBVIOUS
  <2>2. lease' = [t \in Transfer |-> IF t \in over THEN NoOwner ELSE lease[t]]
    BY <1>3 DEF Tick
  <2>. HIDE DEF over
  <2>3. Promise!Free(over)
    BY <2>2 DEF Promise!Free
  <2>. QED BY <2>1, <2>3 DEF Promise!Next
<1>4. ASSUME NEW n \in Node, NEW t \in Transfer, AcquireOwned(n, t) \/ AcquireDenied(n, t)
      PROVE  UNCHANGED lease
  BY <1>4 DEF AcquireOwned, AcquireDenied, keys
<1>5. ASSUME NEW n, NEW S, NEW failed, NEW ran, RenewLeasesBulk(n, S, failed, ran)
      PROVE  UNCHANGED lease
  BY <1>5 DEF RenewLeasesBulk
<1>6. CASE UNCHANGED keys
  BY <1>6 DEF keys
<1>. QED BY <1>1, <1>2, <1>3, <1>4, <1>5, <1>6 DEF LeaseNext, Acquired

(* The Redis keys implement the abstract ownership service. *)
THEOREM LeaseImplementsOwnership == LeaseSpec => ImplementsOwnership
<1>1. LeaseInit => Promise!Init
  BY DEF LeaseInit, Promise!Init
<1>. QED
  BY KeysInit, KeysNext, StepImplements, <1>1, PTL
  DEF LeaseSpec, ImplementsOwnership, Promise!Spec

-----------------------------------------------------------------------------
(* The clients. *)

ClientInv ==
  /\ KeysInv
  /\ ClientTypeOK
  /\ CreditMeansOwner

-----------------------------------------------------------------------------
(* Less is monotone: a credit bounded by the lease stays bounded by it. *)
LEMMA LessMonotone ==
  ASSUME NEW x \in 0..TTL, NEW y \in 0..TTL, x <= y
  PROVE  Less(x) <= Less(y)
BY LeaseAssumption DEF Less

(* A reply touches the records of the node it goes to, and only there. *)
LEMMA ReplyFacts ==
  ASSUME ClientTypeOK, NEW n \in Node, NEW G, NEW D, Reply(n, G, D),
         LeaseTypeOK', caller' \in Node \union {NoOwner}
  PROVE  /\ ClientTypeOK'
         /\ \A m \in Node, t \in Transfer :
              credit'[m][t] = IF m # n THEN credit[m][t]
                              ELSE IF t \in G THEN TTL
                              ELSE IF t \in D THEN 0 ELSE credit[m][t]
<1>1. TTL \in 0..TTL /\ 0 \in 0..TTL
  BY LeaseAssumption
<1>2. /\ credit \in [Node -> [Transfer -> 0..TTL]]
      /\ held \in [Node -> [Transfer -> Nat]]
      /\ token' \in [Transfer -> Nat]
  BY DEF ClientTypeOK, LeaseTypeOK
<1>. DEFINE credits == [t \in Transfer |-> IF t \in G THEN TTL
                          ELSE IF t \in D THEN 0 ELSE credit[n][t]]
            tokens == [t \in Transfer |-> IF t \in G THEN token'[t] ELSE held[n][t]]
<1>3. credits \in [Transfer -> 0..TTL] /\ tokens \in [Transfer -> Nat]
  BY <1>1, <1>2
<1>4. /\ credit' = [credit EXCEPT ![n] = credits]
      /\ held' = [held EXCEPT ![n] = tokens]
  BY DEF Reply
<1>5. \A m \in Node, t \in Transfer :
        credit'[m][t] = IF m # n THEN credit[m][t]
                        ELSE IF t \in G THEN TTL
                        ELSE IF t \in D THEN 0 ELSE credit[m][t]
  BY <1>2, <1>4
<1>. HIDE DEF credits, tokens
<1>6. /\ credit' \in [Node -> [Transfer -> 0..TTL]]
      /\ held' \in [Node -> [Transfer -> Nat]]
  BY <1>2, <1>3, <1>4
<1>. QED BY <1>5, <1>6 DEF ClientTypeOK

-----------------------------------------------------------------------------
(* Nobody has asked anything yet. *)
LEMMA ClientInitInv == ClientInit => ClientInv
<1>1. ClientInit => KeysInv
  BY KeysInit DEF ClientInit
<1>2. ClientInit /\ KeysInv => ClientTypeOK /\ CreditMeansOwner
  BY LeaseAssumption DEF ClientInit, KeysInv, ClientTypeOK, CreditMeansOwner
<1>. QED BY <1>1, <1>2 DEF ClientInv

(* acquireLease on a free transfer, answered or not: nobody had credit on it. *)
LEMMA AcquireFreeClient ==
  ASSUME ClientInv, NEW n \in Node, NEW t \in Transfer, AcquireFree(n, t),
         Reply(n, {t}, {}) \/ UNCHANGED answers,
         caller' = n
  PROVE  ClientInv'
<1>. USE DEF ClientInv
<1>1. /\ KeysInv'
      /\ lease'[t] = n /\ leaseTTL'[t] = TTL
      /\ \A u \in Transfer \ {t} : lease'[u] = lease[u] /\ leaseTTL'[u] = leaseTTL[u]
  BY AcquireFreeKeys
<1>2. /\ ClientTypeOK'
      /\ \A m \in Node, u \in Transfer :
           credit'[m][u] = credit[m][u] \/ (m = n /\ u = t /\ credit'[m][u] = TTL)
  <2>0. LeaseTypeOK'
    BY <1>1 DEF KeysInv
  <2>1. CASE Reply(n, {t}, {})
    BY <2>0, <2>1, ReplyFacts
  <2>2. CASE UNCHANGED answers
    BY <2>0, <2>2 DEF answers, ClientTypeOK
  <2>. QED BY <2>1, <2>2
<1>3. \A m \in Node : credit[m][t] = 0
  <2>. SUFFICES ASSUME NEW m \in Node PROVE credit[m][t] = 0
    OBVIOUS
  <2>1. lease[t] = NoOwner /\ m # NoOwner
    BY LeaseAssumption DEF AcquireFree, Free
  <2>2. ~(credit[m][t] > 0)
    BY <2>1 DEF CreditMeansOwner, Owns
  <2>3. credit[m][t] \in 0..TTL
    BY DEF ClientTypeOK
  <2>. QED BY <2>2, <2>3, LeaseAssumption
<1>4. CreditMeansOwner'
  <2>. SUFFICES ASSUME NEW m \in Node, NEW u \in Transfer, credit'[m][u] > 0
                PROVE  lease'[u] = m /\ credit'[m][u] <= leaseTTL'[u]
    BY DEF CreditMeansOwner, Owns
  <2>1. CASE u = t
    BY <2>1, <1>1, <1>2, <1>3, LeaseAssumption
  <2>2. CASE u # t
    BY <2>2, <1>1, <1>2 DEF CreditMeansOwner, Owns
  <2>. QED BY <2>1, <2>2
<1>. QED BY <1>1, <1>2, <1>4

(* A step that changes neither lease nor token, refreshes transfers of n's and
   grants n no others: acquireLease by the owner and every renewal. *)
LEMMA RefreshClient ==
  ASSUME ClientInv, NEW n \in Node,
         NEW S \in SUBSET Transfer, NEW G, G \subseteq S, NEW D,
         \A t \in S : Owns(n, t),
         RefreshTTL(S), UNCHANGED <<lease, token>>,
         Reply(n, G, D) \/ UNCHANGED answers,
         caller' = n
  PROVE  ClientInv'
<1>. USE DEF ClientInv
<1>1. \A t \in S : ~Free(t)
  BY LeaseAssumption DEF Owns, Free
<1>2. KeysInv'
  BY <1>1, RefreshKeys
<1>3. /\ leaseTTL' = [t \in Transfer |-> IF t \in S THEN TTL ELSE leaseTTL[t]]
      /\ \A t \in Transfer : leaseTTL[t] <= leaseTTL'[t]
  BY <1>1, RefreshFacts
<1>4. /\ ClientTypeOK'
      /\ \A m \in Node, t \in Transfer :
           \/ credit'[m][t] = credit[m][t]
           \/ credit'[m][t] = 0
           \/ m = n /\ t \in S /\ credit'[m][t] = TTL
  <2>0. LeaseTypeOK'
    BY <1>2 DEF KeysInv
  <2>1. CASE Reply(n, G, D)
    BY <2>0, <2>1, ReplyFacts
  <2>2. CASE UNCHANGED answers
    BY <2>0, <2>2 DEF answers, ClientTypeOK
  <2>. QED BY <2>1, <2>2
<1>5. CreditMeansOwner'
  <2>. SUFFICES ASSUME NEW m \in Node, NEW t \in Transfer, credit'[m][t] > 0
                PROVE  lease[t] = m /\ credit'[m][t] <= leaseTTL'[t]
    BY DEF CreditMeansOwner, Owns
  <2>0. /\ credit'[m][t] \in 0..TTL /\ credit[m][t] \in 0..TTL
        /\ leaseTTL[t] \in 0..TTL /\ leaseTTL'[t] \in 0..TTL
    BY <1>2, <1>4 DEF ClientTypeOK, KeysInv, LeaseTypeOK
  <2>1. CASE credit'[m][t] = credit[m][t]
    BY <2>0, <2>1, <1>3, LeaseAssumption DEF CreditMeansOwner, Owns
  <2>2. CASE m = n /\ t \in S /\ credit'[m][t] = TTL
    BY <2>0, <2>2, <1>3, LeaseAssumption DEF Owns
  <2>. QED BY <2>0, <2>1, <2>2, <1>4
<1>. QED BY <1>2, <1>4, <1>5

(* A denied acquireLease can only lower the credit of the node that asked. *)
LEMMA AcquireDeniedClient ==
  ASSUME ClientInv, NEW n \in Node, NEW t \in Transfer,
         AcquireDenied(n, t), Reply(n, {}, {t}), caller' = n
  PROVE  ClientInv'
<1>. USE DEF ClientInv
<1>1. UNCHANGED <<lease, token, leaseTTL, tokenTTL>>
  BY DEF AcquireDenied, keys
<1>2. KeysInv'
  BY <1>1, KeysNext DEF keys
<1>3. /\ ClientTypeOK'
      /\ \A m \in Node, u \in Transfer :
           credit'[m][u] = credit[m][u] \/ credit'[m][u] = 0
  BY <1>2, ReplyFacts DEF KeysInv
<1>4. CreditMeansOwner'
  BY <1>1, <1>3 DEF CreditMeansOwner, Owns
<1>. QED BY <1>2, <1>3, <1>4

(* releaseLease takes the keys and the credit of the owner away together. *)
LEMMA GiveUpClient ==
  ASSUME ClientInv, NEW n \in Node, NEW t \in Transfer, GiveUp(n, t)
  PROVE  ClientInv'
<1>. USE DEF ClientInv
<1>1. KeysInv'
  BY ReleaseKeys DEF GiveUp
<1>2. /\ ClientTypeOK'
      /\ credit'[n][t] = 0
      /\ \A m \in Node, u \in Transfer :
           m # n \/ u # t => credit'[m][u] = credit[m][u]
  BY <1>1, LeaseAssumption DEF GiveUp, ClientTypeOK, KeysInv
<1>3. \A u \in Transfer :
        \/ lease'[u] = lease[u] /\ leaseTTL'[u] = leaseTTL[u]
        \/ u = t /\ lease[u] = n
  BY DEF GiveUp, ReleaseLease, DropKeys, Owns, keys
<1>4. CreditMeansOwner'
  <2>. SUFFICES ASSUME NEW m \in Node, NEW u \in Transfer, credit'[m][u] > 0
                PROVE  lease'[u] = m /\ credit'[m][u] <= leaseTTL'[u]
    BY DEF CreditMeansOwner, Owns
  <2>1. m # n \/ u # t
    BY <1>2
  <2>2. credit[m][u] > 0 /\ lease[u] = m /\ credit[m][u] <= leaseTTL[u]
    BY <1>2, <2>1 DEF CreditMeansOwner, Owns
  <2>3. lease'[u] = lease[u] /\ leaseTTL'[u] = leaseTTL[u]
    BY <1>3, <2>1, <2>2
  <2>. QED BY <1>2, <2>1, <2>2, <2>3
<1>. QED BY <1>1, <1>2, <1>4

(* Lease and credit run down together. *)
LEMMA TimePassesClient ==
  ASSUME ClientInv, TimePasses
  PROVE  ClientInv'
<1>. USE DEF ClientInv
<1>1. /\ KeysInv'
      /\ \A t \in Transfer : /\ leaseTTL'[t] = Less(leaseTTL[t])
                             /\ leaseTTL'[t] # 0 => lease'[t] = lease[t]
  BY TickKeys DEF TimePasses
<1>2. /\ \A t \in Transfer : leaseTTL[t] \in 0..TTL
      /\ \A n \in Node, t \in Transfer : credit[n][t] \in 0..TTL
  BY DEF ClientTypeOK, KeysInv, LeaseTypeOK
<1>3. credit' = [n \in Node |-> [t \in Transfer |-> Less(credit[n][t])]]
  BY DEF TimePasses
<1>4. ClientTypeOK'
  <2>1. credit' \in [Node -> [Transfer -> 0..TTL]]
    BY <1>2, <1>3, LessFacts
  <2>. QED BY <1>1, <2>1 DEF ClientTypeOK, KeysInv, TimePasses
<1>5. CreditMeansOwner'
  <2>. SUFFICES ASSUME NEW n \in Node, NEW t \in Transfer, credit'[n][t] > 0
                PROVE  lease'[t] = n /\ credit'[n][t] <= leaseTTL'[t]
    BY DEF CreditMeansOwner, Owns
  <2>1. credit'[n][t] = Less(credit[n][t])
    BY <1>3
  <2>2. credit[n][t] > 0 /\ credit[n][t] \in 0..TTL /\ leaseTTL[t] \in 0..TTL
    BY <1>2, <2>1, LessFacts
  <2>3. lease[t] = n /\ credit[n][t] <= leaseTTL[t]
    BY <2>2 DEF CreditMeansOwner, Owns
  <2>4. credit'[n][t] <= leaseTTL'[t]
    BY <1>1, <2>1, <2>2, <2>3, LessMonotone
  <2>5. leaseTTL'[t] # 0
    BY <2>1, <2>2, <2>4, <1>1, LessFacts
  <2>. QED BY <1>1, <2>3, <2>4, <2>5
<1>. QED BY <1>1, <1>4, <1>5

-----------------------------------------------------------------------------
(* Every step of the clients, and a stutter, preserves the invariant. *)
LEMMA ClientNextInv == ClientInv /\ [ClientNext]_clientVars => ClientInv'
<1>. SUFFICES ASSUME ClientInv, [ClientNext]_clientVars
              PROVE  ClientInv'
  OBVIOUS
<1>1. ASSUME NEW n \in Node, NEW t \in Transfer, AcquireLease(n, t)
      PROVE  ClientInv'
  <2>0. caller' = n
    BY <1>1 DEF AcquireLease
  <2>1. CASE AcquireFree(n, t) /\ (Reply(n, {t}, {}) \/ UNCHANGED answers)
    BY <2>0, <2>1, AcquireFreeClient
  <2>2. CASE AcquireOwned(n, t) /\ (Reply(n, {t}, {}) \/ UNCHANGED answers)
    <3>1. /\ {t} \in SUBSET Transfer
          /\ \A u \in {t} : Owns(n, u)
          /\ RefreshTTL({t}) /\ UNCHANGED <<lease, token>>
      BY <2>2 DEF AcquireOwned
    <3>. QED BY <2>0, <2>2, <3>1, RefreshClient
  <2>3. CASE AcquireDenied(n, t) /\ Reply(n, {}, {t})
    BY <2>0, <2>3, AcquireDeniedClient
  <2>. QED BY <1>1, <2>1, <2>2, <2>3 DEF AcquireLease, Acquired
<1>2. ASSUME NEW n \in Node, NEW t \in Transfer, GiveUp(n, t)
      PROVE  ClientInv'
  BY <1>2, GiveUpClient
<1>3. ASSUME NEW n \in Node, NEW S \in SUBSET Transfer, RenewLeases(n, S)
      PROVE  ClientInv'
  <2>1. PICK failed \in SUBSET S : \E ran \in SUBSET failed :
               /\ RenewLeasesBulk(n, S, failed, ran)
               /\ Reply(n, Renewed(n, S, failed), S \ Renewed(n, S, failed))
    BY <1>3 DEF RenewLeases
  <2>2. PICK ran \in SUBSET failed :
               /\ RenewLeasesBulk(n, S, failed, ran)
               /\ Reply(n, Renewed(n, S, failed), S \ Renewed(n, S, failed))
    BY <2>1
  <2>. DEFINE granted == Renewed(n, S, failed)
              denied == S \ granted
              touched == granted \union {t \in ran : Owns(n, t)}
  <2>3. /\ touched \in SUBSET Transfer /\ granted \subseteq touched
        /\ \A t \in touched : Owns(n, t)
    BY DEF Renewed
  <2>4. /\ RefreshTTL(touched) /\ UNCHANGED <<lease, token>>
        /\ Reply(n, granted, denied) /\ caller' = n
    BY <1>3, <2>2 DEF RenewLeases, RenewLeasesBulk
  <2>. HIDE DEF granted, denied, touched
  <2>. QED BY <2>3, <2>4, RefreshClient
<1>4. CASE TimePasses
  BY <1>4, TimePassesClient
<1>5. CASE UNCHANGED clientVars
  <2>1. UNCHANGED <<lease, token, leaseTTL, tokenTTL, credit, held, caller>>
    BY <1>5 DEF clientVars, keys, answers
  <2>2. KeysInv'
    BY <2>1, KeysNext DEF ClientInv, keys
  <2>. QED BY <2>1, <2>2 DEF ClientInv, KeysInv, ClientTypeOK, CreditMeansOwner, Owns
<1>. QED BY <1>1, <1>2, <1>3, <1>4, <1>5 DEF ClientNext

(* The answers keep their types. *)
THEOREM ClientTypeCorrect == ClientSpec => []ClientTypeOK
<1>1. ClientInv => ClientTypeOK
  BY DEF ClientInv
<1>. QED BY ClientInitInv, ClientNextInv, <1>1, PTL DEF ClientSpec

(* A worker that was told "yours" less than a TTL ago, and has not released, is
   the owner: what leaseManager.js:9 asks of the lock. *)
THEOREM CreditIsOwnership == ClientSpec => []CreditMeansOwner
<1>1. ClientInv => CreditMeansOwner
  BY DEF ClientInv
<1>. QED BY ClientInitInv, ClientNextInv, <1>1, PTL DEF ClientSpec

(* Two nodes are never both within the term of a positive answer. *)
AtMostOneCredited ==
  \A t \in Transfer, m, n \in Node :
    credit[m][t] > 0 /\ credit[n][t] > 0 => m = n

(* Mutual exclusion of the workers that respect the term of their lease. *)
THEOREM MutualExclusion == ClientSpec => []AtMostOneCredited
<1>1. CreditMeansOwner => AtMostOneCredited
  BY DEF CreditMeansOwner, AtMostOneCredited, Owns
<1>. QED BY CreditIsOwnership, <1>1, PTL

-----------------------------------------------------------------------------
(* A step of the clients is a step of the keys. *)
LEMMA ClientStepIsKeyStep == [ClientNext]_clientVars => [LeaseNext]_keys
<1>1. ASSUME NEW n \in Node, NEW S \in SUBSET Transfer, S # {}, RenewLeases(n, S)
      PROVE  LeaseNext
  BY <1>1 DEF RenewLeases, LeaseNext
<1>2. ASSUME NEW n \in Node, NEW t \in Transfer, AcquireLease(n, t) \/ GiveUp(n, t)
      PROVE  LeaseNext
  BY <1>2 DEF AcquireLease, GiveUp, LeaseNext
<1>3. TimePasses => LeaseNext
  BY DEF TimePasses, LeaseNext
<1>4. UNCHANGED clientVars => UNCHANGED keys
  BY DEF clientVars
<1>. QED BY <1>1, <1>2, <1>3, <1>4 DEF ClientNext

(* Seen from the keys, the clients do nothing but call the lease service. *)
THEOREM ClientsUseLease == ClientSpec => LeaseSpec
<1>1. ClientInit => LeaseInit
  BY DEF ClientInit
<1>. QED BY <1>1, ClientStepIsKeyStep, PTL DEF ClientSpec, LeaseSpec
-----------------------------------------------------------------------------
Budgets == {"faults", "stalls", "outages"}
Ops == {"create", "pause", "resume", "start", "started", "delete"}

(* The directives J in hand, the members c of the consumer group and the logs b: a
   process has one directive in hand, of a partition that is its own and whose log
   begins with it, unless the partition was taken away.  A commit takes the head of
   the log, so it acknowledges what was handled. *)
InHand(J, c, b) ==
  /\ J \subseteq Job
  /\ \A i, j \in J : i.node = j.node => i = j
  /\ \A j \in J : j.key \in Key =>
       c[j.key] = j.node /\ b[j.key] # <<>> /\ Head(b[j.key]).t = j.t
(* Logs that have grown keep their heads. *)
Grown(b, c) == \A k \in Key : b[k] # <<>> => c[k] # <<>> /\ Head(c[k]) = Head(b[k])

RowsOK == db \in [Transfer -> Status]
TorrentsOK == engine \in [Node -> [Transfer -> EngineState]]
ProcessesOK == process \in [Node -> {"up", "closing", "down"}] /\ lost \subseteq Node \X Transfer
LogOK == /\ bus \in [Key -> Seq(Directive)] /\ consumer \in [Key -> Node]
         /\ InHand(jobs, consumer, bus)
CallsOK == calls \subseteq Call /\ asked \in 0..MaxCalls
SweepOK == sweep \in [Node -> Found]
BudgetOK == budget \in [Budgets -> Nat]
FleetInv ==
  RowsOK /\ TorrentsOK /\ ProcessesOK /\ LogOK /\ CallsOK /\ SweepOK /\ BudgetOK

(* Only running processes have anything in hand. *)
ReadsOK ==
  committed \subseteq Key /\ passed \subseteq Transfer /\ \A j \in jobs : Runs(j.node)
-----------------------------------------------------------------------------
(* No process has anything to do yet. *)
LEMMA FleetStart == FleetInit => FleetInv /\ ReadsOK
<1>. SUFFICES ASSUME FleetInit PROVE FleetInv /\ ReadsOK
  OBVIOUS
<1>0. ReadsOK
  BY FleetAssumption DEF FleetInit, ReadsOK
<1>1. RowsOK /\ TorrentsOK /\ ProcessesOK
  BY DEF FleetInit, RowsOK, TorrentsOK, ProcessesOK, Status, EngineState
<1>2. LogOK
  <2>1. bus = [k \in Key |-> <<>>] /\ consumer \in [Key -> Node] /\ jobs = {}
    BY DEF FleetInit
  <2>2. <<>> \in Seq(Directive)
    OBVIOUS
  <2>. QED BY <2>1, <2>2 DEF LogOK, InHand
<1>3. MaxCalls \in Nat /\ MaxFaults \in Nat /\ MaxStalls \in Nat /\ MaxOutages \in Nat
  BY FleetAssumption
<1>4. CallsOK
  BY <1>3 DEF FleetInit, CallsOK
<1>5. SweepOK
  BY DEF FleetInit, SweepOK, Found, NothingFound
<1>6. BudgetOK
  <2>1. budget = [faults |-> MaxFaults, stalls |-> MaxStalls, outages |-> MaxOutages]
    BY DEF FleetInit
  <2>2. DOMAIN budget = Budgets /\ \A x \in Budgets : budget[x] \in Nat
    BY <1>3, <2>1 DEF Budgets
  <2>3. budget = [x \in Budgets |-> budget[x]]
    BY <2>1 DEF Budgets
  <2>. QED BY <2>2, <2>3 DEF BudgetOK
<1>. QED BY <1>0, <1>1, <1>2, <1>4, <1>5, <1>6 DEF FleetInv

(* What the torrent's calls make of its state. *)
LEMMA EffectFacts ==
  ASSUME NEW s \in EngineState
  PROVE  /\ Paused(s) \in EngineState /\ Resumed(s) \in EngineState
         /\ Started(s) \in EngineState /\ Added(s) \in EngineState
         /\ \A type \in {"assign", "pause", "resume"} : Effect(type, s) \in EngineState
BY DEF EngineState, Paused, Resumed, Started, Added, Effect

(* The states of the torrents, one of them changed. *)
LEMMA SetEngineKeeps ==
  ASSUME TorrentsOK, NEW n \in Node, NEW t \in Transfer, NEW s \in EngineState,
         SetEngine(n, t, s)
  PROVE  TorrentsOK'
<1>. DEFINE row == [engine[n] EXCEPT ![t] = s]
<1>1. row \in [Transfer -> EngineState]
  BY DEF TorrentsOK
<1>2. engine' = [engine EXCEPT ![n] = row]
  BY DEF SetEngine
<1>. HIDE DEF row
<1>. QED BY <1>1, <1>2 DEF TorrentsOK

(* A budget of which one is spent. *)
LEMMA SpendKeeps ==
  ASSUME BudgetOK, NEW what \in Budgets, Spend(what)
  PROVE  BudgetOK'
<1>1. budget[what] - 1 \in Nat
  BY DEF BudgetOK, Spend
<1>. QED BY <1>1 DEF BudgetOK, Spend

(* A directive is sent, or executed on the spot. *)
LEMMA DispatchKeeps ==
  ASSUME TorrentsOK, LogOK, BudgetOK, NEW n \in Node, NEW type \in {"assign", "pause", "resume"},
         NEW t \in Transfer, NEW key \in Key, NEW failed, Dispatch(n, type, t, key, failed)
  PROVE  /\ TorrentsOK' /\ BudgetOK' /\ consumer' = consumer
         /\ bus' \in [Key -> Seq(Directive)]
         /\ Grown(bus, bus')
<1>. DEFINE message == [type |-> type, t |-> t]
            log == [bus EXCEPT ![key] = Append(@, message)]
<1>1. bus \in [Key -> Seq(Directive)] /\ message \in Directive
  BY DEF LogOK, Directive
<1>. HIDE DEF message
<1>2. /\ Append(bus[key], message) \in Seq(Directive) /\ Append(bus[key], message) # <<>>
      /\ bus[key] # <<>> => Head(Append(bus[key], message)) = Head(bus[key])
  BY <1>1
<1>3. log \in [Key -> Seq(Directive)] /\ Grown(bus, log)
  BY <1>1, <1>2 DEF Grown
<1>. HIDE DEF log
<1>4. bus' \in {bus, log} /\ consumer' = consumer
  BY DEF Dispatch, message, log
<1>5. UNCHANGED engine \/ SetEngine(n, t, Effect(type, engine[n][t]))
  BY DEF Dispatch
<1>6. UNCHANGED budget \/ Spend("outages")
  BY DEF Dispatch
<1>7. TorrentsOK'
  <2>1. engine[n][t] \in EngineState
    BY DEF TorrentsOK
  <2>2. Effect(type, engine[n][t]) \in EngineState
    BY <2>1, EffectFacts
  <2>3. CASE UNCHANGED engine
    BY <2>3 DEF TorrentsOK
  <2>. QED BY <1>5, <2>2, <2>3, SetEngineKeeps
<1>8. BudgetOK'
  <2>1. CASE UNCHANGED budget
    BY <2>1 DEF BudgetOK
  <2>. QED BY <1>6, <2>1, SpendKeeps DEF Budgets
<1>9. Grown(bus, bus')
  <2>1. Grown(bus, bus)
    BY DEF Grown
  <2>. QED BY <1>3, <1>4, <2>1
<1>. QED BY <1>1, <1>3, <1>4, <1>7, <1>8, <1>9

(* Logs grow, and what is in hand stays so. *)
LEMMA LogKeeps ==
  ASSUME LogOK, jobs' = jobs, consumer' = consumer, bus' \in [Key -> Seq(Directive)],
         Grown(bus, bus')
  PROVE  LogOK'
BY DEF LogOK, InHand, Grown

(* A request between its dispatch and its status update. *)
LEMMA AskKeeps ==
  ASSUME CallsOK, NEW n \in Node, NEW t \in Transfer, NEW op \in Ops, NEW s \in Status,
         Ask(n, t, op, s)
  PROVE  CallsOK'
<1>. DEFINE c == [op |-> op, node |-> n, t |-> t, status |-> s, id |-> asked]
<1>1. MaxCalls \in Nat /\ asked \in 0..MaxCalls /\ calls \subseteq Call
  BY FleetAssumption DEF CallsOK
<1>2. c \in Call
  BY <1>1 DEF Call, Ops
<1>3. calls' = calls \union {c} /\ asked' = asked + 1 /\ asked < MaxCalls
  BY DEF Ask
<1>. HIDE DEF c
<1>4. asked' \in 0..MaxCalls
  BY <1>1, <1>3
<1>. QED BY <1>1, <1>2, <1>3, <1>4 DEF CallsOK

(* A handler goes on with the directive in hand. *)
LEMMA AdvanceKeeps ==
  ASSUME LogOK, NEW j \in jobs, NEW phase \in Phase, Advance(j, phase),
         bus' = bus, consumer' = consumer
  PROVE  LogOK'
<1>. DEFINE i == [j EXCEPT !.phase = phase]
<1>1. InHand(jobs, consumer, bus) /\ j \in Job
  BY DEF LogOK, InHand
<1>2. i \in Job /\ i.node = j.node /\ i.key = j.key /\ i.t = j.t
  BY <1>1 DEF Job
<1>3. jobs' = (jobs \ {j}) \union {i}
  BY DEF Advance
<1>. HIDE DEF i
<1>4. InHand((jobs \ {j}) \union {i}, consumer, bus)
  BY <1>1, <1>2 DEF InHand
<1>. QED BY <1>3, <1>4 DEF LogOK

(* The status of a row, written unless the row is gone. *)
LEMMA SetStatusKeeps ==
  ASSUME RowsOK, NEW t \in Transfer, NEW s \in Status, SetStatus(t, s)
  PROVE  RowsOK'
BY DEF RowsOK, SetStatus, Status

(* What is in none of these variables' steps stays as it is. *)
LEMMA SameFleet ==
  ASSUME FleetInv
  PROVE  /\ db' = db => RowsOK'
         /\ engine' = engine => TorrentsOK'
         /\ process' = process /\ lost' = lost => ProcessesOK'
         /\ jobs' = jobs /\ consumer' = consumer /\ bus' = bus => LogOK'
         /\ calls' = calls /\ asked' = asked => CallsOK'
         /\ sweep' = sweep => SweepOK'
         /\ budget' = budget => BudgetOK'
BY DEF FleetInv, RowsOK, TorrentsOK, ProcessesOK, LogOK, CallsOK, SweepOK, BudgetOK


(* A request of the API: its dispatch or its work on the local torrent. *)
LEMMA ApiKeeps ==
  ASSUME FleetInv, NEW n \in Node, NEW t \in Transfer, Api(n, t)
  PROVE  FleetInv'
<1>0. RowsOK /\ TorrentsOK /\ ProcessesOK /\ LogOK /\ CallsOK /\ SweepOK /\ BudgetOK
  BY DEF FleetInv
<1>1. t \in Key /\ System \in Key /\ engine[n][t] \in EngineState
  BY <1>0 DEF Key, TorrentsOK
<1>2. /\ "parked" \in Status /\ "active" \in Status /\ "none" \in Status
      /\ "pause" \in Ops /\ "resume" \in Ops /\ "create" \in Ops /\ "delete" \in Ops
      /\ "none" \in EngineState
  BY DEF Status, Ops, EngineState
<1>3. ASSUME UNCHANGED <<db, process, jobs, sweep, lost>>, TorrentsOK', BudgetOK', CallsOK',
             consumer' = consumer, bus' \in [Key -> Seq(Directive)],
             Grown(bus, bus')
      PROVE  FleetInv'
  <2>1. LogOK'
    BY <1>0, <1>3, LogKeeps
  <2>. QED BY <1>3, <2>1, SameFleet DEF FleetInv
<1>4. ASSUME NEW type \in {"assign", "pause", "resume"}, NEW key \in Key, NEW failed,
             Dispatch(n, type, t, key, failed),
             UNCHANGED <<db, process, jobs, sweep, lost>>, CallsOK'
      PROVE  FleetInv'
  BY <1>0, <1>3, <1>4, DispatchKeeps
<1>5. ASSUME UNCHANGED <<db, process, jobs, sweep, lost, bus, consumer, budget>>, CallsOK', TorrentsOK'
      PROVE  FleetInv'
  BY <1>5, SameFleet DEF FleetInv
<1>6. ASSUME NEW op \in Ops, NEW s \in Status, Ask(n, t, op, s)
      PROVE  CallsOK' /\ UNCHANGED <<db, process, jobs, sweep, lost>>
  BY <1>0, <1>6, AskKeeps DEF Ask
<1>7. CASE Create(n, t)
  <2>1. PICK failed \in BOOLEAN :
          /\ Dispatch(n, "assign", t, System, failed)
          /\ IF failed
             THEN /\ n \in Front /\ Runs(n) /\ asked < MaxCalls
                  /\ asked' = asked + 1
                  /\ UNCHANGED <<keys, db, process, jobs, sweep, lost, calls>>
             ELSE \E s \in CreatedStatus(engine'[n][t]) : Ask(n, t, "create", s)
    BY <1>7 DEF Create
  <2>2. CASE failed
    <3>1. /\ UNCHANGED <<db, process, jobs, sweep, lost, calls>>
          /\ asked < MaxCalls /\ asked' = asked + 1
      BY <2>1, <2>2
    <3>2. asked' \in 0..MaxCalls
      BY <1>0, <3>1, FleetAssumption DEF CallsOK
    <3>3. CallsOK'
      BY <1>0, <3>1, <3>2 DEF CallsOK
    <3>. QED BY <1>1, <1>4, <2>1, <3>1, <3>3
  <2>3. CASE ~failed
    <3>1. PICK s \in CreatedStatus(engine'[n][t]) : Ask(n, t, "create", s)
      BY <2>1, <2>3
    <3>2. s \in Status
      BY <3>1 DEF CreatedStatus, Status
    <3>. QED BY <1>1, <1>2, <1>4, <1>6, <2>1, <3>1, <3>2
  <2>. QED BY <2>2, <2>3
<1>8. CASE Pause(n, t)
  <2>1. Dispatch(n, "pause", t, t, FALSE) /\ Ask(n, t, "pause", "parked")
    BY <1>8 DEF Pause
  <2>. QED BY <1>1, <1>2, <1>4, <1>6, <2>1
<1>9. CASE Resume(n, t)
  <2>1. Dispatch(n, "resume", t, t, FALSE) /\ Ask(n, t, "resume", "active")
    BY <1>9 DEF Resume
  <2>. QED BY <1>1, <1>2, <1>4, <1>6, <2>1
<1>10. CASE ResumeVerified(n, t)
  <2>1. Ask(n, t, "resume", "parked") /\ UNCHANGED <<engine, bus, consumer, budget>>
    BY <1>10 DEF ResumeVerified
  <2>. QED BY <1>2, <1>5, <1>6, <2>1, SameFleet
<1>11. CASE Start(n, t)
  <2>1. PICK op \in StartOps(engine[n][t]) : Ask(n, t, op, "active")
    BY <1>11 DEF Start
  <2>2. SetEngine(n, t, Started(engine[n][t])) /\ UNCHANGED <<bus, consumer, budget>>
    BY <1>11 DEF Start
  <2>3. op \in Ops
    BY <2>1 DEF StartOps, Ops
  <2>4. TorrentsOK'
    BY <1>0, <1>1, <2>2, EffectFacts, SetEngineKeeps
  <2>. QED BY <1>2, <1>5, <1>6, <2>1, <2>2, <2>3, <2>4
<1>12. CASE Delete(n, t)
  <2>1. SetEngine(n, t, "none") /\ Ask(n, t, "delete", "none") /\ UNCHANGED <<bus, consumer, budget>>
    BY <1>12 DEF Delete
  <2>2. TorrentsOK'
    BY <1>0, <1>2, <2>1, SetEngineKeeps
  <2>. QED BY <1>2, <1>5, <1>6, <2>1, <2>2
<1>. QED BY <1>7, <1>8, <1>9, <1>10, <1>11, <1>12 DEF Api

(* The status update of a request. *)
LEMMA FinishKeeps ==
  ASSUME FleetInv, NEW c, Finish(c)
  PROVE  FleetInv'
<1>1. /\ c \in calls /\ calls' = calls \ {c}
      /\ UNCHANGED <<engine, process, bus, consumer, jobs, sweep, lost, asked, budget>>
  BY DEF Finish
<1>2. \/ db' = [db EXCEPT ![c.t] = IF @ = "none" THEN c.status ELSE @]
      \/ SetStatus(c.t, c.status)
  BY DEF Finish
<1>3. RowsOK /\ CallsOK /\ c.t \in Transfer /\ c.status \in Status
  BY <1>1 DEF FleetInv, CallsOK, Call
<1>4. RowsOK'
  <2>1. CASE db' = [db EXCEPT ![c.t] = IF @ = "none" THEN c.status ELSE @]
    BY <1>3, <2>1 DEF RowsOK
  <2>. QED BY <1>2, <1>3, <2>1, SetStatusKeeps
<1>5. CallsOK'
  BY <1>1, <1>3 DEF CallsOK
<1>. QED BY <1>1, <1>4, <1>5, SameFleet DEF FleetInv

(* A directive is taken from the log of a partition. *)
LEMMA ConsumeKeeps ==
  ASSUME FleetInv, NEW n \in Node, NEW k \in Key, Consume(n, k)
  PROVE  FleetInv'
<1>. DEFINE d == Head(bus[k])
            s == engine[n][d.t]
            job(phase) == [node |-> n, phase |-> phase, key |-> k, t |-> d.t]
<1>0. RowsOK /\ TorrentsOK /\ ProcessesOK /\ LogOK /\ CallsOK /\ SweepOK /\ BudgetOK
  BY DEF FleetInv
<1>1. /\ UNCHANGED <<db, process, consumer, calls, sweep, lost, asked, bus, budget>>
      /\ \A j \in jobs : j.node # n
      /\ consumer[k] = n /\ bus[k] # <<>>
  BY DEF Consume, WorkerStep
<1>2. d.t \in Transfer /\ s \in EngineState
  <2>1. bus[k] \in Seq(Directive)
    BY <1>0 DEF LogOK
  <2>2. d \in Directive
    BY <1>1, <2>1, HeadTailProperties
  <2>. HIDE DEF d
  <2>3. d.t \in Transfer
    BY <2>2 DEF Directive
  <2>. QED BY <1>0, <2>3 DEF TorrentsOK
<1>3. \/ SetEngine(n, d.t, Added(s)) /\ NewJob(n, k, d.t, "added")
      \/ SetEngine(n, d.t, Paused(s)) /\ NewJob(n, k, d.t, "paused")
      \/ NewJob(n, k, d.t, "resuming") /\ UNCHANGED engine
      \/ NewJob(n, k, d.t, "done") /\ UNCHANGED engine
  BY DEF Consume
<1>. HIDE DEF d, s
<1>4. TorrentsOK'
  <2>1. CASE UNCHANGED engine
    BY <2>1, SameFleet
  <2>. QED BY <1>0, <1>2, <1>3, <2>1, EffectFacts, SetEngineKeeps
<1>5. \E phase \in Phase : jobs' = jobs \union {job(phase)}
  BY <1>3 DEF NewJob, Phase
<1>6. LogOK'
  <2>1. PICK phase \in Phase : jobs' = jobs \union {job(phase)}
    BY <1>5
  <2>. DEFINE i == job(phase)
  <2>2. i \in Job /\ i.node = n /\ i.key = k /\ i.t = Head(bus[k]).t
    BY <1>2 DEF Job, d
  <2>3. jobs' = jobs \union {i}
    BY <2>1
  <2>. HIDE DEF i
  <2>4. InHand(jobs \union {i}, consumer, bus)
    BY <1>0, <1>1, <2>2 DEF LogOK, InHand
  <2>. QED BY <1>0, <1>1, <2>3, <2>4 DEF LogOK
<1>. QED BY <1>1, <1>4, <1>6, SameFleet DEF FleetInv

(* Only in the given partitions is anything passed over. *)
LEMMA ReadOnKeeps ==
  ASSUME NEW given \in SUBSET Key, bus \in [Key -> Seq(Directive)], ReadOn(given)
  PROVE  /\ bus' \in [Key -> Seq(Directive)] /\ \A x \in Key \ given : bus'[x] = bus[x]
         /\ passed \subseteq Transfer => passed' \subseteq Transfer
<1>1. <<>> \in Seq(Directive)
  OBVIOUS
<1>. QED BY <1>1 DEF ReadOn

(* A partition is given to another member: what was in hand of it loses its key. *)
LEMMA ReassignKeeps ==
  ASSUME FleetInv, NEW n \in Node, NEW k \in Key, Reassign(k, n)
  PROVE  FleetInv'
<1>. DEFINE to == [consumer EXCEPT ![k] = n]
            Lost(j) == IF j.key = k THEN [j EXCEPT !.key = NoKey] ELSE j
            left == {Lost(j) : j \in jobs}
<1>1. /\ consumer' = to /\ jobs' = left
      /\ UNCHANGED <<db, engine, process, calls, sweep, lost, asked>>
      /\ UNCHANGED budget \/ Spend("stalls")
      /\ ReadOn({k})
  BY DEF Reassign
<1>2. BudgetOK'
  BY <1>1, SpendKeeps, SameFleet DEF FleetInv, Budgets
<1>3. /\ bus \in [Key -> Seq(Directive)] /\ consumer \in [Key -> Node]
      /\ InHand(jobs, consumer, bus)
  BY DEF FleetInv, LogOK
<1>4. \A j \in jobs : /\ Lost(j) \in Job /\ Lost(j).node = j.node /\ Lost(j).t = j.t
                      /\ Lost(j).key \in Key => j.key # k /\ Lost(j).key = j.key
  <2>. SUFFICES ASSUME NEW j \in jobs
                PROVE  /\ Lost(j) \in Job /\ Lost(j).node = j.node /\ Lost(j).t = j.t
                       /\ Lost(j).key \in Key => j.key # k /\ Lost(j).key = j.key
    OBVIOUS
  <2>1. j \in Job /\ NoKey \notin Key
    BY <1>3, FleetAssumption DEF InHand
  <2>. QED BY <2>1 DEF Job
<1>5. to \in [Key -> Node] /\ \A x \in Key : x # k => to[x] = consumer[x]
  BY <1>3
<1>6. \A i \in left : \E j \in jobs : i = Lost(j)
  OBVIOUS
<1>. HIDE DEF Lost, left, to
<1>7. InHand(left, to, bus)
  <2>1. left \subseteq Job
    BY <1>4, <1>6
  <2>2. ASSUME NEW i \in left, NEW j \in left, i.node = j.node PROVE i = j
    <3>1. PICK x \in jobs : i = Lost(x)
      BY <1>6
    <3>2. PICK y \in jobs : j = Lost(y)
      BY <1>6
    <3>3. x.node = y.node
      BY <1>4, <2>2, <3>1, <3>2
    <3>4. x = y
      BY <1>3, <3>3 DEF InHand
    <3>. QED BY <3>1, <3>2, <3>4
  <2>3. ASSUME NEW i \in left, i.key \in Key
        PROVE  to[i.key] = i.node /\ bus[i.key] # <<>> /\ Head(bus[i.key]).t = i.t
    <3>1. PICK j \in jobs : i = Lost(j)
      BY <1>6
    <3>2. j.key # k /\ i.key = j.key /\ i.node = j.node /\ i.t = j.t /\ j.key \in Key
      BY <1>4, <2>3, <3>1
    <3>. QED BY <1>3, <1>5, <3>2 DEF InHand
  <2>. QED BY <2>1, <2>2, <2>3 DEF InHand
<1>8. bus' \in [Key -> Seq(Directive)] /\ \A x \in Key \ {k} : bus'[x] = bus[x]
  BY <1>1, <1>3, ReadOnKeeps
<1>9. InHand(left, to, bus')
  <2>1. \A i \in left : i.key # k
    BY <1>4, <1>6
  <2>. QED BY <1>7, <1>8, <2>1 DEF InHand
<1>10. LogOK'
  BY <1>1, <1>5, <1>8, <1>9 DEF LogOK
<1>. QED BY <1>1, <1>2, <1>10, SameFleet DEF FleetInv


(* A handler goes on, its command fails, or its directive is done with. *)
LEMMA HandleKeeps ==
  ASSUME FleetInv, NEW j \in jobs, Handle(j) \/ RedisFails(j)
  PROVE  FleetInv'
<1>0. RowsOK /\ TorrentsOK /\ ProcessesOK /\ LogOK /\ CallsOK /\ SweepOK /\ BudgetOK
  BY DEF FleetInv
<1>1. /\ j.node \in Node /\ j.t \in Transfer /\ engine[j.node][j.t] \in EngineState
      /\ "none" \in EngineState
  <2>1. j.node \in Node /\ j.t \in Transfer
    BY <1>0 DEF LogOK, InHand, Job
  <2>. QED BY <1>0, <2>1 DEF TorrentsOK, EngineState
<1>2. /\ "done" \in Phase /\ "denied" \in Phase /\ "faults" \in Budgets
  BY DEF Phase, Budgets
<1>3. UNCHANGED <<db, process, consumer, calls, sweep, lost, asked>>
  BY DEF Handle, RedisFails, EnsureLease, RemoveDenied, ResumeLeased, ReleasePaused, Commit, WorkerStep
<1>4. CASE Commit(j)
  <2>1. /\ jobs' = jobs \ {j} /\ UNCHANGED <<engine, budget>>
        /\ bus' = IF j.key \in Key THEN [bus EXCEPT ![j.key] = Tail(@)] ELSE bus
    BY <1>4 DEF Commit
  <2>2. /\ bus \in [Key -> Seq(Directive)] /\ consumer \in [Key -> Node]
        /\ InHand(jobs, consumer, bus)
    BY <1>0 DEF LogOK
  <2>3. InHand(jobs \ {j}, consumer, bus')
    <3>1. ASSUME NEW i \in jobs \ {j}, i.key \in Key
          PROVE  consumer[i.key] = i.node /\ bus'[i.key] # <<>> /\ Head(bus'[i.key]).t = i.t
      <4>1. /\ consumer[i.key] = i.node /\ bus[i.key] # <<>> /\ Head(bus[i.key]).t = i.t
            /\ i.node # j.node
        BY <2>2, <3>1 DEF InHand
      <4>2. j.key \in Key => j.key # i.key
        BY <2>2, <4>1 DEF InHand
      <4>. QED BY <2>1, <2>2, <4>1, <4>2
    <3>. QED BY <2>2, <3>1 DEF InHand
  <2>4. bus' \in [Key -> Seq(Directive)]
    <3>1. CASE j.key \in Key
      <4>1. bus[j.key] # <<>> /\ bus[j.key] \in Seq(Directive)
        BY <2>2, <3>1 DEF InHand
      <4>2. Tail(bus[j.key]) \in Seq(Directive)
        BY <4>1, HeadTailProperties
      <4>. QED BY <2>1, <2>2, <3>1, <4>2
    <3>. QED BY <2>1, <2>2, <3>1
  <2>5. LogOK'
    BY <1>3, <2>1, <2>2, <2>3, <2>4 DEF LogOK
  <2>. QED BY <1>3, <2>1, <2>5, SameFleet DEF FleetInv
<1>5. ASSUME ~Commit(j) PROVE FleetInv'
  <2>1. bus' = bus /\ \E phase \in Phase : Advance(j, phase)
    BY <1>2, <1>5 DEF Handle, RedisFails, EnsureLease, RemoveDenied, ResumeLeased, ReleasePaused
  <2>2. \/ UNCHANGED engine \/ SetEngine(j.node, j.t, "none")
        \/ SetEngine(j.node, j.t, Resumed(engine[j.node][j.t]))
    BY <1>5 DEF Handle, RedisFails, EnsureLease, RemoveDenied, ResumeLeased, ReleasePaused
  <2>3. UNCHANGED budget \/ Spend("faults")
    BY <1>5 DEF Handle, RedisFails, EnsureLease, RemoveDenied, ResumeLeased, ReleasePaused
  <2>4. LogOK'
    BY <1>0, <1>3, <2>1, AdvanceKeeps
  <2>5. TorrentsOK'
    BY <1>0, <1>1, <2>2, EffectFacts, SetEngineKeeps, SameFleet
  <2>6. BudgetOK'
    BY <1>0, <1>2, <2>3, SpendKeeps, SameFleet
  <2>. QED BY <1>3, <2>4, <2>5, <2>6, SameFleet DEF FleetInv
<1>. QED BY <1>4, <1>5

(* The heartbeat, and the pause of a transfer whose renewal was refused. *)
LEMMA HeartbeatKeeps ==
  ASSUME FleetInv, NEW n \in Node,
         Heartbeat(n) \/ \E t \in Transfer : PauseLost(n, t)
  PROVE  FleetInv'
<1>0. TorrentsOK /\ ProcessesOK /\ BudgetOK
  BY DEF FleetInv
<1>1. CASE Heartbeat(n)
  <2>1. PICK failed \in SUBSET Active(n) :
          /\ lost' = lost \union {<<n, t>> : t \in Active(n) \ Renewed(n, Active(n), failed)}
          /\ UNCHANGED budget \/ Spend("faults")
    BY <1>1 DEF Heartbeat
  <2>2. UNCHANGED <<db, engine, process, bus, consumer, jobs, calls, sweep, asked>>
    BY <1>1 DEF Heartbeat
  <2>3. ProcessesOK'
    <3>1. \A t \in Active(n) : <<n, t>> \in Node \X Transfer
      BY DEF Active
    <3>2. lost' \subseteq Node \X Transfer
      BY <1>0, <2>1, <3>1 DEF ProcessesOK
    <3>. QED BY <1>0, <2>2, <3>2 DEF ProcessesOK
  <2>4. BudgetOK'
    BY <1>0, <2>1, SpendKeeps, SameFleet DEF Budgets
  <2>. QED BY <2>2, <2>3, <2>4, SameFleet DEF FleetInv
<1>2. ASSUME NEW t \in Transfer, PauseLost(n, t) PROVE FleetInv'
  <2>1. /\ lost' = lost \ {<<n, t>>} /\ SetEngine(n, t, Paused(engine[n][t]))
        /\ UNCHANGED <<db, process, bus, consumer, jobs, calls, sweep, asked, budget>>
    BY <1>2 DEF PauseLost
  <2>2. engine[n][t] \in EngineState
    BY <1>0 DEF TorrentsOK
  <2>3. TorrentsOK'
    BY <1>0, <2>1, <2>2, EffectFacts, SetEngineKeeps
  <2>4. ProcessesOK'
    BY <1>0, <2>1 DEF ProcessesOK
  <2>. QED BY <2>1, <2>3, <2>4, SameFleet DEF FleetInv
<1>. QED BY <1>1, <1>2

(* The torrent's own progress, and what the requests that wait for it are told. *)
LEMMA ProgressKeeps ==
  ASSUME FleetInv, NEW n \in Node, NEW t \in Transfer,
         Ready(n, t) \/ Complete(n, t) \/ Fail(n, t)
  PROVE  FleetInv'
<1>0. TorrentsOK /\ CallsOK /\ BudgetOK
  BY DEF FleetInv
<1>1. \E to \in EngineState : SetEngine(n, t, to)
  BY DEF Ready, Complete, Fail, TorrentStep, EngineState
<1>2. /\ UNCHANGED <<db, process, bus, consumer, jobs, sweep, lost, asked>>
      /\ UNCHANGED budget \/ Spend("faults")
  BY DEF Ready, Complete, Fail, TorrentStep
<1>3. \/ UNCHANGED calls
      \/ \E W \in {{}, Waiting(n, t)} : calls' = (calls \ Waiting(n, t)) \union Answered(W)
  BY DEF Ready, Complete, Fail
<1>4. \A c \in calls : [c EXCEPT !.op = "started"] \in Call
  <2>. SUFFICES ASSUME NEW c \in calls PROVE [c EXCEPT !.op = "started"] \in Call
    OBVIOUS
  <2>1. c \in Call
    BY <1>0 DEF CallsOK
  <2>. QED BY <2>1 DEF Call
<1>5. calls' \subseteq Call
  <2>1. ASSUME NEW W \in SUBSET calls PROVE Answered(W) \subseteq Call
    BY <1>4 DEF Answered
  <2>2. Waiting(n, t) \in SUBSET calls /\ {} \in SUBSET calls
    BY DEF Waiting
  <2>. QED BY <1>0, <1>3, <2>1, <2>2 DEF CallsOK
<1>6. CallsOK'
  BY <1>0, <1>2, <1>5 DEF CallsOK
<1>7. TorrentsOK' /\ BudgetOK'
  BY <1>0, <1>1, <1>2, SetEngineKeeps, SpendKeeps, SameFleet DEF Budgets
<1>. QED BY <1>2, <1>6, <1>7, SameFleet DEF FleetInv

(* The sweeper reads rows and leases, requeues and dispatches. *)
LEMMA SweepKeeps ==
  ASSUME FleetInv, NEW n \in Node, Sweep(n)
  PROVE  FleetInv'
<1>0. RowsOK /\ TorrentsOK /\ ProcessesOK /\ LogOK /\ CallsOK /\ SweepOK /\ BudgetOK
  BY DEF FleetInv
<1>1. sweep[n] \in Found /\ NothingFound \in Found
  BY <1>0 DEF SweepOK, Found, NothingFound
<1>2. ASSUME NEW found \in Found, SweepStep(n, found)
      PROVE  SweepOK' /\ UNCHANGED <<process, jobs, calls, lost, asked>>
  BY <1>0, <1>2 DEF SweepStep, SweepOK
<1>3. CASE SweepRows(n)
  <2>. DEFINE rows == {t \in Transfer : db[t] = "active"}
              found == [NothingFound EXCEPT !.rows = rows]
  <2>1. SweepStep(n, found) /\ UNCHANGED <<db, engine, bus, consumer, budget>>
    BY <1>3 DEF SweepRows
  <2>2. found \in Found
    BY <1>1 DEF Found
  <2>. HIDE DEF found
  <2>. QED BY <1>2, <2>1, <2>2, SameFleet DEF FleetInv
<1>4. CASE SweepLeases(n)
  <2>. DEFINE zombies == {t \in sweep[n].rows : Free(t)}
              found == [NothingFound EXCEPT !.zombies = zombies]
  <2>1. SweepStep(n, found) /\ UNCHANGED <<db, engine, bus, consumer, budget>>
    BY <1>4 DEF SweepLeases
  <2>2. zombies \in SUBSET Transfer
    BY <1>1 DEF Found
  <2>. HIDE DEF zombies
  <2>3. found \in Found
    BY <1>1, <2>2 DEF Found
  <2>. HIDE DEF found
  <2>. QED BY <1>2, <2>1, <2>3, SameFleet DEF FleetInv
<1>5. ASSUME NEW t \in Transfer, RequeueZombie(n, t) PROVE FleetInv'
  <2>. DEFINE found == [sweep[n] EXCEPT !.zombies = @ \ {t}, !.queued = {t}]
  <2>1. SweepStep(n, found) /\ SetStatus(t, "queued") /\ UNCHANGED <<engine, bus, consumer, budget>>
    BY <1>5 DEF RequeueZombie
  <2>2. found \in Found
    BY <1>1 DEF Found
  <2>. HIDE DEF found
  <2>3. RowsOK'
    BY <1>0, <2>1, SetStatusKeeps DEF Status
  <2>. QED BY <1>2, <2>1, <2>2, <2>3, SameFleet DEF FleetInv
<1>6. ASSUME NEW t \in Transfer, DispatchZombie(n, t) PROVE FleetInv'
  <2>. DEFINE found == [sweep[n] EXCEPT !.queued = {}]
  <2>1. SweepStep(n, found) /\ UNCHANGED db
    BY <1>6 DEF DispatchZombie
  <2>2. PICK failed \in BOOLEAN : Dispatch(n, "assign", t, t, failed)
    BY <1>6 DEF DispatchZombie
  <2>3. found \in Found
    BY <1>1 DEF Found
  <2>. HIDE DEF found
  <2>4. t \in Key
    BY DEF Key
  <2>5. /\ TorrentsOK' /\ BudgetOK' /\ consumer' = consumer
        /\ bus' \in [Key -> Seq(Directive)]
        /\ Grown(bus, bus')
    BY <1>0, <2>2, <2>4, DispatchKeeps
  <2>6. LogOK'
    BY <1>0, <1>2, <2>1, <2>3, <2>5, LogKeeps
  <2>. QED BY <1>2, <2>1, <2>3, <2>5, <2>6, SameFleet DEF FleetInv
<1>. QED BY <1>3, <1>4, <1>5, <1>6 DEF Sweep

(* A process dies, comes back, or begins to shut down. *)
LEMMA ProcessKeeps ==
  ASSUME FleetInv, ReadsOK, NEW n \in Node, Crash(n) \/ Restart(n) \/ ShutDown(n) \/ Exit(n)
  PROVE  FleetInv'
<1>0. RowsOK /\ TorrentsOK /\ ProcessesOK /\ LogOK /\ CallsOK /\ SweepOK /\ BudgetOK
  BY DEF FleetInv
<1>1. UNCHANGED budget \/ Spend("faults")
  BY DEF Crash, Restart, ShutDown, Exit
<1>2. BudgetOK'
  BY <1>0, <1>1, SpendKeeps, SameFleet DEF Budgets
<1>3. "none" \in EngineState /\ "error" \in EngineState
  BY DEF EngineState
<1>4. CASE Dies(n)
  <2>1. /\ process' = [process EXCEPT ![n] = "down"]
        /\ engine' = [engine EXCEPT ![n] = [t \in Transfer |-> "none"]]
        /\ jobs' = {j \in jobs : j.node # n} /\ calls' = {c \in calls : c.node # n}
        /\ lost' = {l \in lost : l[1] # n}
        /\ sweep' = [sweep EXCEPT ![n] = NothingFound]
        /\ UNCHANGED <<db, bus, consumer, asked>>
    BY <1>4 DEF Dies
  <2>2. TorrentsOK'
    <3>1. [t \in Transfer |-> "none"] \in [Transfer -> EngineState]
      BY <1>3
    <3>. QED BY <1>0, <2>1, <3>1 DEF TorrentsOK
  <2>3. ProcessesOK'
    BY <1>0, <2>1 DEF ProcessesOK
  <2>4. CallsOK'
    BY <1>0, <2>1 DEF CallsOK
  <2>5. SweepOK'
    <3>1. NothingFound \in Found
      BY DEF NothingFound, Found
    <3>. QED BY <1>0, <2>1, <3>1 DEF SweepOK
  <2>6. LogOK'
    <3>. DEFINE left == {j \in jobs : j.node # n}
    <3>1. InHand(left, consumer, bus)
      BY <1>0 DEF LogOK, InHand
    <3>2. jobs' = left
      BY <2>1
    <3>. HIDE DEF left
    <3>. QED BY <1>0, <2>1, <3>1, <3>2 DEF LogOK
  <2>. QED BY <1>2, <2>1, <2>2, <2>3, <2>4, <2>5, <2>6, SameFleet DEF FleetInv
<1>5. CASE Restart(n)
  <2>1. /\ process' = [process EXCEPT ![n] = "up"]
        /\ UNCHANGED <<db, engine, consumer, jobs, calls, sweep, lost, asked>>
        /\ ReadOn({k \in Key : consumer[k] = n}) /\ ~Runs(n)
    BY <1>5 DEF Restart
  <2>2. ProcessesOK'
    BY <1>0, <2>1 DEF ProcessesOK
  <2>3. /\ bus' \in [Key -> Seq(Directive)]
        /\ \A x \in Key : consumer[x] # n => bus'[x] = bus[x]
    <3>. DEFINE given == {k \in Key : consumer[k] = n}
    <3>1. given \in SUBSET Key /\ bus \in [Key -> Seq(Directive)] /\ ReadOn(given)
      BY <1>0, <2>1 DEF LogOK
    <3>2. \A x \in Key : consumer[x] # n => x \in Key \ given
      OBVIOUS
    <3>. HIDE DEF given
    <3>. QED BY <3>1, <3>2, ReadOnKeeps
  <2>4. InHand(jobs, consumer, bus')
    <3>1. \A j \in jobs : j.node # n
      BY <2>1 DEF ReadsOK
    <3>. QED BY <1>0, <2>3, <3>1 DEF LogOK, InHand
  <2>5. LogOK'
    BY <1>0, <2>1, <2>3, <2>4 DEF LogOK
  <2>. QED BY <1>2, <2>1, <2>2, <2>5, SameFleet DEF FleetInv
<1>6. CASE ShutDown(n)
  <2>1. PICK idle \in SUBSET {t \in Transfer : engine[n][t] = "starting"} :
          /\ engine' = [engine EXCEPT ![n] = [t \in Transfer |->
                         IF t \in idle \/ @[t] = "none" THEN @[t] ELSE "error"]]
          /\ \E failed \in SUBSET UNION {Waiting(n, t) : t \in Transfer \ idle} :
               calls' = calls \ failed
    BY <1>6 DEF ShutDown
  <2>2. /\ process' = [process EXCEPT ![n] = "closing"]
        /\ UNCHANGED <<db, bus, consumer, jobs, sweep, lost, asked>>
    BY <1>6 DEF ShutDown
  <2>3. TorrentsOK'
    <3>. DEFINE row == [t \in Transfer |->
                  IF t \in idle \/ engine[n][t] = "none" THEN engine[n][t] ELSE "error"]
    <3>1. row \in [Transfer -> EngineState]
      BY <1>0, <1>3 DEF TorrentsOK
    <3>2. engine' = [engine EXCEPT ![n] = row]
      BY <2>1
    <3>. HIDE DEF row
    <3>. QED BY <1>0, <3>1, <3>2 DEF TorrentsOK
  <2>4. ProcessesOK'
    BY <1>0, <2>2 DEF ProcessesOK
  <2>5. CallsOK'
    BY <1>0, <2>1, <2>2 DEF CallsOK
  <2>. QED BY <1>2, <2>2, <2>3, <2>4, <2>5, SameFleet DEF FleetInv
<1>. QED BY <1>4, <1>5, <1>6 DEF Crash, Exit

(* Every step of the fleet keeps what holds of its state. *)
LEMMA FleetKeeps == FleetInv /\ ReadsOK /\ [FleetNext]_vars => FleetInv'
<1>. SUFFICES ASSUME FleetInv, ReadsOK, [FleetNext]_vars PROVE FleetInv'
  OBVIOUS
<1>1. CASE PassTime
  <2>1. /\ UNCHANGED <<db, engine, process, bus, consumer, jobs, calls, sweep, lost, asked>>
        /\ UNCHANGED budget \/ Spend("stalls")
    BY <1>1 DEF PassTime
  <2>2. BudgetOK'
    BY <2>1, SpendKeeps, SameFleet DEF FleetInv, Budgets
  <2>. QED BY <2>1, <2>2, SameFleet DEF FleetInv
<1>2. CASE UNCHANGED vars
  BY <1>2, SameFleet DEF FleetInv, vars, fleetVars
<1>. QED
  BY <1>1, <1>2, ApiKeeps, FinishKeeps, ConsumeKeeps, ReassignKeeps, HandleKeeps, HeartbeatKeeps,
     ProgressKeeps, SweepKeeps, ProcessKeeps DEF FleetNext

(* Partitions have offsets, transfers are passed over, and directives are in the
   hands of running processes; so it stays. *)
LEMMA ReadsKeep == FleetInv /\ ReadsOK /\ [FleetNext]_vars => ReadsOK'
<1>. SUFFICES ASSUME FleetInv, ReadsOK, [FleetNext]_vars PROVE ReadsOK'
  OBVIOUS
<1>0. jobs \subseteq Job /\ bus \in [Key -> Seq(Directive)] /\ \A j \in jobs : Runs(j.node) /\ j.node \in Node
  BY DEF FleetInv, LogOK, InHand, ReadsOK, Job
<1>1. ASSUME UNCHANGED <<committed, passed, jobs>>, process' = process PROVE ReadsOK'
  BY <1>1 DEF ReadsOK, Runs
<1>2. ASSUME NEW n \in Node, NEW t \in Transfer, Api(n, t) PROVE ReadsOK'
  <2>1. UNCHANGED <<committed, passed, jobs>> /\ process' = process
    BY <1>2 DEF Api, Create, Pause, Resume, ResumeVerified, Start, Delete, Ask, Dispatch
  <2>. QED BY <1>1, <2>1
<1>3. ASSUME NEW n \in Node, NEW k \in Key, Consume(n, k) PROVE ReadsOK'
  <2>1. /\ UNCHANGED <<committed, passed>> /\ process' = process /\ Runs(n)
        /\ \E t, phase : jobs' = jobs \union {[node |-> n, phase |-> phase, key |-> k, t |-> t]}
    BY <1>3 DEF Consume, WorkerStep, NewJob
  <2>. QED BY <2>1 DEF ReadsOK, Runs
<1>4. ASSUME NEW n \in Node, NEW k \in Key, Reassign(k, n) PROVE ReadsOK'
  <2>1. /\ committed' = committed /\ process' = process /\ ReadOn({k})
        /\ jobs' = {IF j.key = k THEN [j EXCEPT !.key = NoKey] ELSE j : j \in jobs}
    BY <1>4 DEF Reassign
  <2>2. passed' \subseteq Transfer
    BY <1>0, <2>1, ReadOnKeeps DEF ReadsOK
  <2>3. \A j \in jobs : [j EXCEPT !.key = NoKey].node = j.node
    BY <1>0 DEF Job
  <2>4. \A i \in jobs' : \E j \in jobs : i.node = j.node
    <3>1. \A i \in jobs' : \E j \in jobs : i = IF j.key = k THEN [j EXCEPT !.key = NoKey] ELSE j
      BY <2>1
    <3>. QED BY <2>3, <3>1
  <2>5. \A i \in jobs' : process'[i.node] # "down"
    BY <1>0, <2>1, <2>4 DEF Runs
  <2>6. committed' \subseteq Key
    BY <2>1 DEF ReadsOK
  <2>. QED BY <2>2, <2>5, <2>6 DEF ReadsOK, Runs
<1>5. ASSUME NEW j \in jobs, Handle(j) \/ RedisFails(j) PROVE ReadsOK'
  <2>1. /\ committed' \in {committed, committed \union ({j.key} \intersect Key)} /\ passed' = passed
        /\ process' = process
    BY <1>5 DEF Handle, RedisFails, EnsureLease, RemoveDenied, ResumeLeased, ReleasePaused, Commit,
       Acknowledged, WorkerStep
  <2>2. jobs' = jobs \ {j} \/ \E phase : Advance(j, phase)
    BY <1>5 DEF Handle, RedisFails, EnsureLease, RemoveDenied, ResumeLeased, ReleasePaused, Commit
  <2>3. \A phase : [j EXCEPT !.phase = phase].node = j.node
    BY <1>0 DEF Job
  <2>. QED BY <1>0, <2>1, <2>2, <2>3 DEF ReadsOK, Runs, Advance
<1>6. ASSUME NEW n \in Node, Dies(n) PROVE ReadsOK'
  <2>1. /\ UNCHANGED <<committed, passed>> /\ jobs' = {j \in jobs : j.node # n}
        /\ process' = [process EXCEPT ![n] = "down"]
    BY <1>6 DEF Dies
  <2>2. \A j \in jobs' : process'[j.node] = process[j.node]
    BY <1>0, <2>1 DEF FleetInv, ProcessesOK
  <2>. QED BY <1>0, <2>1, <2>2 DEF ReadsOK, Runs
<1>7. ASSUME NEW n \in Node, NEW up \in {"up", "closing"}, process' = [process EXCEPT ![n] = up],
             UNCHANGED <<committed, jobs>>, passed' \subseteq Transfer
      PROVE  ReadsOK'
  <2>1. \A j \in jobs : process'[j.node] \in {process[j.node], up}
    BY <1>0, <1>7 DEF FleetInv, ProcessesOK
  <2>. QED BY <1>0, <1>7, <2>1 DEF ReadsOK, Runs
<1>8. ASSUME NEW n \in Node, Crash(n) \/ Restart(n) \/ ShutDown(n) \/ Exit(n) PROVE ReadsOK'
  <2>1. CASE Restart(n)
    <3>. DEFINE given == {k \in Key : consumer[k] = n}
    <3>1. ReadOn(given) /\ given \in SUBSET Key
      BY <2>1 DEF Restart
    <3>. HIDE DEF given
    <3>2. passed' \subseteq Transfer
      BY <1>0, <3>1, ReadOnKeeps DEF ReadsOK
    <3>. QED BY <1>7, <2>1, <3>2 DEF Restart
  <2>2. CASE ShutDown(n)
    BY <1>7, <2>2 DEF ShutDown, ReadsOK
  <2>. QED BY <1>6, <1>8, <2>1, <2>2 DEF Crash, Exit
<1>9. ASSUME NEW n \in Node, Sweep(n) PROVE ReadsOK'
  <2>1. UNCHANGED <<committed, passed, jobs>> /\ process' = process
    BY <1>9 DEF Sweep, SweepRows, SweepLeases, RequeueZombie, DispatchZombie, SweepStep, Dispatch
  <2>. QED BY <1>1, <2>1
<1>10. ASSUME NEW n \in Node, NEW t \in Transfer,
              PauseLost(n, t) \/ Ready(n, t) \/ Complete(n, t) \/ Fail(n, t)
       PROVE  ReadsOK'
  <2>1. UNCHANGED <<committed, passed, jobs>> /\ process' = process
    BY <1>10 DEF PauseLost, Ready, Complete, Fail, TorrentStep
  <2>. QED BY <1>1, <2>1
<1>11. ASSUME NEW n \in Node, Heartbeat(n) PROVE ReadsOK'
  <2>1. UNCHANGED <<committed, passed, jobs>> /\ process' = process
    BY <1>11 DEF Heartbeat
  <2>. QED BY <1>1, <2>1
<1>12. CASE PassTime \/ (\E c \in calls : Finish(c)) \/ UNCHANGED vars
  <2>1. UNCHANGED <<committed, passed, jobs>> /\ process' = process
    BY <1>12 DEF PassTime, Finish, vars, fleetVars
  <2>. QED BY <1>1, <2>1
<1>. QED
  BY <1>2, <1>3, <1>4, <1>5, <1>8, <1>9, <1>10, <1>11, <1>12 DEF FleetNext

(* To the keys a step of the fleet is a step of the lease manager. *)
LEMMA FleetStepsLease == FleetInv /\ [FleetNext]_vars => [LeaseNext]_keys
<1>. SUFFICES ASSUME FleetInv, [FleetNext]_vars PROVE LeaseNext \/ UNCHANGED keys
  OBVIOUS
<1>1. ASSUME NEW n \in Node, NEW t \in Transfer, Api(n, t) PROVE UNCHANGED keys
  BY <1>1 DEF Api, Create, Pause, Resume, ResumeVerified, Start, Delete, Ask
<1>2. ASSUME NEW c, Finish(c) PROVE UNCHANGED keys
  BY <1>2 DEF Finish
<1>3. ASSUME NEW n, NEW k, Consume(n, k) \/ Reassign(k, n) PROVE UNCHANGED keys
  BY <1>3 DEF Consume, Reassign
<1>4. ASSUME NEW j \in jobs, Handle(j) \/ RedisFails(j) PROVE LeaseNext \/ UNCHANGED keys
  <2>1. j.node \in Node /\ j.t \in Transfer
    BY DEF FleetInv, LogOK, InHand, Job
  <2>2. \/ Acquired(j.node, j.t) \/ AcquireDenied(j.node, j.t) \/ ReleaseLease(j.node, j.t)
        \/ UNCHANGED keys
    BY <1>4 DEF Handle, RedisFails, EnsureLease, RemoveDenied, ResumeLeased, ReleasePaused, Commit
  <2>. QED BY <2>1, <2>2 DEF LeaseNext
<1>5. ASSUME NEW n \in Node, Heartbeat(n) PROVE LeaseNext
  <2>1. PICK failed \in SUBSET Active(n), ran \in SUBSET Active(n) :
          ran \subseteq failed /\ RenewLeasesBulk(n, Active(n), failed, ran)
    BY <1>5 DEF Heartbeat
  <2>2. Active(n) \in SUBSET Transfer /\ Active(n) # {} /\ ran \in SUBSET failed
    BY <1>5, <2>1 DEF Active, Heartbeat
  <2>. QED BY <2>1, <2>2 DEF LeaseNext
<1>6. ASSUME NEW n \in Node, Sweep(n) PROVE UNCHANGED keys
  BY <1>6 DEF Sweep, SweepRows, SweepLeases, RequeueZombie, DispatchZombie, SweepStep
<1>7. ASSUME NEW n \in Node, Crash(n) \/ Restart(n) \/ ShutDown(n) \/ Exit(n) PROVE UNCHANGED keys
  BY <1>7 DEF Crash, Restart, ShutDown, Exit, Dies
<1>8. ASSUME NEW n, NEW t, PauseLost(n, t) \/ Ready(n, t) \/ Complete(n, t) \/ Fail(n, t)
      PROVE  UNCHANGED keys
  BY <1>8 DEF PauseLost, Ready, Complete, Fail, TorrentStep
<1>9. CASE PassTime
  BY <1>9 DEF PassTime, LeaseNext
<1>10. CASE UNCHANGED vars
  BY <1>10 DEF vars
<1>. QED BY <1>1, <1>2, <1>3, <1>4, <1>5, <1>6, <1>7, <1>8, <1>9, <1>10 DEF FleetNext

(* The fleet is a user of the lease manager: whatever its processes do, crash and
   deliver twice, the keys behave as module Lease says. *)
THEOREM FleetUsesLease == FleetSpec => LeaseSpec
<1>1. FleetInit => LeaseInit
  BY DEF FleetInit
<1>. QED BY <1>1, FleetStart, FleetKeeps, ReadsKeep, FleetStepsLease, PTL DEF FleetSpec, LeaseSpec

(* At least once: a directive is acknowledged by whoever handled it, and only then.
   Whatever a process has in hand is still the head of the log of its partition,
   which no other process has in hand, unless the partition was given to another. *)
THEOREM HandledIsHead == FleetSpec => []InHand(jobs, consumer, bus)
<1>1. FleetInv => InHand(jobs, consumer, bus)
  BY DEF FleetInv, LogOK
<1>. QED BY <1>1, FleetStart, FleetKeeps, ReadsKeep, PTL DEF FleetSpec

(* The two keys of a transfer live together in the fleet. *)
THEOREM FleetKeysTogether == FleetSpec => []KeysLiveTogether
BY FleetUsesLease, KeysAlwaysTogether, PTL

(* In the fleet, too, a transfer has one holder at a time, who gets the lease only
   when nobody holds it. *)
THEOREM FleetKeepsOwnership == FleetSpec => ImplementsOwnership
BY FleetUsesLease, LeaseImplementsOwnership, PTL

(* Types of the rows, torrents, logs, directives in hand, requests and sweeps. *)
THEOREM FleetTypeCorrect == FleetSpec => []FleetTypeOK
<1>1. FleetInv /\ ReadsOK /\ LeaseTypeOK => FleetTypeOK
  BY DEF FleetInv, RowsOK, TorrentsOK, ProcessesOK, LogOK, CallsOK, SweepOK, BudgetOK, Budgets,
         InHand, ReadsOK, FleetTypeOK
<1>. QED BY <1>1, FleetStart, FleetKeeps, ReadsKeep, FleetUsesLease, LeaseTypeCorrect, PTL DEF FleetSpec
=============================================================================
