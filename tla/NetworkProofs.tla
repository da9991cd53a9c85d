--------------------------- MODULE NetworkProofs ----------------------------
(***************************************************************************)
(* Proofs about the two parts that talk to other hosts, for any finite set *)
(* of them.  The DHT client: a query that is not settled has its timer     *)
(* running, whatever transaction ids were drawn; the property is inductive *)
(* together with the types.  The pool of peer connections: the two counts  *)
(* it decides by cover what they count.  There the invariant counts what   *)
(* the code does not: the connections of an ip that are on their way, the  *)
(* bits of open connections that are not active any more, the connections  *)
(* that have not told their pieces yet.                                    *)
(***************************************************************************)
EXTENDS Dht, PeerPool, SequenceFacts

DhtInv == DhtTypeOK /\ NobodyWaitsForEver

(* Writing a finite set of nodes as a sequence leaves out nobody. *)
LEMMA OrderFacts ==
  ASSUME NEW S, IsFiniteSet(S)
  PROVE  /\ Cardinality(S) \in Nat /\ SetToSeq(S) \in [1..Cardinality(S) -> S]
         /\ SetToSeq(S) \in Seq(S) /\ Len(SetToSeq(S)) = Cardinality(S)
<1>1. Cardinality(S) \in Nat
  BY FS_CardinalityType
<1>2. \E f \in [1..Cardinality(S) -> S] : IsInjective(f)
  <2>1. PICK f \in Bijection(1..Cardinality(S), S) : TRUE
    BY FS_CardinalityType DEF ExistsBijection
  <2>. QED BY <2>1 DEF Bijection, Injection
<1>3. SetToSeq(S) \in [1..Cardinality(S) -> S]
  BY <1>2 DEF SetToSeq
<1>. QED BY <1>1, <1>3, FunctionIsSeq

(* The table without a node. *)
LEMMA WithoutFacts ==
  ASSUME table \in Seq(DNode), IsInjective(table), NEW n
  PROVE  /\ TableWithout(n) \in Seq(DNode) /\ Len(TableWithout(n)) <= Len(table)
         /\ IsInjective(TableWithout(n)) /\ n \notin ToSet(TableWithout(n))
         /\ n \in ToSet(table) => Len(TableWithout(n)) < Len(table)
<1>1. CASE n \notin ToSet(table)
  BY <1>1 DEF TableWithout
<1>2. CASE n \in ToSet(table)
  <2>. DEFINE i == CHOOSE j \in DOMAIN table : table[j] = n
  <2>1. i \in DOMAIN table /\ table[i] = n
    BY <1>2 DEF ToSet
  <2>2. TableWithout(n) = RemoveAt(table, i)
    BY <1>2 DEF TableWithout
  <2>. HIDE DEF i
  <2>3. \A j, k \in DOMAIN table : table[j] = table[k] => j = k
    BY DEF IsInjective
  <2>4. TableWithout(n) \in Seq(DNode) /\ Len(TableWithout(n)) = Len(table) - 1
    BY <2>1, <2>2, RemoveAtFacts
  <2>5. IsInjective(TableWithout(n)) /\ ToSet(TableWithout(n)) = ToSet(table) \ {n}
    BY <2>1, <2>2, <2>3, RemoveAtInjective DEF IsInjective
  <2>. QED BY <2>4, <2>5
<1>. QED BY <1>1, <1>2

(* _addNode keeps the table within its size and without repetitions. *)
LEMMA AddedFacts ==
  ASSUME table \in Seq(DNode), Len(table) <= TableSize, IsInjective(table), NEW n \in DNode
  PROVE  Added(n) \in Seq(DNode) /\ Len(Added(n)) <= TableSize /\ IsInjective(Added(n))
<1>1. ASSUME NEW s \in Seq(DNode), Len(s) < TableSize, IsInjective(s), n \notin ToSet(s)
      PROVE  /\ Append(s, n) \in Seq(DNode) /\ Len(Append(s, n)) <= TableSize
             /\ IsInjective(Append(s, n))
  <2>1. DOMAIN s = 1..Len(s) /\ Len(s) \in Nat /\ \A i \in 1..Len(s) : s[i] # n
    BY <1>1 DEF ToSet
  <2>2. /\ Append(s, n) \in Seq(DNode) /\ Len(Append(s, n)) = Len(s) + 1
        /\ \A i \in 1..Len(s) : Append(s, n)[i] = s[i]
        /\ Append(s, n)[Len(s) + 1] = n
    BY AppendProperties
  <2>3. DOMAIN Append(s, n) = 1..Len(s) + 1
    BY <2>2, LenProperties
  <2>4. \A i, j \in 1..Len(s) + 1 : Append(s, n)[i] = Append(s, n)[j] => i = j
    <3>. TAKE i, j \in 1..Len(s) + 1
    <3>1. CASE i \in 1..Len(s) /\ j \in 1..Len(s)
      BY <1>1, <2>1, <2>2, <3>1 DEF IsInjective
    <3>2. CASE i = Len(s) + 1 \/ j = Len(s) + 1
      BY <2>1, <2>2, <3>2
    <3>. QED BY <2>1, <3>1, <3>2
  <2>. QED BY <1>1, <2>1, <2>2, <2>3, <2>4, DhtAssumption DEF IsInjective
<1>. DEFINE l == Len(table)
<1>0. DOMAIN table = 1..l /\ l \in Nat /\ l <= TableSize /\ TableSize \in Nat \ {0}
  BY DhtAssumption
<1>2. CASE n \notin ToSet(table) /\ l >= TableSize
  <2>1. table # <<>>
    BY <1>0, <1>2, EmptySeq
  <2>2. /\ Tail(table) \in Seq(DNode) /\ Len(Tail(table)) = l - 1
        /\ \A i \in 1..l - 1 : Tail(table)[i] = table[i + 1]
    BY <2>1, HeadTailProperties
  <2>3. DOMAIN Tail(table) = 1..l - 1
    BY <2>2, LenProperties
  <2>4. IsInjective(Tail(table))
    <3>. SUFFICES ASSUME NEW i \in 1..l - 1, NEW j \in 1..l - 1, Tail(table)[i] = Tail(table)[j]
                  PROVE  i = j
      BY <2>3 DEF IsInjective
    <3>1. i + 1 \in DOMAIN table /\ j + 1 \in DOMAIN table
      BY <1>0
    <3>2. i + 1 = j + 1
      BY <2>2, <3>1 DEF IsInjective
    <3>. QED BY <3>2
  <2>5. n \notin ToSet(Tail(table))
    <3>1. \A i \in 1..l - 1 : i + 1 \in DOMAIN table
      BY <1>0
    <3>. QED BY <1>2, <2>2, <2>3, <3>1 DEF ToSet
  <2>6. Len(Tail(table)) < TableSize
    BY <1>0, <2>2
  <2>. QED BY <1>1, <1>2, <2>2, <2>4, <2>5, <2>6 DEF Added
<1>3. CASE ~(n \notin ToSet(table) /\ l >= TableSize)
  <2>1. Len(TableWithout(n)) < TableSize
    <3>1. CASE n \in ToSet(table)
      BY <1>0, <3>1, WithoutFacts
    <3>2. CASE n \notin ToSet(table)
      BY <1>0, <1>3, <3>2 DEF TableWithout
    <3>. QED BY <3>1, <3>2
  <2>. QED BY <1>1, <1>3, <2>1, WithoutFacts DEF Added
<1>. QED BY <1>2, <1>3
-----------------------------------------------------------------------------
(* Sending queries keeps the invariant: each new one waits with its timer running, or
   has failed at once, and the last one under an id has the entry of pending. *)
LEMMA SendFacts ==
  ASSUME DhtInv, NEW nodes \in SUBSET DNode,
         NEW for \in {"boot", "lookup", "announce", "health"},
         NEW tids \in [1..Cardinality(nodes) -> Tid], SendQueries(nodes, for, tids)
  PROVE  /\ queries' \in Seq(Query) /\ queryTimers' \subseteq DOMAIN queries'
         /\ pending' \in [Tid -> {0} \union DOMAIN queries']
         /\ NobodyWaitsForEver'
<1>. DEFINE order == SetToSeq(nodes)
            c == Cardinality(nodes)
            l == Len(queries)
            state == IF phase = "stopped" THEN "failed" ELSE "waiting"
            new == [i \in DOMAIN order |->
                      [tid |-> tids[i], node |-> order[i], for |-> for, state |-> state]]
            last(t) == {i \in DOMAIN order : tids[i] = t}
<1>0. /\ queries \in Seq(Query) /\ DOMAIN queries = 1..l /\ l \in Nat
      /\ queryTimers \subseteq 1..l /\ pending \in [Tid -> {0} \union 1..l]
  BY DEF DhtInv, DhtTypeOK
<1>1. c \in Nat /\ DOMAIN order = 1..c /\ \A i \in 1..c : order[i] \in DNode
  <2>1. IsFiniteSet(nodes)
    BY DhtAssumption, FS_Subset
  <2>. QED BY <2>1, OrderFacts
<1>2. /\ queries' = queries \o new
      /\ phase = "stopped" => UNCHANGED <<queryTimers, pending>>
      /\ phase # "stopped" =>
           /\ queryTimers' = queryTimers \union {l + i : i \in DOMAIN order}
           /\ pending' = [t \in Tid |-> IF last(t) = {} THEN pending[t] ELSE l + Max(last(t))]
  BY DEF SendQueries
<1>. HIDE DEF order, c
<1>3. new \in [1..c -> Query] /\ \A i \in 1..c : new[i].tid = tids[i] /\ new[i].state = state
  <2>1. /\ new = [i \in 1..c |-> [tid |-> tids[i], node |-> order[i], for |-> for, state |-> state]]
        /\ tids \in [1..c -> Tid] /\ state \in {"waiting", "failed"}
    BY <1>1 DEF c
  <2>. HIDE DEF new, state
  <2>2. \A i \in 1..c : [tid |-> tids[i], node |-> order[i], for |-> for, state |-> state] \in Query
    BY <1>1, <2>1 DEF Query
  <2>3. \A i \in 1..c : new[i] = [tid |-> tids[i], node |-> order[i], for |-> for, state |-> state]
    BY <2>1
  <2>. QED BY <2>1, <2>2, <2>3
<1>. HIDE DEF new
<1>4. new \in Seq(Query) /\ Len(new) = c
  BY <1>1, <1>3, FunctionIsSeq
<1>5. /\ queries' \in Seq(Query) /\ DOMAIN queries' = 1..l + c
      /\ \A q \in 1..l : queries'[q] = queries[q]
      /\ \A q \in 1..l + c : q > l => q - l \in 1..c /\ queries'[q] = new[q - l]
  <2>1. /\ queries' \in Seq(Query) /\ DOMAIN queries' = 1..l + c
        /\ \A q \in 1..l + c : queries'[q] = IF q <= l THEN queries[q] ELSE new[q - l]
    BY <1>0, <1>2, <1>4, ConcatFacts
  <2>. HIDE DEF l
  <2>. QED BY <1>0, <1>1, <2>1
<1>6. /\ \A q \in 1..l : queries[q].state = "waiting" => q \in queryTimers
      /\ \A t \in Tid : pending[t] # 0 =>
           queries[pending[t]].state = "waiting" /\ queries[pending[t]].tid = t
  BY <1>0 DEF DhtInv, NobodyWaitsForEver
<1>. HIDE DEF l
<1>7. CASE phase = "stopped"
  <2>1. ASSUME NEW q \in DOMAIN queries', queries'[q].state = "waiting" PROVE q \in queryTimers'
    <3>1. q <= l
      <4>1. q > l => queries'[q].state = state
        BY <1>3, <1>5
      <4>2. state = "failed"
        BY <1>7
      <4>. QED BY <1>0, <1>1, <1>5, <2>1, <4>1, <4>2
    <3>2. q \in 1..l /\ queries'[q] = queries[q]
      BY <1>0, <1>1, <1>5, <3>1
    <3>3. q \in queryTimers
      BY <1>6, <2>1, <3>2
    <3>. QED BY <1>2, <1>7, <3>3
  <2>2. 1..l \subseteq DOMAIN queries'
    BY <1>0, <1>1, <1>5
  <2>3. queryTimers' = queryTimers /\ pending' = pending
    BY <1>2, <1>7
  <2>4. queryTimers' \subseteq DOMAIN queries' /\ pending' \in [Tid -> {0} \union DOMAIN queries']
    BY <1>0, <2>2, <2>3
  <2>5. ASSUME NEW t \in Tid, pending'[t] # 0
        PROVE  queries'[pending'[t]].state = "waiting" /\ queries'[pending'[t]].tid = t
    <3>1. pending'[t] = pending[t] /\ pending[t] \in 1..l
      BY <1>0, <2>3, <2>5
    <3>. QED BY <1>5, <1>6, <2>5, <3>1
  <2>. QED BY <1>5, <2>1, <2>4, <2>5 DEF NobodyWaitsForEver
<1>8. CASE phase # "stopped"
  <2>1. ASSUME NEW q \in DOMAIN queries', queries'[q].state = "waiting" PROVE q \in queryTimers'
    <3>1. CASE q <= l
      BY <1>0, <1>2, <1>5, <1>6, <1>8, <2>1, <3>1
    <3>2. CASE q > l
      <4>1. q - l \in DOMAIN order /\ q = l + (q - l)
        BY <1>0, <1>1, <1>5, <3>2
      <4>. QED BY <1>2, <1>8, <4>1
    <3>. QED BY <1>0, <1>1, <1>5, <3>1, <3>2
  <2>2. ASSUME NEW t \in Tid
        PROVE  /\ pending'[t] \in {0} \union 1..l + c
               /\ pending'[t] # 0 =>
                    queries'[pending'[t]].state = "waiting" /\ queries'[pending'[t]].tid = t
    <3>1. CASE last(t) = {}
      <4>1. pending'[t] = pending[t] /\ pending[t] \in {0} \union 1..l
        BY <1>0, <1>2, <1>8, <3>1
      <4>. QED BY <1>0, <1>1, <1>5, <1>6, <4>1
    <3>2. CASE last(t) # {}
      <4>. DEFINE m == Max(last(t))
      <4>1. m \in 1..c /\ tids[m] = t
        <5>1. last(t) \in SUBSET (1..c)
          BY <1>1
        <5>2. m \in last(t)
          BY <1>1, <3>2, <5>1, MaxFacts
        <5>. QED BY <1>1, <5>2
      <4>2. pending'[t] = l + m
        BY <1>2, <1>8, <3>2
      <4>. HIDE DEF m
      <4>3. l + m \in 1..l + c /\ l + m > l /\ (l + m) - l = m
        BY <1>0, <1>1, <4>1
      <4>4. queries'[l + m] = new[m]
        BY <1>5, <4>3
      <4>. QED BY <1>3, <1>8, <4>1, <4>2, <4>3, <4>4
    <3>. QED BY <3>1, <3>2
  <2>3. queryTimers' \subseteq DOMAIN queries'
    <3>1. \A i \in DOMAIN order : l + i \in 1..l + c
      BY <1>0, <1>1
    <3>2. \A q \in 1..l : q \in 1..l + c
      BY <1>0, <1>1
    <3>. QED BY <1>0, <1>2, <1>5, <1>8, <3>1, <3>2
  <2>4. pending' \in [Tid -> {0} \union DOMAIN queries']
    <3>1. pending' = [t \in Tid |-> IF last(t) = {} THEN pending[t] ELSE l + Max(last(t))]
      BY <1>2, <1>8
    <3>. HIDE DEF last
    <3>2. \A t \in Tid : pending'[t] = IF last(t) = {} THEN pending[t] ELSE l + Max(last(t))
      BY <3>1
    <3>. QED BY <1>5, <2>2, <3>1, <3>2
  <2>. QED BY <1>5, <2>1, <2>2, <2>3, <2>4 DEF NobodyWaitsForEver
<1>. QED BY <1>7, <1>8

(* A node that has not started waits for nobody. *)
LEMMA DhtStart == DhtInit => DhtInv
<1>. SUFFICES ASSUME DhtInit PROVE DhtInv
  OBVIOUS
<1>1. /\ table = <<>> /\ DOMAIN table = {} /\ table \in Seq(DNode) /\ Len(table) = 0
      /\ queries = <<>> /\ DOMAIN queries = {} /\ queries \in Seq(Query)
  BY EmptySeq DEF DhtInit
<1>2. DhtTypeOK
  BY <1>1, DhtAssumption DEF DhtInit, DhtTypeOK, IsInjective
<1>3. NobodyWaitsForEver
  BY <1>1 DEF DhtInit, NobodyWaitsForEver
<1>. QED BY <1>2, <1>3 DEF DhtInv

(* Settling a query and clearing its timer: by its own timer, or when pending led to
   it.  Its entry of pending, if it still has it, is cleared with it. *)
LEMMA SettleFacts ==
  ASSUME DhtInv, NEW q \in DOMAIN queries, NEW state \in {"answered", "failed", "stranded"},
         Settled(q, state), queryTimers' = queryTimers \ {q},
         pending' = [pending EXCEPT ![queries[q].tid] = 0]
  PROVE  /\ queries' \in Seq(Query) /\ queryTimers' \subseteq DOMAIN queries'
         /\ pending' \in [Tid -> {0} \union DOMAIN queries']
         /\ NobodyWaitsForEver'
<1>1. /\ queries \in Seq(Query) /\ DOMAIN queries = 1..Len(queries) /\ Len(queries) \in Nat
      /\ queryTimers \subseteq DOMAIN queries /\ pending \in [Tid -> {0} \union DOMAIN queries]
      /\ \A p \in DOMAIN queries : queries[p] \in Query
  BY DEF DhtInv, DhtTypeOK
<1>. DEFINE e == [queries[q] EXCEPT !.state = state]
<1>2. e \in Query /\ e.state = state /\ e.tid = queries[q].tid /\ queries[q].tid \in Tid
  BY <1>1 DEF Query
<1>3. queries' = [queries EXCEPT ![q] = e]
  BY DEF Settled
<1>. HIDE DEF e
<1>4. /\ queries' \in Seq(Query) /\ DOMAIN queries' = DOMAIN queries
      /\ \A p \in DOMAIN queries : queries'[p] = IF p = q THEN e ELSE queries[p]
  BY <1>1, <1>2, <1>3, ExceptSeq
<1>5. pending' \in [Tid -> {0} \union DOMAIN queries']
  BY <1>1, <1>2, <1>4
<1>6. /\ \A p \in DOMAIN queries : queries[p].state = "waiting" => p \in queryTimers
      /\ \A t \in Tid : pending[t] # 0 =>
           queries[pending[t]].state = "waiting" /\ queries[pending[t]].tid = t
  BY DEF DhtInv, NobodyWaitsForEver
<1>7. \A p \in DOMAIN queries' : queries'[p].state = "waiting" => p \in queryTimers'
  BY <1>2, <1>4, <1>6
<1>8. ASSUME NEW t \in Tid, pending'[t] # 0
      PROVE  queries'[pending'[t]].state = "waiting" /\ queries'[pending'[t]].tid = t
  <2>1. t # queries[q].tid /\ pending'[t] = pending[t] /\ pending[t] \in DOMAIN queries
    BY <1>1, <1>2, <1>8
  <2>2. pending[t] # q
    BY <1>6, <2>1, <1>8
  <2>. QED BY <1>4, <1>6, <1>8, <2>1, <2>2
<1>. QED BY <1>1, <1>4, <1>5, <1>7, <1>8 DEF NobodyWaitsForEver

(* Every step keeps the invariant. *)
LEMMA DhtKeeps == DhtInv /\ [DhtNext]_dhtVars => DhtInv'
<1>. SUFFICES ASSUME DhtInv, [DhtNext]_dhtVars PROVE DhtInv'
  OBVIOUS
<1>0. DhtTypeOK /\ NobodyWaitsForEver
  BY DEF DhtInv
<1>q. /\ queries \in Seq(Query) /\ \A q \in DOMAIN queries : queries[q] \in Query
      /\ queryTimers \subseteq DOMAIN queries /\ pending \in [Tid -> {0} \union DOMAIN queries]
  BY <1>0 DEF DhtTypeOK
<1>t. /\ table \in Seq(DNode) /\ Len(table) <= TableSize /\ IsInjective(table)
      /\ ToSet(table) \subseteq DNode
  BY <1>0 DEF DhtTypeOK, ToSet
<1>n. \A nodes, i : Nearest(nodes, i) \subseteq nodes
  BY DEF Nearest
<1>u. ASSUME NEW n PROVE TableWithout(n) \in Seq(DNode) /\ Len(TableWithout(n)) <= TableSize
                         /\ IsInjective(TableWithout(n))
  BY <1>t, WithoutFacts, DhtAssumption
<1>h. ASSUME NEW q PROVE Unhealthy(q) \in Seq(DNode) /\ Len(Unhealthy(q)) <= TableSize
                         /\ IsInjective(Unhealthy(q))
  BY <1>t, <1>u DEF Unhealthy
<1>1. CASE Bootstrapped
  <2>1. Nearest(ToSet(table), Alpha) \subseteq DNode
    BY <1>t, <1>n
  <2>. QED BY <1>0, <1>1, <2>1 DEF Bootstrapped, DhtInv, DhtTypeOK, NobodyWaitsForEver, lookupVars, queryVars
<1>2. CASE RoundSettles
  BY <1>0, <1>2 DEF RoundSettles, DhtInv, DhtTypeOK, NobodyWaitsForEver, queryVars
<1>3. CASE StopNode
  <2>. DEFINE rejected == {pending[t] : t \in Tid} \ {0}
              failed(q) == [queries[q] EXCEPT !.state = "failed"]
  <2>1. /\ queries' = [q \in DOMAIN queries |-> IF q \in rejected THEN failed(q) ELSE queries[q]]
        /\ queryTimers' = queryTimers \ rejected
        /\ pending' = [t \in Tid |-> 0]
        /\ phase' = "stopped" /\ UNCHANGED <<table, lookupVars>>
    BY <1>3 DEF StopNode
  <2>. HIDE DEF rejected
  <2>2. \A q \in DOMAIN queries : failed(q) \in Query /\ failed(q).state = "failed"
    BY <1>q DEF Query
  <2>. HIDE DEF failed
  <2>3. /\ queries' \in Seq(Query) /\ DOMAIN queries' = DOMAIN queries
        /\ \A q \in DOMAIN queries :
             queries'[q].state = "waiting" => queries[q].state = "waiting" /\ q \notin rejected
    <3>1. DOMAIN queries = 1..Len(queries) /\ Len(queries) \in Nat
      BY <1>q
    <3>2. queries' \in [1..Len(queries) -> Query]
      BY <1>q, <2>1, <2>2, <3>1
    <3>3. \A q \in DOMAIN queries : queries'[q] = IF q \in rejected THEN failed(q) ELSE queries[q]
      BY <2>1
    <3>. QED BY <2>2, <3>1, <3>2, <3>3, FunctionIsSeq
  <2>4. NobodyWaitsForEver'
    BY <1>0, <2>1, <2>3 DEF NobodyWaitsForEver
  <2>5. queryTimers' \subseteq DOMAIN queries' /\ pending' \in [Tid -> {0} \union DOMAIN queries']
    BY <1>q, <2>1, <2>3
  <2>. QED BY <1>0, <2>1, <2>3, <2>4, <2>5 DEF DhtInv, DhtTypeOK, lookupVars
<1>4. ASSUME NEW for \in {"get", "announce", "find"}, StartLookup(for) PROVE DhtInv'
  <2>1. Nearest(ToSet(table), Alpha) \subseteq DNode
    BY <1>t, <1>n
  <2>. QED BY <1>0, <1>4, <2>1, DhtAssumption DEF StartLookup, DhtInv, DhtTypeOK, NobodyWaitsForEver, queryVars
<1>5. ASSUME NEW tids \in [1..Cardinality(BootNode) -> Tid], StartNode(tids) PROVE DhtInv'
  <2>1. SendQueries(BootNode, "boot", tids) /\ phase' = "bootstrap" /\ UNCHANGED <<table, lookupVars>>
    BY <1>5 DEF StartNode
  <2>2. /\ queries' \in Seq(Query) /\ queryTimers' \subseteq DOMAIN queries'
        /\ pending' \in [Tid -> {0} \union DOMAIN queries'] /\ NobodyWaitsForEver'
    BY <2>1, SendFacts, DhtAssumption
  <2>. QED BY <1>0, <2>1, <2>2 DEF DhtInv, DhtTypeOK, lookupVars
<1>6. ASSUME NEW tids \in [1..Cardinality(NextToAsk) -> Tid], QueryNearest(tids) PROVE DhtInv'
  <2>1. NextToAsk \in SUBSET DNode
    BY <1>0, <1>n DEF NextToAsk, DhtTypeOK
  <2>2. SendQueries(NextToAsk, "lookup", tids) /\ iteration # MaxIterations
    BY <1>6 DEF QueryNearest, LoopEnds
  <2>3. /\ queries' \in Seq(Query) /\ queryTimers' \subseteq DOMAIN queries'
        /\ pending' \in [Tid -> {0} \union DOMAIN queries'] /\ NobodyWaitsForEver'
    BY <2>1, <2>2, SendFacts
  <2>4. iteration + 1 \in 0..MaxIterations
    BY <1>0, <2>2, DhtAssumption DEF DhtTypeOK
  <2>. QED BY <1>0, <1>6, <2>1, <2>3, <2>4 DEF QueryNearest, DhtInv, DhtTypeOK
<1>7. ASSUME NEW tids \in [1..Cardinality(Announcees) -> Tid], LookupEnds(tids) PROVE DhtInv'
  <2>1. Announcees \in SUBSET DNode
    BY <1>0 DEF Announcees, DhtTypeOK
  <2>2. SendQueries(Announcees, "announce", tids)
    BY <1>7 DEF LookupEnds
  <2>3. /\ queries' \in Seq(Query) /\ queryTimers' \subseteq DOMAIN queries'
        /\ pending' \in [Tid -> {0} \union DOMAIN queries'] /\ NobodyWaitsForEver'
    BY <2>1, <2>2, SendFacts
  <2>. QED BY <1>0, <1>7, <2>3 DEF LookupEnds, DhtInv, DhtTypeOK
<1>8. ASSUME NEW n \in DNode, NEW tids \in [1..1 -> Tid], CheckNodeHealth(n, tids) PROVE DhtInv'
  <2>1. Cardinality({n}) = 1 /\ SendQueries({n}, "health", tids)
    BY <1>8, FS_Singleton DEF CheckNodeHealth
  <2>2. /\ queries' \in Seq(Query) /\ queryTimers' \subseteq DOMAIN queries'
        /\ pending' \in [Tid -> {0} \union DOMAIN queries'] /\ NobodyWaitsForEver'
    BY <2>1, SendFacts
  <2>. QED BY <1>0, <1>8, <2>2 DEF CheckNodeHealth, DhtInv, DhtTypeOK, lookupVars
<1>9. ASSUME NEW q \in DOMAIN queries, QueryTimeout(q) PROVE DhtInv'
  <2>1. /\ queries' \in Seq(Query) /\ queryTimers' \subseteq DOMAIN queries'
        /\ pending' \in [Tid -> {0} \union DOMAIN queries'] /\ NobodyWaitsForEver'
    BY <1>9, SettleFacts DEF QueryTimeout
  <2>. QED BY <1>0, <1>9, <1>h, <2>1 DEF QueryTimeout, DhtInv, DhtTypeOK, lookupVars
<1>10. ASSUME NEW t \in Tid, ErrorMessage(t) PROVE DhtInv'
  <2>1. pending[t] \in DOMAIN queries /\ queries[pending[t]].tid = t
    BY <1>0, <1>q, <1>10 DEF ErrorMessage, NobodyWaitsForEver
  <2>2. /\ queries' \in Seq(Query) /\ queryTimers' \subseteq DOMAIN queries'
        /\ pending' \in [Tid -> {0} \union DOMAIN queries'] /\ NobodyWaitsForEver'
    BY <1>10, <2>1, SettleFacts DEF ErrorMessage
  <2>. QED BY <1>0, <1>10, <1>h, <2>2 DEF ErrorMessage, DhtInv, DhtTypeOK, lookupVars
<1>11. ASSUME NEW t \in Tid, NEW from \in DNode, HandleResponse(t, from) PROVE DhtInv'
  <2>1. pending[t] \in DOMAIN queries /\ queries[pending[t]].tid = t /\ queries[pending[t]].node \in DNode
    BY <1>0, <1>q, <1>11 DEF HandleResponse, NobodyWaitsForEver, Query
  <2>2. /\ queries' \in Seq(Query) /\ queryTimers' \subseteq DOMAIN queries'
        /\ pending' \in [Tid -> {0} \union DOMAIN queries'] /\ NobodyWaitsForEver'
    BY <1>11, <2>1, SettleFacts DEF HandleResponse
  <2>3. table' \in Seq(DNode) /\ Len(table') <= TableSize /\ IsInjective(table')
    BY <1>t, <1>11, AddedFacts DEF HandleResponse
  <2>4. /\ allNodes' \union queried' \union tokens' \subseteq DNode /\ noProgress' \in Nat
        /\ closest' \in DNode \union {"none"}
    BY <1>0, <1>11, <2>1, DhtAssumption DEF HandleResponse, DhtTypeOK
  <2>. QED BY <1>0, <1>11, <2>2, <2>3, <2>4 DEF HandleResponse, DhtInv, DhtTypeOK
<1>15. ASSUME NEW t \in Tid, MalformedMessage(t) PROVE DhtInv'
  <2>1. pending[t] \in DOMAIN queries /\ queries[pending[t]].tid = t
    BY <1>0, <1>q, <1>15 DEF MalformedMessage, NobodyWaitsForEver
  <2>2. /\ queries' \in Seq(Query) /\ queryTimers' \subseteq DOMAIN queries'
        /\ pending' \in [Tid -> {0} \union DOMAIN queries'] /\ NobodyWaitsForEver'
    BY <1>15, <2>1, SettleFacts DEF MalformedMessage
  <2>. QED BY <1>0, <1>15, <2>2 DEF MalformedMessage, DhtInv, DhtTypeOK, lookupVars
<1>12. ASSUME NEW n \in DNode, HandleQuery(n) PROVE DhtInv'
  <2>1. Added(n) \in Seq(DNode) /\ Len(Added(n)) <= TableSize /\ IsInjective(Added(n))
    BY <1>t, AddedFacts
  <2>. QED BY <1>0, <1>12, <2>1 DEF HandleQuery, DhtInv, DhtTypeOK, NobodyWaitsForEver, queryVars, lookupVars
<1>13. ASSUME NEW n \in DNode, ExpireToken(n) PROVE DhtInv'
  BY <1>0, <1>13 DEF ExpireToken, DhtInv, DhtTypeOK, NobodyWaitsForEver, queryVars
<1>14. CASE UNCHANGED dhtVars
  BY <1>0, <1>14 DEF dhtVars, DhtInv, DhtTypeOK, NobodyWaitsForEver
<1>. QED BY <1>1, <1>2, <1>3, <1>4, <1>5, <1>6, <1>7, <1>8, <1>9, <1>10, <1>11, <1>12, <1>13, <1>14, <1>15 DEF DhtNext

(* Types of the DHT client: the routing table stays within its size, each node once. *)
THEOREM DhtTypeCorrect == DhtSpec => []DhtTypeOK
<1>1. DhtInv => DhtTypeOK
  BY DEF DhtInv
<1>. QED BY <1>1, DhtStart, DhtKeeps, PTL DEF DhtSpec

(* A query that is not settled has its timer running, unless a malformed message was
   matched to it; and an entry of pending leads to a query that still waits under that
   id. *)
THEOREM EveryQueryIsTimed == DhtSpec => []NobodyWaitsForEver
<1>1. DhtInv => NobodyWaitsForEver
  BY DEF DhtInv
<1>. QED BY <1>1, DhtStart, DhtKeeps, PTL DEF DhtSpec
-----------------------------------------------------------------------------
(* How the connections, the active ones and the records belong together. *)
ConnOK(c) ==
  /\ conns[c] \in Connection
  /\ conns[c].phase \in {"dialing", "open"} => ~conns[c].told /\ ~conns[c].bit
  /\ conns[c].phase = "dialing" /\ conns[c].settled => IpOf[conns[c].key] \in slow
  /\ conns[c].phase = "closing" /\ conns[c].bit => conns[c].key \notin DOMAIN active
ActiveOK ==
  /\ DOMAIN active \subseteq Peer /\ (destroyed => DOMAIN active = {})
  /\ \A k \in DOMAIN active :
       active[k] \in DOMAIN conns /\ conns[active[k]].key = k /\ conns[active[k]].phase = "up"
RecordsOK ==
  /\ slots \in [Ip -> 0..MaxPerIp] /\ (\A i \in Ip : slots[i] <= dials)
  /\ count \in Nat
  /\ failures \in [Peer -> -1..MaxFailures] /\ timers \subseteq Peer
  /\ strikes \in [Peer -> 0..MaxStrikes]
  /\ destroyed \in BOOLEAN /\ slow \subseteq Ip
PoolShape ==
  /\ DOMAIN conns \subseteq 1..dials /\ dials \in 0..MaxDials
  /\ \A c \in DOMAIN conns : ConnOK(c)
  /\ ActiveOK /\ RecordsOK
-----------------------------------------------------------------------------
(* A dial: the new connection has a number of its own and takes a slot. *)
LEMMA DialShape ==
  ASSUME PoolShape, NEW k \in Peer, Dial(k),
         UNCHANGED <<active, count, failures, strikes, destroyed, slow>>, timers' \subseteq Peer
  PROVE  PoolShape'
<1>1. CASE UNCHANGED <<conns, dials, slots>>
  BY <1>1 DEF PoolShape, ConnOK, ActiveOK, RecordsOK
<1>2. CASE ~UNCHANGED <<conns, dials, slots>>
  <2>. DEFINE e == [key |-> k, phase |-> "dialing", told |-> FALSE, bit |-> FALSE,
                    settled |-> FALSE, timed |-> TRUE]
  <2>1. /\ dials < MaxDials /\ dials' = dials + 1 /\ slots[IpOf[k]] < MaxPerIp
        /\ conns' = Put(conns, dials + 1, e)
        /\ slots' = [slots EXCEPT ![IpOf[k]] = @ + 1]
    <3>1. ~(destroyed \/ k \in DOMAIN active \/ Banned(k) \/ slots[IpOf[k]] >= MaxPerIp)
      BY <1>2 DEF Dial
    <3>2. IpOf[k] \in Ip
      BY DEF Ip
    <3>3. slots[IpOf[k]] < MaxPerIp
      BY <3>1, <3>2, PeerPoolAssumption DEF PoolShape, RecordsOK
    <3>. QED BY <1>2, <3>1, <3>3 DEF Dial
  <2>2. e \in Connection /\ e.key = k /\ e.phase = "dialing" /\ ~e.told /\ ~e.bit /\ ~e.settled
    BY DEF Connection
  <2>. HIDE DEF e
  <2>3. dials \in Nat /\ MaxDials \in Nat /\ dials + 1 \notin DOMAIN conns
    BY PeerPoolAssumption DEF PoolShape
  <2>4. /\ DOMAIN conns' = DOMAIN conns \union {dials + 1} /\ conns'[dials + 1] = e
        /\ \A c \in DOMAIN conns : conns'[c] = conns[c]
    BY <2>1, <2>3 DEF Put
  <2>5. DOMAIN conns' \subseteq 1..dials' /\ dials' \in 0..MaxDials
    BY <2>1, <2>3, <2>4 DEF PoolShape
  <2>6. slots' \in [Ip -> 0..MaxPerIp] /\ \A i \in Ip : slots'[i] <= dials'
    <3>1. IpOf[k] \in Ip /\ slots \in [Ip -> 0..MaxPerIp] /\ MaxPerIp \in Nat
      BY PeerPoolAssumption DEF PoolShape, RecordsOK, Ip
    <3>2. slots[IpOf[k]] + 1 \in 0..MaxPerIp
      BY <2>1, <3>1
    <3>3. slots' \in [Ip -> 0..MaxPerIp]
      BY <2>1, <3>1, <3>2
    <3>4. \A i \in Ip : slots[i] \in Nat /\ slots[i] <= dials
      BY <3>1 DEF PoolShape, RecordsOK
    <3>5. \A i \in Ip : slots'[i] <= slots[i] + 1
      BY <2>1, <3>1, <3>4
    <3>. QED BY <2>1, <2>3, <3>1, <3>3, <3>4, <3>5
  <2>7. ActiveOK'
    BY <2>4 DEF PoolShape, ActiveOK
  <2>8. ASSUME NEW c \in DOMAIN conns' PROVE ConnOK(c)'
    BY <2>2, <2>4 DEF PoolShape, ConnOK
  <2>9. RecordsOK'
    BY <2>6 DEF PoolShape, RecordsOK
  <2>. QED BY <2>5, <2>7, <2>8, <2>9 DEF PoolShape
<1>. QED BY <1>1, <1>2

(* A connection changes and nothing else of the connections does. *)
LEMMA ChangeShape ==
  ASSUME PoolShape, NEW c \in DOMAIN conns, DOMAIN conns' = DOMAIN conns,
         \A x \in DOMAIN conns : x # c => conns'[x] = conns[x],
         conns'[c].key = conns[c].key, ConnOK(c)',
         conns[c].phase = "up" => conns'[c].phase = "up" \/ active' = Dropped(active, {conns[c].key}),
         active' = active \/ active' = Dropped(active, {conns[c].key}),
         dials' = dials, slow \subseteq slow', destroyed' = destroyed, RecordsOK'
  PROVE  PoolShape'
<1>1. DOMAIN active' \subseteq DOMAIN active /\ \A k \in DOMAIN active' : active'[k] = active[k]
  BY DEF Dropped
<1>2. ASSUME NEW k \in DOMAIN active'
      PROVE  /\ active'[k] \in DOMAIN conns' /\ conns'[active'[k]].key = k
             /\ conns'[active'[k]].phase = "up"
  <2>1. CASE active[k] # c
    BY <1>1, <2>1 DEF PoolShape, ActiveOK
  <2>2. CASE active[k] = c
    <3>1. conns[c].key = k /\ conns[c].phase = "up"
      BY <1>1, <2>2 DEF PoolShape, ActiveOK
    <3>. QED BY <1>1, <2>2, <3>1 DEF Dropped
  <2>. QED BY <2>1, <2>2
<1>3. ASSUME NEW x \in DOMAIN conns' PROVE ConnOK(x)'
  BY <1>1 DEF PoolShape, ConnOK
<1>4. ActiveOK'
  BY <1>1, <1>2 DEF PoolShape, ActiveOK
<1>. QED BY <1>3, <1>4 DEF PoolShape

(* A slot given back. *)
LEMMA FreedSlot ==
  ASSUME PoolShape, NEW k \in Peer, FreeSlot(k)
  PROVE  /\ slots' \in [Ip -> 0..MaxPerIp] /\ \A i \in Ip : slots'[i] <= slots[i]
         /\ \A i \in Ip : slots'[i] >= IF i = IpOf[k] THEN slots[i] - 1 ELSE slots[i]
<1>1. IpOf[k] \in Ip /\ slots \in [Ip -> 0..MaxPerIp] /\ MaxPerIp \in Nat
  BY PeerPoolAssumption DEF PoolShape, RecordsOK, Ip
<1>2. slots' = [slots EXCEPT ![IpOf[k]] = Minus1(slots[IpOf[k]])]
  BY DEF FreeSlot
<1>3. /\ Minus1(slots[IpOf[k]]) \in 0..MaxPerIp /\ Minus1(slots[IpOf[k]]) <= slots[IpOf[k]]
      /\ Minus1(slots[IpOf[k]]) >= slots[IpOf[k]] - 1
  BY <1>1 DEF Minus1
<1>4. \A i \in Ip : slots'[i] = IF i = IpOf[k] THEN Minus1(slots[IpOf[k]]) ELSE slots[i]
  BY <1>1, <1>2
<1>5. slots' \in [Ip -> 0..MaxPerIp]
  BY <1>1, <1>2, <1>3
<1>. QED BY <1>1, <1>3, <1>4, <1>5

(* What a socket that connects does to its connection. *)
LEMMA SocketConnectsFacts ==
  ASSUME PoolShape, NEW c \in DOMAIN conns, SocketConnects(c)
  PROVE  /\ DOMAIN conns' = DOMAIN conns /\ \A x \in DOMAIN conns : x # c => conns'[x] = conns[x]
         /\ conns'[c] \in Connection /\ conns'[c].key = conns[c].key /\ conns'[c].settled
         /\ conns'[c].told = conns[c].told /\ conns'[c].bit = conns[c].bit
         /\ conns'[c].phase \in {"open", "closing"}
<1>. DEFINE late == ~conns[c].settled /\ destroyed
            ph == IF late THEN "closing" ELSE "open"
            tm == conns[c].timed /\ ~late
<1>1. conns[c] \in Connection
  BY DEF PoolShape, ConnOK
<1>2. conns' = [conns EXCEPT ![c].phase = ph, ![c].settled = TRUE, ![c].timed = tm]
  BY DEF SocketConnects
<1>3. tm \in BOOLEAN /\ ph \in {"open", "closing"}
  OBVIOUS
<1>. HIDE DEF tm, ph
<1>. QED BY <1>1, <1>2, <1>3 DEF Connection

(* What a rejected connect() does to the records. *)
LEMMA RejectedFacts ==
  ASSUME PoolShape, NEW c \in DOMAIN conns, Rejected(c)
  PROVE  /\ slots' \in [Ip -> 0..MaxPerIp] /\ \A i \in Ip : slots'[i] <= slots[i]
         /\ failures' \in [Peer -> -1..MaxFailures] /\ timers' \subseteq Peer
         /\ \A i \in Ip : slots'[i] >= IF i = IpOf[conns[c].key] THEN slots[i] - 1 ELSE slots[i]
         /\ conns[c].settled => slots' = slots
<1>0. /\ conns[c].key \in Peer /\ failures \in [Peer -> -1..MaxFailures] /\ timers \subseteq Peer
      /\ slots \in [Ip -> 0..MaxPerIp]
  BY DEF PoolShape, ConnOK, RecordsOK, Connection
<1>1. CASE conns[c].settled
  BY <1>0, <1>1, PeerPoolAssumption DEF Rejected
<1>2. CASE ~conns[c].settled
  <2>. DEFINE k == conns[c].key
              new == IF failures[k] < 0 THEN 1
                     ELSE IF failures[k] < MaxFailures THEN failures[k] + 1 ELSE failures[k]
  <2>1. /\ failures' = [failures EXCEPT ![k] = new]
        /\ FreeSlot(k) /\ QueueReconnection(k)
    BY <1>2 DEF Rejected
  <2>2. new \in -1..MaxFailures
    BY <1>0, PeerPoolAssumption
  <2>. HIDE DEF new
  <2>3. failures' \in [Peer -> -1..MaxFailures]
    BY <1>0, <2>1, <2>2
  <2>4. timers' \subseteq Peer
    BY <1>0, <2>1 DEF QueueReconnection
  <2>. QED BY <1>0, <1>2, <2>1, <2>3, <2>4, FreedSlot
<1>. QED BY <1>1, <1>2

(* Every step keeps the connections, the active ones and the records together. *)
LEMMA ShapeStep == PoolShape /\ PoolNext => PoolShape'
<1>. SUFFICES ASSUME PoolShape, PoolNext PROVE PoolShape'
  OBVIOUS
<1>c. \A c \in DOMAIN conns : ConnOK(c) /\ conns[c] \in Connection /\ conns[c].key \in Peer
  BY DEF PoolShape, ConnOK, Connection
<1>r. /\ slots \in [Ip -> 0..MaxPerIp] /\ (\A i \in Ip : slots[i] <= dials)
      /\ (\A i \in Ip : slots[i] \in Nat)
      /\ count \in Nat /\ timers \subseteq Peer /\ dials \in Nat
      /\ failures \in [Peer -> -1..MaxFailures] /\ strikes \in [Peer -> 0..MaxStrikes]
      /\ destroyed \in BOOLEAN /\ slow \subseteq Ip /\ RecordsOK
  BY PeerPoolAssumption DEF PoolShape, RecordsOK
<1>i. \A k \in Peer : IpOf[k] \in Ip
  BY DEF Ip
<1>1. ASSUME NEW k \in Peer, ConnectToPeers(k) PROVE PoolShape'
  BY <1>1, <1>r, DialShape DEF ConnectToPeers
<1>2. ASSUME NEW k \in Peer, Reconnect(k) PROVE PoolShape'
  BY <1>2, <1>r, DialShape DEF Reconnect
<1>3. ASSUME NEW k \in Peer, BanExpires(k) PROVE PoolShape'
  <2>1. strikes' \in [Peer -> 0..MaxStrikes]
    BY <1>3, <1>r, PeerPoolAssumption DEF BanExpires
  <2>2. RecordsOK'
    BY <1>3, <1>r, <2>1 DEF BanExpires, RecordsOK
  <2>. QED BY <1>3, <2>2 DEF BanExpires, PoolShape, ConnOK, ActiveOK
<1>4. ASSUME NEW k \in Peer, Disconnect(k) PROVE PoolShape'
  <2>1. PICK c \in DOMAIN conns : c = active[k] /\ conns[c].key = k
    BY <1>4 DEF Disconnect, PoolShape, ActiveOK
  <2>2. /\ conns' = [conns EXCEPT ![c].phase = "closing"] /\ active' = Dropped(active, {k})
        /\ count' = count - One(conns[c].bit /\ count > 0)
        /\ UNCHANGED <<dials, slots, failures, timers, strikes, destroyed, slow>>
    BY <1>4, <2>1 DEF Disconnect
  <2>3. /\ DOMAIN conns' = DOMAIN conns /\ \A x \in DOMAIN conns : x # c => conns'[x] = conns[x]
        /\ conns'[c] \in Connection /\ conns'[c].key = k /\ conns'[c].phase = "closing"
    BY <1>c, <2>1, <2>2 DEF Connection
  <2>4. count' \in Nat
    BY <1>r, <2>2 DEF One
  <2>5. RecordsOK'
    BY <1>r, <2>2, <2>4 DEF RecordsOK
  <2>6. ConnOK(c)'
    BY <2>2, <2>3 DEF ConnOK, Dropped
  <2>. QED BY <2>1, <2>2, <2>3, <2>5, <2>6, ChangeShape
<1>5. CASE PoolDestroy
  <2>1. /\ DOMAIN active' = {} /\ UNCHANGED dials
        /\ DOMAIN conns' = DOMAIN conns
        /\ \A c \in DOMAIN conns :
             \/ conns'[c] = conns[c]
             \/ conns'[c] = [conns[c] EXCEPT !.phase = "closing"]
    BY <1>5 DEF PoolDestroy
  <2>2. ActiveOK'
    BY <2>1 DEF ActiveOK
  <2>3. RecordsOK'
    <3>1. /\ slots' = [i \in Ip |-> 0] /\ failures' = [x \in Peer |-> -1]
          /\ strikes' = [x \in Peer |-> 0] /\ timers' = {} /\ count' = 0
          /\ destroyed' = TRUE /\ UNCHANGED <<dials, slow>>
      BY <1>5 DEF PoolDestroy
    <3>2. slots' \in [Ip -> 0..MaxPerIp] /\ (\A i \in Ip : slots'[i] <= dials')
      BY <1>r, <3>1, PeerPoolAssumption
    <3>3. failures' \in [Peer -> -1..MaxFailures] /\ strikes' \in [Peer -> 0..MaxStrikes]
      BY <3>1, PeerPoolAssumption
    <3>. QED BY <1>r, <3>1, <3>2, <3>3 DEF RecordsOK
  <2>4. ASSUME NEW c \in DOMAIN conns' PROVE ConnOK(c)'
    <3>1. CASE conns'[c] = conns[c]
      BY <1>5, <1>c, <2>1, <3>1 DEF ConnOK, PoolDestroy
    <3>2. CASE conns'[c] = [conns[c] EXCEPT !.phase = "closing"]
      BY <1>c, <2>1, <3>2 DEF ConnOK, Connection
    <3>. QED BY <2>1, <3>1, <3>2
  <2>. QED BY <2>1, <2>2, <2>3, <2>4 DEF PoolShape
<1>6. ASSUME NEW c \in Conn, SocketConnects(c) PROVE PoolShape'
  <2>1. /\ c \in DOMAIN conns /\ conns[c].phase = "dialing" /\ conns[c].key \in Peer
        /\ ~conns[c].told /\ ~conns[c].bit
    BY <1>6, <1>c DEF SocketConnects, ConnOK
  <2>2. /\ UNCHANGED <<dials, active, count, timers, strikes, destroyed, slow>>
        /\ FreeSlot(conns[c].key) \/ UNCHANGED slots
        /\ \/ failures' = failures
           \/ failures' = [failures EXCEPT ![conns[c].key] = 0]
    BY <1>6 DEF SocketConnects
  <2>3. slots' \in [Ip -> 0..MaxPerIp] /\ \A i \in Ip : slots'[i] <= dials'
    <3>1. CASE UNCHANGED slots
      BY <1>r, <2>2, <3>1
    <3>2. CASE FreeSlot(conns[c].key)
      <4>1. slots' \in [Ip -> 0..MaxPerIp] /\ \A i \in Ip : slots'[i] <= slots[i]
        BY <2>1, <3>2, FreedSlot
      <4>2. \A i \in Ip : slots'[i] \in Nat
        BY <4>1, PeerPoolAssumption
      <4>. QED BY <1>r, <2>2, <4>1, <4>2
    <3>. QED BY <2>2, <3>1, <3>2
  <2>4. failures' \in [Peer -> -1..MaxFailures]
    BY <1>r, <2>2, PeerPoolAssumption
  <2>5. RecordsOK'
    BY <1>r, <2>2, <2>3, <2>4 DEF RecordsOK
  <2>6. /\ DOMAIN conns' = DOMAIN conns /\ \A x \in DOMAIN conns : x # c => conns'[x] = conns[x]
        /\ conns'[c] \in Connection /\ conns'[c].key = conns[c].key
        /\ conns'[c].told = conns[c].told /\ conns'[c].bit = conns[c].bit
        /\ conns'[c].phase \in {"open", "closing"}
    BY <1>6, <2>1, SocketConnectsFacts
  <2>7. ConnOK(c)'
    BY <2>1, <2>6 DEF ConnOK
  <2>. QED BY <2>1, <2>2, <2>5, <2>6, <2>7, ChangeShape
<1>7. ASSUME NEW c \in Conn, DialFails(c) \/ HandshakeTimeout(c) PROVE PoolShape'
  <2>1. /\ c \in DOMAIN conns /\ conns[c].phase \in {"dialing", "open"} /\ conns[c].key \in Peer
        /\ ~conns[c].told /\ ~conns[c].bit /\ Rejected(c)
        /\ UNCHANGED <<dials, active, count, strikes, destroyed>>
    BY <1>7, <1>c DEF DialFails, HandshakeTimeout, ConnOK
  <2>2. /\ DOMAIN conns' = DOMAIN conns /\ \A x \in DOMAIN conns : x # c => conns'[x] = conns[x]
        /\ conns'[c] \in Connection /\ conns'[c].key = conns[c].key
        /\ conns'[c].told = conns[c].told /\ conns'[c].bit = conns[c].bit
        /\ conns'[c].phase = "closing" \/ (HandshakeTimeout(c) /\ conns'[c].phase = conns[c].phase)
    <3>1. CASE DialFails(c)
      BY <1>c, <2>1, <3>1 DEF DialFails, Connection
    <3>2. CASE HandshakeTimeout(c)
      BY <1>c, <2>1, <3>2 DEF HandshakeTimeout, Connection
    <3>. QED BY <1>7, <3>1, <3>2
  <2>3. /\ slow \subseteq slow' /\ slow' \subseteq Ip
        /\ HandshakeTimeout(c) /\ ~conns[c].settled => IpOf[conns[c].key] \in slow'
    BY <1>7, <1>i, <1>r, <2>1 DEF DialFails, HandshakeTimeout
  <2>4. /\ slots' \in [Ip -> 0..MaxPerIp] /\ \A i \in Ip : slots'[i] <= slots[i]
        /\ failures' \in [Peer -> -1..MaxFailures] /\ timers' \subseteq Peer
    BY <2>1, RejectedFacts
  <2>5. \A i \in Ip : slots'[i] <= dials'
    <3>1. \A i \in Ip : slots'[i] \in Nat
      BY <2>4, PeerPoolAssumption
    <3>. QED BY <1>r, <2>1, <2>4, <3>1
  <2>6. RecordsOK'
    BY <1>r, <2>1, <2>3, <2>4, <2>5 DEF RecordsOK
  <2>7. ConnOK(c)'
    BY <1>c, <2>1, <2>2, <2>3 DEF ConnOK
  <2>. QED BY <2>1, <2>2, <2>3, <2>6, <2>7, ChangeShape
<1>8. ASSUME NEW c \in Conn, HandshakeDone(c) PROVE PoolShape'
  <2>1. /\ c \in DOMAIN conns /\ conns[c].phase = "open" /\ conns[c].key \in Peer
        /\ ~conns[c].told /\ ~conns[c].bit
        /\ \A x \in DOMAIN conns : conns[x].phase # "closing"
        /\ UNCHANGED <<dials, slots, count, failures, timers, strikes, destroyed, slow>>
    BY <1>8, <1>c DEF HandshakeDone, Quiet, ConnOK
  <2>2. /\ DOMAIN conns' = DOMAIN conns /\ \A x \in DOMAIN conns : x # c => conns'[x] = conns[x]
        /\ conns'[c] \in Connection /\ conns'[c].key = conns[c].key
        /\ conns'[c].told = conns[c].told /\ conns'[c].bit = conns[c].bit
        /\ conns'[c].phase = IF destroyed THEN "closing" ELSE "up"
    BY <1>8, <1>c, <2>1 DEF HandshakeDone, Connection
  <2>3. RecordsOK'
    BY <1>r, <2>1 DEF RecordsOK
  <2>4. ConnOK(c)'
    BY <2>1, <2>2 DEF ConnOK
  <2>5. CASE destroyed
    <3>1. active' = active
      BY <1>8, <2>5 DEF HandshakeDone
    <3>. QED BY <2>1, <2>2, <2>3, <2>4, <3>1, ChangeShape
  <2>6. CASE ~destroyed
    <3>1. /\ DOMAIN active' = DOMAIN active \union {conns[c].key} /\ active'[conns[c].key] = c
          /\ \A k \in DOMAIN active : k # conns[c].key => active'[k] = active[k]
      BY <1>8, <2>6 DEF HandshakeDone, Put
    <3>2. \A k \in DOMAIN active :
            active[k] \in DOMAIN conns /\ conns[active[k]].key = k /\ conns[active[k]].phase = "up"
      BY DEF PoolShape, ActiveOK
    <3>3. \A k \in DOMAIN active : active[k] # c
      BY <2>1, <3>2
    <3>4. ASSUME NEW k \in DOMAIN active'
          PROVE  /\ active'[k] \in DOMAIN conns' /\ conns'[active'[k]].key = k
                 /\ conns'[active'[k]].phase = "up"
      BY <2>1, <2>2, <2>6, <3>1, <3>2, <3>3
    <3>5. ActiveOK'
      BY <2>1, <2>6, <3>1, <3>4 DEF ActiveOK, PoolShape
    <3>6. ASSUME NEW x \in DOMAIN conns', x # c PROVE ConnOK(x)'
      <4>1. conns'[x] = conns[x] /\ conns[x].phase # "closing" /\ ConnOK(x) /\ slow' = slow
        BY <1>c, <2>1, <2>2, <3>6
      <4>. QED BY <4>1 DEF ConnOK
    <3>. QED BY <2>1, <2>2, <2>3, <2>4, <3>5, <3>6 DEF PoolShape
  <2>. QED BY <2>5, <2>6
<1>s. ASSUME NEW k \in Peer, Struck(k) PROVE strikes' \in [Peer -> 0..MaxStrikes]
  <2>1. CASE Banned(k)
    BY <1>r, <1>s, <2>1 DEF Struck
  <2>2. CASE ~Banned(k)
    <3>1. strikes' = [strikes EXCEPT ![k] = strikes[k] + 1]
      BY <1>s, <2>2 DEF Struck
    <3>2. strikes[k] + 1 \in 0..MaxStrikes
      BY <1>r, <2>2, PeerPoolAssumption DEF Banned
    <3>. QED BY <1>r, <3>1, <3>2
  <2>. QED BY <2>1, <2>2
<1>9. ASSUME NEW c \in Conn, HandshakeBad(c) PROVE PoolShape'
  <2>1. /\ c \in DOMAIN conns /\ conns[c].phase = "open" /\ conns[c].key \in Peer
        /\ ~conns[c].told /\ ~conns[c].bit /\ Struck(conns[c].key)
        /\ UNCHANGED <<dials, active, slots, count, failures, timers, destroyed, slow>>
    BY <1>9, <1>c DEF HandshakeBad, ConnOK
  <2>2. /\ DOMAIN conns' = DOMAIN conns /\ \A x \in DOMAIN conns : x # c => conns'[x] = conns[x]
        /\ conns'[c] \in Connection /\ conns'[c].key = conns[c].key
        /\ conns'[c].told = conns[c].told /\ conns'[c].bit = conns[c].bit
        /\ conns'[c].phase = "closing"
    BY <1>9, <1>c, <2>1 DEF HandshakeBad, Connection
  <2>3. RecordsOK'
    BY <1>r, <1>s, <2>1 DEF RecordsOK
  <2>4. ConnOK(c)'
    BY <2>1, <2>2 DEF ConnOK
  <2>. QED BY <2>1, <2>2, <2>3, <2>4, ChangeShape
<1>10. ASSUME NEW c \in Conn, BadPiece(c) PROVE PoolShape'
  <2>1. /\ c \in DOMAIN conns /\ Struck(conns[c].key)
        /\ UNCHANGED <<conns, dials, active, slots, count, failures, timers, destroyed, slow>>
    BY <1>10 DEF BadPiece
  <2>2. RecordsOK'
    BY <1>c, <1>r, <1>s, <2>1 DEF RecordsOK
  <2>. QED BY <2>1, <2>2 DEF PoolShape, ConnOK, ActiveOK
<1>11. ASSUME NEW c \in Conn, Bitfield(c) PROVE PoolShape'
  <2>. DEFINE b == PieceOf[conns[c].key]
  <2>1. /\ c \in DOMAIN conns /\ conns[c].phase = "up"
        /\ conns' = [conns EXCEPT ![c].told = TRUE, ![c].bit = b]
        /\ count' = IF destroyed THEN count ELSE count + One(b)
        /\ UNCHANGED <<dials, active, slots, failures, timers, strikes, destroyed, slow>>
    BY <1>11 DEF Bitfield
  <2>2. b \in BOOLEAN
    BY <1>c, <2>1, PeerPoolAssumption
  <2>. HIDE DEF b
  <2>3. /\ DOMAIN conns' = DOMAIN conns /\ \A x \in DOMAIN conns : x # c => conns'[x] = conns[x]
        /\ conns'[c] \in Connection /\ conns'[c].key = conns[c].key /\ conns'[c].phase = "up"
    BY <1>c, <2>1, <2>2 DEF Connection
  <2>4. count' \in Nat
    BY <1>r, <2>1 DEF One
  <2>5. RecordsOK'
    BY <1>r, <2>1, <2>4 DEF RecordsOK
  <2>6. ConnOK(c)'
    BY <2>3 DEF ConnOK
  <2>. QED BY <2>1, <2>3, <2>5, <2>6, ChangeShape
<1>12. ASSUME NEW c \in Conn, SocketCloses(c) PROVE PoolShape'
  <2>. DEFINE k == conns[c].key
              mine == k \in DOMAIN active
  <2>1. /\ c \in DOMAIN conns /\ k \in Peer
        /\ conns' = Dropped(conns, {c}) /\ active' = Dropped(active, {k})
        /\ UNCHANGED <<dials, failures, strikes, destroyed, slow>>
        /\ count' = count \/ count' = count - One(conns[c].bit /\ count > 0)
        /\ FreeSlot(k) \/ UNCHANGED slots
        /\ QueueReconnection(k) \/ UNCHANGED timers
    BY <1>12, <1>c DEF SocketCloses
  <2>2. /\ DOMAIN conns' = DOMAIN conns \ {c} /\ \A x \in DOMAIN conns' : conns'[x] = conns[x]
        /\ DOMAIN active' = DOMAIN active \ {k} /\ \A x \in DOMAIN active' : active'[x] = active[x]
    BY <2>1 DEF Dropped
  <2>3. ActiveOK'
    <3>1. \A x \in DOMAIN active :
            active[x] \in DOMAIN conns /\ conns[active[x]].key = x /\ conns[active[x]].phase = "up"
      BY DEF PoolShape, ActiveOK
    <3>2. \A x \in DOMAIN active' : active'[x] \in DOMAIN conns' /\ active'[x] = active[x]
      BY <2>2, <3>1
    <3>3. \A x \in DOMAIN active' :
            conns'[active'[x]].key = x /\ conns'[active'[x]].phase = "up"
      BY <2>2, <3>1, <3>2
    <3>4. DOMAIN active' \subseteq Peer /\ (destroyed' => DOMAIN active' = {})
      BY <2>1, <2>2 DEF PoolShape, ActiveOK
    <3>. QED BY <3>2, <3>3, <3>4 DEF ActiveOK
  <2>4. ASSUME NEW x \in DOMAIN conns' PROVE ConnOK(x)'
    <3>1. conns'[x] = conns[x] /\ ConnOK(x) /\ slow' = slow /\ DOMAIN active' \subseteq DOMAIN active
      BY <1>c, <2>1, <2>2
    <3>. QED BY <3>1 DEF ConnOK
  <2>5. slots' \in [Ip -> 0..MaxPerIp] /\ \A i \in Ip : slots'[i] <= dials'
    <3>1. CASE UNCHANGED slots
      BY <1>r, <2>1, <3>1
    <3>2. CASE FreeSlot(k)
      <4>1. slots' \in [Ip -> 0..MaxPerIp] /\ \A i \in Ip : slots'[i] <= slots[i]
        BY <2>1, <3>2, FreedSlot
      <4>2. \A i \in Ip : slots'[i] \in Nat
        BY <4>1, PeerPoolAssumption
      <4>. QED BY <1>r, <2>1, <4>1, <4>2
    <3>. QED BY <2>1, <3>1, <3>2
  <2>6. count' \in Nat
    BY <1>r, <2>1 DEF One
  <2>7. timers' \subseteq Peer
    BY <1>r, <2>1 DEF QueueReconnection
  <2>8. RecordsOK'
    BY <1>r, <2>1, <2>5, <2>6, <2>7 DEF RecordsOK
  <2>9. DOMAIN conns' \subseteq 1..dials' /\ dials' \in 0..MaxDials
    BY <2>1, <2>2 DEF PoolShape
  <2>. QED BY <2>3, <2>4, <2>8, <2>9 DEF PoolShape
<1>. QED BY <1>1, <1>2, <1>3, <1>4, <1>5, <1>6, <1>7, <1>8, <1>9, <1>10, <1>11, <1>12 DEF PoolNext
-----------------------------------------------------------------------------
(* What is counted: the connections of an ip that are on their way and the active ones
   hold a slot each; a bit of an open connection is counted in pieceAvailability, and
   every connection brings its bitfield at most once. *)
Pending(i) ==
  {c \in DOMAIN conns : IpOf[conns[c].key] = i /\ conns[c].phase \in {"dialing", "open"}}
ActiveOf(i) == {k \in DOMAIN active : IpOf[k] = i}
UpBits == {c \in DOMAIN conns : conns[c].phase = "up" /\ conns[c].bit}
Untold == {c \in DOMAIN conns : ~conns[c].told}
SlotsHeld ==
  \A i \in Ip \ slow : Cardinality(Pending(i)) + Cardinality(ActiveOf(i)) <= slots[i]
PoolTotals ==
  /\ ~destroyed => SlotsHeld
  /\ ~destroyed => Cardinality(UpBits) <= count
  /\ count + Cardinality(Untold) <= dials

(* All of it is finite. *)
LEMMA PoolFinite ==
  ASSUME PoolShape
  PROVE  /\ \A i : /\ IsFiniteSet(Pending(i)) /\ Cardinality(Pending(i)) \in Nat
                   /\ IsFiniteSet(ActiveOf(i)) /\ Cardinality(ActiveOf(i)) \in Nat
         /\ IsFiniteSet(UpBits) /\ Cardinality(UpBits) \in Nat
         /\ IsFiniteSet(Untold) /\ Cardinality(Untold) \in Nat
         /\ \A i \in Ip : slots[i] \in Nat
         /\ count \in Nat /\ dials \in Nat
<1>1. dials \in Nat /\ IsFiniteSet(1..dials) /\ DOMAIN conns \subseteq 1..dials
  BY PeerPoolAssumption, FS_Interval DEF PoolShape
<1>2. IsFiniteSet(DOMAIN conns)
  BY <1>1, CountPart
<1>3. IsFiniteSet(DOMAIN active)
  BY PeerPoolAssumption, CountPart DEF PoolShape, ActiveOK
<1>4. ASSUME NEW i
      PROVE  /\ IsFiniteSet(Pending(i)) /\ Cardinality(Pending(i)) \in Nat
             /\ IsFiniteSet(ActiveOf(i)) /\ Cardinality(ActiveOf(i)) \in Nat
  <2>1. Pending(i) \subseteq DOMAIN conns /\ ActiveOf(i) \subseteq DOMAIN active
    BY DEF Pending, ActiveOf
  <2>. QED BY <1>2, <1>3, <2>1, CountPart
<1>5. UpBits \subseteq DOMAIN conns /\ Untold \subseteq DOMAIN conns
  BY DEF UpBits, Untold
<1>6. (\A i \in Ip : slots[i] \in Nat) /\ count \in Nat
  BY PeerPoolAssumption DEF PoolShape, RecordsOK
<1>. QED BY <1>1, <1>2, <1>4, <1>5, <1>6, CountPart

(* A connection that is on its way changes, and perhaps gives its slot back. *)
LEMMA OnItsWay ==
  ASSUME PoolShape, PoolShape', PoolTotals, NEW c \in DOMAIN conns,
         conns[c].phase \in {"dialing", "open"},
         DOMAIN conns' = DOMAIN conns, \A x \in DOMAIN conns : x # c => conns'[x] = conns[x],
         conns'[c].key = conns[c].key, conns'[c].told = conns[c].told, conns'[c].phase # "up",
         UNCHANGED <<active, count, dials, destroyed>>, slow \subseteq slow',
         \A i \in Ip : slots'[i] >= IF i = IpOf[conns[c].key] THEN slots[i] - 1 ELSE slots[i],
         \/ destroyed \/ slots' = slots \/ IpOf[conns[c].key] \in slow'
         \/ conns'[c].phase = "closing"
  PROVE  PoolTotals'
<1>r. \A i \in Ip : slots'[i] \in Nat
  BY PeerPoolAssumption DEF PoolShape, RecordsOK
<1>1. UpBits' \subseteq UpBits /\ Untold' \subseteq Untold
  BY DEF UpBits, Untold
<1>2. Cardinality(UpBits') <= Cardinality(UpBits) /\ Cardinality(Untold') <= Cardinality(Untold)
      /\ Cardinality(Untold') \in Nat /\ Cardinality(UpBits') \in Nat
  BY <1>1, PoolFinite, CountPart
<1>3. ASSUME ~destroyed', NEW i \in Ip \ slow'
      PROVE  Cardinality(Pending(i)') + Cardinality(ActiveOf(i)') <= slots'[i]
  <2>1. Cardinality(Pending(i)) + Cardinality(ActiveOf(i)) <= slots[i]
    BY <1>3 DEF PoolTotals, SlotsHeld
  <2>2. Pending(i)' \subseteq Pending(i) /\ ActiveOf(i)' = ActiveOf(i)
    BY DEF Pending, ActiveOf
  <2>3. /\ Cardinality(Pending(i)') <= Cardinality(Pending(i)) /\ Cardinality(Pending(i)') \in Nat
        /\ Cardinality(Pending(i)) \in Nat /\ Cardinality(ActiveOf(i)) \in Nat
        /\ slots'[i] \in Nat /\ slots[i] \in Nat
    BY <1>r, <2>2, PoolFinite, CountPart
  <2>4. CASE slots' = slots \/ i # IpOf[conns[c].key]
    <3>1. slots'[i] >= slots[i]
      BY <2>3, <2>4
    <3>. QED BY <2>1, <2>2, <2>3, <3>1
  <2>5. CASE i = IpOf[conns[c].key] /\ conns'[c].phase = "closing"
    <3>1. c \in Pending(i) /\ Pending(i)' \subseteq Pending(i) \ {c}
      BY <2>5 DEF Pending
    <3>2. Cardinality(Pending(i)') + 1 <= Cardinality(Pending(i))
      BY <3>1, PoolFinite, CountLess
    <3>3. slots'[i] >= slots[i] - 1
      BY <2>5
    <3>. QED BY <2>1, <2>2, <2>3, <3>2, <3>3
  <2>. QED BY <1>3, <2>4, <2>5
<1>. QED BY <1>2, <1>3, PoolFinite DEF PoolTotals, SlotsHeld

(* Every step keeps the counts. *)
LEMMA TotalsStep == PoolShape /\ PoolShape' /\ PoolTotals /\ PoolNext => PoolTotals'
<1>. SUFFICES ASSUME PoolShape, PoolShape', PoolTotals, PoolNext PROVE PoolTotals'
  OBVIOUS
<1>c. \A c \in DOMAIN conns : ConnOK(c) /\ conns[c] \in Connection /\ conns[c].key \in Peer
  BY DEF PoolShape, ConnOK, Connection
<1>r. /\ \A i \in Ip : slots'[i] \in Nat /\ slots[i] \in Nat
      /\ count' \in Nat /\ count \in Nat /\ dials \in Nat /\ slots \in [Ip -> 0..MaxPerIp]
  BY PeerPoolAssumption DEF PoolShape, RecordsOK
<1>i. \A k \in Peer : IpOf[k] \in Ip
  BY DEF Ip
<1>f. /\ \A i : /\ IsFiniteSet(Pending(i)) /\ Cardinality(Pending(i)) \in Nat
                /\ IsFiniteSet(ActiveOf(i)) /\ Cardinality(ActiveOf(i)) \in Nat
      /\ IsFiniteSet(UpBits) /\ Cardinality(UpBits) \in Nat
      /\ IsFiniteSet(Untold) /\ Cardinality(Untold) \in Nat
  BY PoolFinite
<1>t. /\ ~destroyed => \A i \in Ip \ slow :
           Cardinality(Pending(i)) + Cardinality(ActiveOf(i)) <= slots[i]
      /\ ~destroyed => Cardinality(UpBits) <= count
      /\ count + Cardinality(Untold) <= dials
  BY DEF PoolTotals, SlotsHeld
<1>1. ASSUME NEW k \in Peer, ConnectToPeers(k) \/ Reconnect(k) PROVE PoolTotals'
  <2>1. Dial(k) /\ UNCHANGED <<active, count, destroyed, slow>>
    BY <1>1 DEF ConnectToPeers, Reconnect
  <2>2. CASE UNCHANGED <<conns, dials, slots>>
    BY <2>1, <2>2 DEF PoolTotals, SlotsHeld, Pending, ActiveOf, UpBits, Untold
  <2>3. CASE ~UNCHANGED <<conns, dials, slots>>
    <3>. DEFINE d == dials + 1
    <3>1. /\ dials' = d /\ slots' = [slots EXCEPT ![IpOf[k]] = @ + 1]
          /\ conns' = Put(conns, d, [key |-> k, phase |-> "dialing", told |-> FALSE, bit |-> FALSE,
                                     settled |-> FALSE, timed |-> TRUE])
      BY <2>1, <2>3 DEF Dial
    <3>2. d \notin DOMAIN conns
      BY <1>r DEF PoolShape
    <3>3. /\ DOMAIN conns' = DOMAIN conns \union {d}
          /\ conns'[d].key = k /\ conns'[d].phase = "dialing"
          /\ \A c \in DOMAIN conns : conns'[c] = conns[c]
      BY <3>1, <3>2 DEF Put
    <3>4. UpBits' \subseteq UpBits /\ Untold' \subseteq Untold \union {d}
      BY <3>3 DEF UpBits, Untold
    <3>5. /\ Cardinality(UpBits') <= Cardinality(UpBits) /\ Cardinality(UpBits') \in Nat
          /\ Cardinality(Untold') <= Cardinality(Untold) + 1 /\ Cardinality(Untold') \in Nat
      BY <1>f, <3>4, CountPart, CountMore
    <3>6. ASSUME ~destroyed', NEW i \in Ip \ slow'
          PROVE  Cardinality(Pending(i)') + Cardinality(ActiveOf(i)') <= slots'[i]
      <4>1. ActiveOf(i)' = ActiveOf(i)
        BY <2>1 DEF ActiveOf
      <4>2. CASE i = IpOf[k]
        <5>1. Pending(i)' \subseteq Pending(i) \union {d} /\ slots'[i] = slots[i] + 1
          BY <1>r, <3>1, <3>3, <4>2 DEF Pending
        <5>2. Cardinality(Pending(i)') <= Cardinality(Pending(i)) + 1 /\ Cardinality(Pending(i)') \in Nat
          BY <1>f, <5>1, CountMore
        <5>. QED BY <1>f, <1>r, <1>t, <2>1, <3>6, <4>1, <5>1, <5>2
      <4>3. CASE i # IpOf[k]
        <5>1. Pending(i)' \subseteq Pending(i) /\ slots'[i] = slots[i]
          BY <1>r, <3>1, <3>3, <4>3 DEF Pending
        <5>2. Cardinality(Pending(i)') <= Cardinality(Pending(i)) /\ Cardinality(Pending(i)') \in Nat
          BY <1>f, <5>1, CountPart
        <5>. QED BY <1>f, <1>r, <1>t, <2>1, <3>6, <4>1, <5>1, <5>2
      <4>. QED BY <4>2, <4>3
    <3>. QED BY <1>f, <1>r, <1>t, <2>1, <3>1, <3>5, <3>6 DEF PoolTotals, SlotsHeld
  <2>. QED BY <2>2, <2>3
<1>2. ASSUME UNCHANGED <<conns, dials, active, slots, count, destroyed, slow>> PROVE PoolTotals'
  BY <1>2 DEF PoolTotals, SlotsHeld, Pending, ActiveOf, UpBits, Untold
<1>3. ASSUME NEW k \in Peer, BanExpires(k) PROVE PoolTotals'
  BY <1>2, <1>3 DEF BanExpires
<1>4. ASSUME NEW c \in Conn, BadPiece(c) PROVE PoolTotals'
  BY <1>2, <1>4 DEF BadPiece
<1>5. ASSUME NEW k \in Peer, Disconnect(k) PROVE PoolTotals'
  <2>1. PICK c \in DOMAIN conns : c = active[k] /\ conns[c].key = k /\ conns[c].phase = "up"
    BY <1>5 DEF Disconnect, PoolShape, ActiveOK
  <2>. DEFINE b == conns[c].bit
  <2>2. /\ conns' = [conns EXCEPT ![c].phase = "closing"] /\ active' = Dropped(active, {k})
        /\ count' = count - One(b /\ count > 0)
        /\ UNCHANGED <<dials, slots, destroyed, slow>>
    BY <1>5, <2>1 DEF Disconnect
  <2>3. /\ DOMAIN conns' = DOMAIN conns /\ \A x \in DOMAIN conns : x # c => conns'[x] = conns[x]
        /\ conns'[c].told = conns[c].told /\ conns'[c].phase = "closing"
        /\ DOMAIN active' \subseteq DOMAIN active
    BY <1>c, <2>1, <2>2 DEF Connection, Dropped
  <2>4. Untold' \subseteq Untold /\ UpBits' \subseteq UpBits \ {c} /\ (b => c \in UpBits)
    BY <2>1, <2>3 DEF Untold, UpBits
  <2>5. /\ Cardinality(Untold') <= Cardinality(Untold) /\ Cardinality(Untold') \in Nat
        /\ Cardinality(UpBits') <= Cardinality(UpBits) /\ Cardinality(UpBits') \in Nat
        /\ b => Cardinality(UpBits') + 1 <= Cardinality(UpBits)
    BY <1>f, <2>4, CountPart, CountLess
  <2>6. count' <= count /\ (count' = count \/ (b /\ count' = count - 1))
    BY <1>r, <2>2 DEF One
  <2>7. ASSUME NEW i
        PROVE  /\ Cardinality(Pending(i)') <= Cardinality(Pending(i)) /\ Cardinality(Pending(i)') \in Nat
               /\ Cardinality(ActiveOf(i)') <= Cardinality(ActiveOf(i)) /\ Cardinality(ActiveOf(i)') \in Nat
    <3>1. Pending(i)' \subseteq Pending(i) /\ ActiveOf(i)' \subseteq ActiveOf(i)
      BY <2>3 DEF Pending, ActiveOf
    <3>. QED BY <1>f, <3>1, CountPart
  <2>8. ASSUME ~destroyed', NEW i \in Ip \ slow'
        PROVE  Cardinality(Pending(i)') + Cardinality(ActiveOf(i)') <= slots'[i]
    <3>1. slots'[i] = slots[i] /\ Cardinality(Pending(i)) + Cardinality(ActiveOf(i)) <= slots[i]
      BY <1>t, <2>2, <2>8
    <3>. QED BY <1>f, <1>r, <2>7, <3>1
  <2>9. ~destroyed' => Cardinality(UpBits') <= count'
    BY <1>f, <1>r, <1>t, <2>2, <2>5, <2>6
  <2>10. count' + Cardinality(Untold') <= dials'
    BY <1>f, <1>r, <1>t, <2>2, <2>5, <2>6
  <2>. QED BY <2>8, <2>9, <2>10 DEF PoolTotals, SlotsHeld
<1>6. CASE PoolDestroy
  <2>1. /\ destroyed' = TRUE /\ count' = 0 /\ dials' = dials /\ DOMAIN conns' = DOMAIN conns
        /\ \A c \in DOMAIN conns : conns'[c] = conns[c] \/ conns'[c] = [conns[c] EXCEPT !.phase = "closing"]
    BY <1>6 DEF PoolDestroy
  <2>2. \A c \in DOMAIN conns : conns'[c].told = conns[c].told
    BY <1>c, <2>1 DEF Connection
  <2>3. Untold' \subseteq Untold
    BY <2>1, <2>2 DEF Untold
  <2>4. Cardinality(Untold') <= Cardinality(Untold) /\ Cardinality(Untold') \in Nat
    BY <1>f, <2>3, CountPart
  <2>. QED BY <1>f, <1>r, <1>t, <2>1, <2>4 DEF PoolTotals
<1>7. ASSUME NEW c \in Conn, SocketConnects(c) PROVE PoolTotals'
  <2>1. /\ c \in DOMAIN conns /\ conns[c].phase = "dialing"
        /\ UNCHANGED <<active, count, dials, destroyed, slow>>
        /\ slots' = slots \/ (destroyed /\ FreeSlot(conns[c].key))
    BY <1>7 DEF SocketConnects
  <2>2. \A i \in Ip : slots'[i] >= IF i = IpOf[conns[c].key] THEN slots[i] - 1 ELSE slots[i]
    BY <1>c, <1>r, <2>1, FreedSlot
  <2>. QED BY <1>7, <2>1, <2>2, SocketConnectsFacts, OnItsWay
<1>8. ASSUME NEW c \in Conn, DialFails(c) PROVE PoolTotals'
  <2>1. /\ c \in DOMAIN conns /\ conns[c].phase = "dialing" /\ Rejected(c)
        /\ UNCHANGED <<active, count, dials, destroyed, slow>>
    BY <1>8 DEF DialFails
  <2>2. /\ DOMAIN conns' = DOMAIN conns /\ \A x \in DOMAIN conns : x # c => conns'[x] = conns[x]
        /\ conns'[c].key = conns[c].key /\ conns'[c].told = conns[c].told
        /\ conns'[c].phase = "closing"
    BY <1>8, <1>c, <2>1 DEF DialFails, Connection
  <2>. QED BY <2>1, <2>2, RejectedFacts, OnItsWay
<1>9. ASSUME NEW c \in Conn, HandshakeTimeout(c) PROVE PoolTotals'
  <2>1. /\ c \in DOMAIN conns /\ conns[c].phase \in {"dialing", "open"} /\ Rejected(c)
        /\ UNCHANGED <<active, count, dials, destroyed>>
        /\ slow' = IF conns[c].settled THEN slow ELSE slow \union {IpOf[conns[c].key]}
    BY <1>9 DEF HandshakeTimeout
  <2>2. /\ DOMAIN conns' = DOMAIN conns /\ \A x \in DOMAIN conns : x # c => conns'[x] = conns[x]
        /\ conns'[c].key = conns[c].key /\ conns'[c].told = conns[c].told
        /\ conns'[c].phase = conns[c].phase
    BY <1>9, <1>c, <2>1 DEF HandshakeTimeout, Connection
  <2>3. slots' = slots \/ IpOf[conns[c].key] \in slow'
    BY <2>1, RejectedFacts
  <2>4. slow \subseteq slow' /\ conns'[c].phase # "up"
    BY <2>1, <2>2
  <2>. QED BY <2>1, <2>2, <2>3, <2>4, RejectedFacts, OnItsWay
<1>10. ASSUME NEW c \in Conn, HandshakeBad(c) PROVE PoolTotals'
  <2>1. /\ c \in DOMAIN conns /\ conns[c].phase = "open"
        /\ UNCHANGED <<active, count, dials, destroyed, slow, slots>>
    BY <1>10 DEF HandshakeBad
  <2>2. /\ DOMAIN conns' = DOMAIN conns /\ \A x \in DOMAIN conns : x # c => conns'[x] = conns[x]
        /\ conns'[c].key = conns[c].key /\ conns'[c].told = conns[c].told
        /\ conns'[c].phase = "closing"
    BY <1>10, <1>c, <2>1 DEF HandshakeBad, Connection
  <2>3. \A i \in Ip : slots'[i] >= IF i = IpOf[conns[c].key] THEN slots[i] - 1 ELSE slots[i]
    BY <1>r, <2>1
  <2>. QED BY <2>1, <2>2, <2>3, OnItsWay
<1>11. ASSUME NEW c \in Conn, HandshakeDone(c) PROVE PoolTotals'
  <2>. DEFINE k == conns[c].key
  <2>1. /\ c \in DOMAIN conns /\ conns[c].phase = "open" /\ k \in Peer
        /\ ~conns[c].told /\ ~conns[c].bit
        /\ UNCHANGED <<dials, slots, count, destroyed, slow>>
    BY <1>11, <1>c DEF HandshakeDone, ConnOK
  <2>2. /\ DOMAIN conns' = DOMAIN conns /\ \A x \in DOMAIN conns : x # c => conns'[x] = conns[x]
        /\ conns'[c].key = k /\ conns'[c].phase \in {"up", "closing"}
        /\ conns'[c].told = conns[c].told /\ conns'[c].bit = conns[c].bit
    BY <1>11, <1>c, <2>1 DEF HandshakeDone, Connection
  <2>3. DOMAIN active' \subseteq DOMAIN active \union {k}
    BY <1>11 DEF HandshakeDone, Put
  <2>4. Untold' \subseteq Untold /\ UpBits' \subseteq UpBits
    BY <2>1, <2>2 DEF Untold, UpBits
  <2>5. /\ Cardinality(Untold') <= Cardinality(Untold) /\ Cardinality(Untold') \in Nat
        /\ Cardinality(UpBits') <= Cardinality(UpBits) /\ Cardinality(UpBits') \in Nat
    BY <1>f, <2>4, CountPart
  <2>6. ASSUME ~destroyed', NEW i \in Ip \ slow'
        PROVE  Cardinality(Pending(i)') + Cardinality(ActiveOf(i)') <= slots'[i]
    <3>1. slots'[i] = slots[i] /\ Cardinality(Pending(i)) + Cardinality(ActiveOf(i)) <= slots[i]
      BY <1>t, <2>1, <2>6
    <3>2. CASE i = IpOf[k]
      <4>1. c \in Pending(i) /\ Pending(i)' \subseteq Pending(i) \ {c}
        BY <2>1, <2>2, <3>2 DEF Pending
      <4>2. Cardinality(Pending(i)') + 1 <= Cardinality(Pending(i)) /\ Cardinality(Pending(i)') \in Nat
        BY <1>f, <4>1, CountLess, CountPart
      <4>3. ActiveOf(i)' \subseteq ActiveOf(i) \union {k}
        BY <2>3 DEF ActiveOf
      <4>4. Cardinality(ActiveOf(i)') <= Cardinality(ActiveOf(i)) + 1 /\ Cardinality(ActiveOf(i)') \in Nat
        BY <1>f, <4>3, CountMore
      <4>. QED BY <1>f, <1>r, <3>1, <4>2, <4>4
    <3>3. CASE i # IpOf[k]
      <4>1. Pending(i)' \subseteq Pending(i) /\ ActiveOf(i)' \subseteq ActiveOf(i)
        BY <2>2, <2>3, <3>3 DEF Pending, ActiveOf
      <4>2. /\ Cardinality(Pending(i)') <= Cardinality(Pending(i)) /\ Cardinality(Pending(i)') \in Nat
            /\ Cardinality(ActiveOf(i)') <= Cardinality(ActiveOf(i)) /\ Cardinality(ActiveOf(i)') \in Nat
        BY <1>f, <4>1, CountPart
      <4>. QED BY <1>f, <1>r, <3>1, <4>2
    <3>. QED BY <3>2, <3>3
  <2>. QED BY <1>f, <1>r, <1>t, <2>1, <2>5, <2>6 DEF PoolTotals, SlotsHeld
<1>12. ASSUME NEW c \in Conn, Bitfield(c) PROVE PoolTotals'
  <2>. DEFINE b == PieceOf[conns[c].key]
  <2>1. /\ c \in DOMAIN conns /\ conns[c].phase = "up" /\ ~conns[c].told
        /\ conns' = [conns EXCEPT ![c].told = TRUE, ![c].bit = b]
        /\ count' = IF destroyed THEN count ELSE count + One(b)
        /\ UNCHANGED <<dials, active, slots, destroyed, slow>>
    BY <1>12 DEF Bitfield
  <2>2. b \in BOOLEAN
    BY <1>c, <2>1, PeerPoolAssumption
  <2>. HIDE DEF b
  <2>3. /\ DOMAIN conns' = DOMAIN conns /\ \A x \in DOMAIN conns : x # c => conns'[x] = conns[x]
        /\ conns'[c].key = conns[c].key /\ conns'[c].phase = "up" /\ conns'[c].told
        /\ conns'[c].bit = b
    BY <1>c, <2>1, <2>2 DEF Connection
  <2>4. c \in Untold /\ Untold' \subseteq Untold \ {c} /\ UpBits' \subseteq UpBits \union {c}
    BY <2>1, <2>3 DEF Untold, UpBits
  <2>5. ~b => UpBits' \subseteq UpBits
    BY <2>3 DEF UpBits
  <2>6. /\ Cardinality(Untold') + 1 <= Cardinality(Untold) /\ Cardinality(Untold') \in Nat
        /\ Cardinality(UpBits') <= Cardinality(UpBits) + 1 /\ Cardinality(UpBits') \in Nat
        /\ ~b => Cardinality(UpBits') <= Cardinality(UpBits)
    BY <1>f, <2>4, <2>5, CountPart, CountLess, CountMore
  <2>7. /\ count' = count \/ count' = count + 1
        /\ ~destroyed /\ b => count' = count + 1
        /\ ~destroyed /\ ~b => count' = count
    BY <1>r, <2>1 DEF One
  <2>8. ASSUME ~destroyed', NEW i \in Ip \ slow'
        PROVE  Cardinality(Pending(i)') + Cardinality(ActiveOf(i)') <= slots'[i]
    <3>1. Pending(i)' = Pending(i) /\ ActiveOf(i)' = ActiveOf(i)
      BY <2>1, <2>3 DEF Pending, ActiveOf
    <3>. QED BY <1>t, <2>1, <2>8, <3>1
  <2>9. ~destroyed' => Cardinality(UpBits') <= count'
    BY <1>f, <1>r, <1>t, <2>1, <2>6, <2>7
  <2>10. count' + Cardinality(Untold') <= dials'
    BY <1>f, <1>r, <1>t, <2>1, <2>6, <2>7
  <2>. QED BY <2>8, <2>9, <2>10 DEF PoolTotals, SlotsHeld
<1>13. ASSUME NEW c \in Conn, SocketCloses(c) PROVE PoolTotals'
  <2>. DEFINE k == conns[c].key
              b == conns[c].bit
              mine == k \in DOMAIN active
  <2>1. /\ c \in DOMAIN conns /\ k \in Peer /\ conns[c].phase \in {"open", "up", "closing"}
        /\ conns' = Dropped(conns, {c}) /\ active' = Dropped(active, {k})
        /\ UNCHANGED <<dials, destroyed, slow>>
        /\ count' = IF mine /\ ~destroyed THEN count - One(b /\ count > 0) ELSE count
        /\ IF mine /\ ~destroyed THEN FreeSlot(k) ELSE UNCHANGED slots
    BY <1>13, <1>c DEF SocketCloses
  <2>2. /\ DOMAIN conns' = DOMAIN conns \ {c} /\ \A x \in DOMAIN conns' : conns'[x] = conns[x]
        /\ DOMAIN active' = DOMAIN active \ {k}
    BY <2>1 DEF Dropped
  <2>3. mine /\ b => c \in UpBits
    BY <1>c, <2>1 DEF ConnOK, UpBits
  <2>4. Untold' \subseteq Untold /\ UpBits' \subseteq UpBits \ {c}
    BY <2>2 DEF Untold, UpBits
  <2>5. /\ Cardinality(Untold') <= Cardinality(Untold) /\ Cardinality(Untold') \in Nat
        /\ Cardinality(UpBits') <= Cardinality(UpBits) /\ Cardinality(UpBits') \in Nat
        /\ mine /\ b => Cardinality(UpBits') + 1 <= Cardinality(UpBits)
    BY <1>f, <2>3, <2>4, CountPart, CountLess
  <2>6. count' = count \/ (mine /\ b /\ count' = count - 1)
    BY <1>r, <2>1 DEF One
  <2>7. ASSUME ~destroyed', NEW i \in Ip \ slow'
        PROVE  Cardinality(Pending(i)') + Cardinality(ActiveOf(i)') <= slots'[i]
    <3>1. Cardinality(Pending(i)) + Cardinality(ActiveOf(i)) <= slots[i]
      BY <1>t, <2>1, <2>7
    <3>2. Pending(i)' \subseteq Pending(i) /\ ActiveOf(i)' \subseteq ActiveOf(i) \ {k}
      BY <2>2 DEF Pending, ActiveOf
    <3>3. /\ Cardinality(Pending(i)') <= Cardinality(Pending(i)) /\ Cardinality(Pending(i)') \in Nat
          /\ Cardinality(ActiveOf(i)') <= Cardinality(ActiveOf(i)) /\ Cardinality(ActiveOf(i)') \in Nat
      BY <1>f, <3>2, CountPart
    <3>4. CASE mine /\ i = IpOf[k]
      <4>1. k \in ActiveOf(i)
        BY <3>4 DEF ActiveOf
      <4>2. Cardinality(ActiveOf(i)') + 1 <= Cardinality(ActiveOf(i))
        BY <1>f, <3>2, <4>1, CountLess
      <4>3. slots'[i] >= slots[i] - 1
        BY <2>1, <2>7, <3>4, FreedSlot
      <4>. QED BY <1>f, <1>r, <3>1, <3>3, <4>2, <4>3
    <3>5. CASE ~(mine /\ i = IpOf[k])
      <4>1. slots'[i] >= slots[i]
        <5>1. CASE mine
          BY <2>1, <2>7, <3>5, <5>1, FreedSlot
        <5>2. CASE ~mine
          BY <1>r, <2>1, <5>2
        <5>. QED BY <5>1, <5>2
      <4>. QED BY <1>f, <1>r, <3>1, <3>3, <4>1
    <3>. QED BY <3>4, <3>5
  <2>8. ~destroyed' => Cardinality(UpBits') <= count'
    BY <1>f, <1>r, <1>t, <2>1, <2>5, <2>6
  <2>9. count' + Cardinality(Untold') <= dials'
    BY <1>f, <1>r, <1>t, <2>1, <2>5, <2>6
  <2>. QED BY <2>7, <2>8, <2>9 DEF PoolTotals, SlotsHeld
<1>. QED BY <1>1, <1>3, <1>4, <1>5, <1>6, <1>7, <1>8, <1>9, <1>10, <1>11, <1>12, <1>13 DEF PoolNext
-----------------------------------------------------------------------------
PoolInv == PoolShape /\ PoolTotals

(* A pool starts without connections. *)
LEMMA PoolStart == PoolInit => PoolInv
<1>. SUFFICES ASSUME PoolInit PROVE PoolInv
  OBVIOUS
<1>1. /\ DOMAIN conns = {} /\ DOMAIN active = {} /\ dials = 0 /\ count = 0
      /\ slots = [i \in Ip |-> 0] /\ failures = [k \in Peer |-> -1]
      /\ strikes = [k \in Peer |-> 0] /\ timers = {} /\ destroyed = FALSE /\ slow = {}
  BY DEF PoolInit
<1>2. RecordsOK
  <2>1. slots \in [Ip -> 0..MaxPerIp] /\ \A i \in Ip : slots[i] <= dials
    BY <1>1, PeerPoolAssumption
  <2>2. failures \in [Peer -> -1..MaxFailures] /\ strikes \in [Peer -> 0..MaxStrikes]
    BY <1>1, PeerPoolAssumption
  <2>. QED BY <1>1, <2>1, <2>2 DEF RecordsOK
<1>3. PoolShape
  BY <1>1, <1>2, PeerPoolAssumption DEF PoolShape, ActiveOK
<1>4. /\ \A i \in Ip : Pending(i) = {} /\ ActiveOf(i) = {}
      /\ UpBits = {} /\ Untold = {}
  BY <1>1 DEF Pending, ActiveOf, UpBits, Untold
<1>5. \A i \in Ip : Cardinality(Pending(i)) + Cardinality(ActiveOf(i)) <= slots[i]
  <2>1. Cardinality({}) = 0
    BY FS_EmptySet
  <2>2. \A i \in Ip : Cardinality(Pending(i)) = 0 /\ Cardinality(ActiveOf(i)) = 0 /\ slots[i] = 0
    BY <1>1, <1>4, <2>1
  <2>. QED BY <2>2
<1>6. Cardinality(UpBits) <= count /\ count + Cardinality(Untold) <= dials
  BY <1>1, <1>4, FS_EmptySet
<1>. QED BY <1>3, <1>5, <1>6 DEF PoolInv, PoolTotals, SlotsHeld

(* The invariant holds in every state. *)
LEMMA PoolAlways == PoolSpec => []PoolInv
<1>1. PoolInv /\ PoolNext => PoolInv'
  BY ShapeStep, TotalsStep DEF PoolInv
<1>2. PoolInv /\ UNCHANGED poolVars => PoolInv'
  BY DEF PoolInv, poolVars, PoolShape, ConnOK, ActiveOK, RecordsOK, PoolTotals, SlotsHeld,
         Pending, ActiveOf, UpBits, Untold
<1>. QED BY <1>1, <1>2, PoolStart, PTL DEF PoolSpec

(* Types of the pool: nothing is counted below zero or more often than sockets were
   made, and an active entry leads to an open connection of that peer. *)
THEOREM PoolTypeCorrect == PoolSpec => []PoolTypeOK
<1>1. PoolInv => PoolTypeOK
  <2>. SUFFICES ASSUME PoolInv PROVE PoolTypeOK
    OBVIOUS
  <2>1. PoolShape /\ PoolTotals /\ RecordsOK /\ ActiveOK
    BY DEF PoolInv, PoolShape
  <2>2. dials \in 0..MaxDials /\ MaxDials \in Nat
    BY <2>1, PeerPoolAssumption DEF PoolShape
  <2>3. slots \in [Ip -> 0..MaxDials]
    <3>1. \A i \in Ip : slots[i] \in Nat /\ slots[i] <= dials
      BY <2>1, PoolFinite DEF RecordsOK
    <3>2. \A i \in Ip : slots[i] \in 0..MaxDials
      BY <2>2, <3>1
    <3>. QED BY <2>1, <3>2 DEF RecordsOK
  <2>4. count \in 0..MaxDials
    BY <2>1, <2>2, PoolFinite DEF PoolTotals
  <2>5. \A c \in DOMAIN conns : conns[c] \in Connection
    BY <2>1 DEF PoolShape, ConnOK
  <2>. QED BY <2>1, <2>2, <2>3, <2>4, <2>5 DEF PoolTypeOK, PoolShape, ActiveOK, RecordsOK
<1>. QED BY <1>1, PoolAlways, PTL

(* A piece that active connections have counts at least as often, and no more of an ip
   are active than it may have slots, whatever is dialled twice or closed late. *)
THEOREM PoolCountsCover == PoolSpec => []PoolCountsHold
<1>1. PoolInv => PoolCountsHold
  <2>. SUFFICES ASSUME PoolInv PROVE PoolCountsHold
    OBVIOUS
  <2>1. PoolShape /\ PoolTotals /\ RecordsOK /\ ActiveOK
    BY DEF PoolInv, PoolShape
  <2>2. AvailabilityCovers
    <3>. DEFINE Having == {k \in DOMAIN active : conns[active[k]].bit}
                at == [k \in Having |-> active[k]]
    <3>1. CASE destroyed
      <4>1. Having = {}
        BY <2>1, <3>1 DEF ActiveOK
      <4>2. Cardinality(Having) = 0
        BY <4>1, FS_EmptySet
      <4>3. count >= Cardinality(Having)
        BY <2>1, <4>2, PoolFinite
      <4>. QED BY <4>3 DEF AvailabilityCovers
    <3>2. CASE ~destroyed
      <4>1. \A k \in Having : active[k] \in UpBits /\ conns[active[k]].key = k
        BY <2>1 DEF ActiveOK, UpBits
      <4>2. at \in Injection(Having, UpBits)
        BY <4>1 DEF Injection, IsInjective
      <4>3. Cardinality(Having) <= Cardinality(UpBits)
        BY <2>1, <4>2, FS_Injection, PoolFinite
      <4>4. Cardinality(Having) \in Nat
        BY <2>1, <4>2, FS_Injection, FS_CardinalityType, PoolFinite
      <4>5. Cardinality(UpBits) <= count /\ count \in Nat /\ Cardinality(UpBits) \in Nat
        BY <2>1, <3>2, PoolFinite DEF PoolTotals
      <4>6. count >= Cardinality(Having)
        BY <4>3, <4>4, <4>5
      <4>. QED BY <4>6 DEF AvailabilityCovers
    <3>. QED BY <3>1, <3>2
  <2>3. ActivePerIp
    <3>. SUFFICES ASSUME NEW i \in Ip \ slow PROVE Cardinality(ActiveOf(i)) <= MaxPerIp
      BY DEF ActivePerIp, ActiveOf
    <3>1. CASE destroyed
      <4>1. ActiveOf(i) = {}
        BY <2>1, <3>1 DEF ActiveOK, ActiveOf
      <4>. QED BY <4>1, FS_EmptySet, PeerPoolAssumption
    <3>2. CASE ~destroyed
      <4>1. Cardinality(Pending(i)) + Cardinality(ActiveOf(i)) <= slots[i]
        BY <2>1, <3>2 DEF PoolTotals, SlotsHeld
      <4>2. slots[i] \in 0..MaxPerIp
        BY <2>1 DEF RecordsOK
      <4>. QED BY <2>1, <4>1, <4>2, PoolFinite, PeerPoolAssumption
    <3>. QED BY <3>1, <3>2
  <2>. QED BY <2>2, <2>3 DEF PoolCountsHold
<1>. QED BY <1>1, PoolAlways, PTL
=============================================================================
