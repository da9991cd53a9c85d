-------------------------------- MODULE Dht --------------------------------
(***************************************************************************)
(* dht/node.js as a client: queries over UDP that are matched to their     *)
(* answers by a 2-byte transaction id alone, the iterative lookup made of  *)
(* them, the bootstrap, the health check, and the routing table.  Random   *)
(* ids may collide: the later query takes the entry of pendingQueries, and *)
(* the timer of the earlier one deletes it.  Answers to other nodes do not *)
(* change anything here but the table; tokens and stored peers are not     *)
(* modelled.                                                               *)
(***************************************************************************)
EXTENDS Naturals, Sequences, SequencesExt

CONSTANTS DNode,         \* the other nodes
          BootNode,      \* those of the configuration
          Distance,      \* of each node to the target of the lookup
          Knows,         \* the nodes in each node's answers
          TableSize,     \* _maxRoutingTableSize
          Alpha, K, MaxIterations,
          Tid, MaxQueries \* bounds: transaction ids, queries sent

ASSUME DhtAssumption ==
  /\ IsFiniteSet(DNode) /\ BootNode \subseteq DNode /\ Distance \in [DNode -> Nat]
  /\ Knows \in [DNode -> SUBSET DNode]
  /\ \A n, m \in DNode : Distance[n] = Distance[m] => n = m
  /\ TableSize \in Nat \ {0} /\ Alpha \in Nat \ {0} /\ K \in Nat \ {0}
  /\ MaxIterations \in Nat \ {0} /\ MaxQueries \in Nat

VARIABLES phase,    \* "off", "bootstrap", "ready", "degraded", "stopped"
          table,    \* _routingTable, oldest lastSeen first
          queries,  \* every query sent: [tid, node, for, state]
          queryTimers,   \* the queries whose timer runs
          pending,  \* _pendingQueries: transaction id -> query, 0 for none
          lookup,   \* "idle", "query" (at the top of the loop), "wait" or "over"
          allNodes, queried, iteration, noProgress, \* of the lookup
          closest,  \* the closest node that answered it, "none" before
          purpose,  \* what the lookup is for
          tokens    \* nodes whose token it has (_tokens)

dhtVars == <<phase, table, queries, queryTimers, pending, lookup, allNodes, queried, iteration,
             noProgress, closest, purpose, tokens>>
lookupVars == <<lookup, allNodes, queried, iteration, noProgress, closest, purpose, tokens>>
queryVars == <<queries, queryTimers, pending>>

Query == [tid : Tid, node : DNode, for : {"boot", "lookup", "announce", "health"},
          state : {"waiting", "answered", "failed", "stranded"}]

DhtInit ==
  /\ phase = "off" /\ table = <<>>
  /\ queries = <<>> /\ queryTimers = {} /\ pending = [t \in Tid |-> 0]
  /\ lookup = "idle" /\ allNodes = {} /\ queried = {} /\ iteration = 0 /\ noProgress = 0
  /\ closest = "none" /\ purpose = "none" /\ tokens = {}

(* The queries whose promise is not settled; a stranded one never will be. *)
Unsettled(for) ==
  {q \in DOMAIN queries : queries[q].for = for /\ queries[q].state \in {"waiting", "stranded"}}
Nearest(nodes, count) ==
  {n \in nodes : Cardinality({m \in nodes : Distance[m] < Distance[n]}) < count}
TableWithout(n) ==
  IF n \in ToSet(table) THEN RemoveAt(table, CHOOSE i \in DOMAIN table : table[i] = n)
  ELSE table
-----------------------------------------------------------------------------
(* _addNode: the oldest makes room. *)
Added(n) ==
  LET full == n \notin ToSet(table) /\ Len(table) >= TableSize
  IN  Append(IF full THEN Tail(table) ELSE TableWithout(n), n)

(* _sendQuery for each of some nodes, with transaction ids drawn at random; a node
   that is stopped rejects them at once. *)
SendQueries(nodes, for, tids) ==
  LET order == SetToSeq(nodes)
      number(i) == Len(queries) + i
      state == IF phase = "stopped" THEN "failed" ELSE "waiting"
      new == [i \in DOMAIN order |->
                [tid |-> tids[i], node |-> order[i], for |-> for, state |-> state]]
      last(t) == {i \in DOMAIN order : tids[i] = t}
  IN  /\ Len(queries) + Len(order) <= MaxQueries
      /\ queries' = queries \o new
      /\ IF phase = "stopped" THEN UNCHANGED <<queryTimers, pending>>
         ELSE /\ queryTimers' = queryTimers \union {number(i) : i \in DOMAIN order}
              /\ pending' = [t \in Tid |-> IF last(t) = {} THEN pending[t]
                                           ELSE number(Max(last(t)))]
Settled(q, state) == queries' = [queries EXCEPT ![q].state = state]

(* _checkNodeHealth, when its ping fails: the node is deleted, even when it has been in
   touch since. *)
Unhealthy(q) ==
  IF queries[q].for = "health"
  THEN TableWithout(queries[q].node) ELSE table

(* A query's promise is settled: by its timer, by an error of the socket (both delete
   whatever entry has its id), by an error message, which stands also for a response
   without contents. *)
QueryTimeout(q) ==
  /\ q \in queryTimers
  /\ Settled(q, "failed")
  /\ queryTimers' = queryTimers \ {q}
  /\ pending' = [pending EXCEPT ![queries[q].tid] = 0]
  /\ table' = Unhealthy(q)
  /\ UNCHANGED <<phase, lookupVars>>
ErrorMessage(t) ==
  /\ pending[t] # 0
  /\ Settled(pending[t], "failed")
  /\ queryTimers' = queryTimers \ {pending[t]} /\ pending' = [pending EXCEPT ![t] = 0]
  /\ table' = Unhealthy(pending[t])
  /\ UNCHANGED <<phase, lookupVars>>

(* An error whose e is no list, or a response whose id is no byte string: the timer and
   the entry are gone when the handler throws, and _handleMessage logs the exception.
   Nothing settles the query's promise any more. *)
MalformedMessage(t) ==
  /\ pending[t] # 0
  /\ Settled(pending[t], "stranded")
  /\ queryTimers' = queryTimers \ {pending[t]} /\ pending' = [pending EXCEPT ![t] = 0]
  /\ UNCHANGED <<phase, table, lookupVars>>

(* _handleResponse: from is a node that was asked under this id, not necessarily the one
   that the pending query asked.  A lookup learns nodes and perhaps a token from it. *)
HandleResponse(t, from) ==
  /\ pending[t] # 0 /\ \E q \in DOMAIN queries : queries[q].tid = t /\ queries[q].node = from
  /\ Settled(pending[t], "answered")
  /\ queryTimers' = queryTimers \ {pending[t]} /\ pending' = [pending EXCEPT ![t] = 0]
  /\ table' = Added(from)
  /\ IF queries[pending[t]].for = "lookup"
     THEN LET closer == closest = "none" \/ Distance[from] < Distance[closest]
          IN  /\ allNodes' = allNodes \union Knows[from] \union {from}
              /\ closest' = IF closer THEN from ELSE closest
              /\ noProgress' = IF closer THEN 0 ELSE noProgress
              /\ tokens' = IF purpose = "find" THEN tokens
                           ELSE tokens \union {queries[pending[t]].node}
     ELSE UNCHANGED <<allNodes, closest, noProgress, tokens>>
  /\ UNCHANGED <<phase, lookup, queried, iteration, purpose>>

(* _handleQuery: whoever asks is known from then on. *)
HandleQuery(n) ==
  /\ phase \notin {"off", "stopped"} /\ n \notin ToSet(table)
  /\ table' = Added(n)
  /\ UNCHANGED <<phase, queryVars, lookupVars>>
-----------------------------------------------------------------------------
(* start: pings the bootstrap nodes; when all have settled, and one has answered, it
   looks itself up. *)
StartNode(tids) ==
  /\ phase = "off" /\ phase' = "bootstrap"
  /\ SendQueries(BootNode, "boot", tids)
  /\ UNCHANGED <<table, lookupVars>>
Bootstrapped ==
  /\ phase = "bootstrap" /\ lookup = "idle" /\ purpose = "none" /\ Unsettled("boot") = {}
  /\ IF \E q \in DOMAIN queries : queries[q].for = "boot" /\ queries[q].state = "answered"
     THEN /\ lookup' = "query" /\ purpose' = "find"
          /\ allNodes' = Nearest(ToSet(table), Alpha)
          /\ UNCHANGED <<phase, queried, iteration, noProgress, closest, tokens>>
     ELSE phase' = "degraded" /\ UNCHANGED lookupVars
  /\ UNCHANGED <<table, queryVars>>

(* getPeers, announcePeer, _refreshBuckets.  An empty table starts an empty lookup: the
   bootstrap nodes it falls back on have no id and are not asked. *)
StartLookup(for) ==
  /\ phase \in {"ready", "degraded"} /\ lookup = "idle"
  /\ lookup' = "query" /\ purpose' = for
  /\ allNodes' = Nearest(ToSet(table), Alpha)
  /\ queried' = {} /\ iteration' = 0 /\ noProgress' = 0 /\ closest' = "none"
  /\ UNCHANGED <<phase, table, queryVars, tokens>>

NextToAsk == Nearest(allNodes \ queried, Alpha)
LoopEnds == iteration = MaxIterations \/ phase = "stopped" \/ NextToAsk = {}
Announcees ==
  IF purpose = "announce" THEN Nearest(allNodes, K) \intersect tokens ELSE {}
(* One round of _iterativeLookup: the nearest nodes not asked yet, all at once. *)
QueryNearest(tids) ==
  /\ lookup = "query" /\ ~LoopEnds
  /\ SendQueries(NextToAsk, "lookup", tids)
  /\ queried' = queried \union NextToAsk /\ iteration' = iteration + 1
  /\ lookup' = "wait"
  /\ UNCHANGED <<phase, table, allNodes, noProgress, closest, purpose, tokens>>
(* It ends; bootstrap is done, and announcePeer sends what has a token. *)
LookupEnds(tids) ==
  /\ lookup = "over" \/ (lookup = "query" /\ LoopEnds)
  /\ lookup' = "idle"
  /\ phase' = IF phase # "bootstrap" THEN phase
              ELSE IF table = <<>> THEN "degraded" ELSE "ready"
  /\ SendQueries(Announcees, "announce", tids)
  /\ UNCHANGED <<table, allNodes, queried, iteration, noProgress, closest, purpose, tokens>>
RoundSettles ==
  /\ lookup = "wait" /\ Unsettled("lookup") = {}
  /\ noProgress' = noProgress + 1
  /\ lookup' = IF Cardinality(queried) >= K /\ noProgress' >= 2 THEN "over" ELSE "query"
  /\ UNCHANGED <<phase, table, queryVars, allNodes, queried, iteration, closest, purpose, tokens>>

CheckNodeHealth(n, tids) ==
  /\ phase \in {"ready", "degraded"} /\ n \in ToSet(table)
  /\ \A q \in Unsettled("health") : queries[q].state = "stranded"
  /\ SendQueries({n}, "health", tids)
  /\ UNCHANGED <<phase, table, lookupVars>>
ExpireToken(n) ==
  /\ n \in tokens /\ tokens' = tokens \ {n}
  /\ UNCHANGED <<phase, table, queryVars, lookup, allNodes, queried, iteration, noProgress,
                 closest, purpose>>

StopQuietly ==                                                   \* mutant
  /\ phase \notin {"off", "stopped"} /\ phase' = "stopped"
  /\ queryTimers' = queryTimers \ {pending[t] : t \in Tid}
  /\ pending' = [t \in Tid |-> 0]
  /\ UNCHANGED <<queries, table, lookupVars>>
StopNode ==
  /\ phase \notin {"off", "stopped"} /\ phase' = "stopped"
  /\ LET rejected == {pending[t] : t \in Tid} \ {0}
     IN  /\ queries' = [q \in DOMAIN queries |->
                          IF q \in rejected THEN [queries[q] EXCEPT !.state = "failed"]
                          ELSE queries[q]]
         /\ queryTimers' = queryTimers \ rejected
  /\ pending' = [t \in Tid |-> 0]
  /\ UNCHANGED <<table, lookupVars>>

DhtNext ==
  \/ Bootstrapped \/ RoundSettles \/ StopNode
  \/ \E for \in {"get", "announce", "find"} : StartLookup(for)
  \/ \E count \in 0..Cardinality(DNode) : \E tids \in [1..count -> Tid] :
       \/ count = Cardinality(BootNode) /\ StartNode(tids)
       \/ count = Cardinality(NextToAsk) /\ QueryNearest(tids)
       \/ count = Cardinality(Announcees) /\ LookupEnds(tids)
       \/ count = 1 /\ \E n \in DNode : CheckNodeHealth(n, tids)
  \/ \E q \in DOMAIN queries : QueryTimeout(q)
  \/ \E t \in Tid :
       \/ ErrorMessage(t) \/ MalformedMessage(t)
       \/ \E from \in DNode : HandleResponse(t, from)
  \/ \E n \in DNode : HandleQuery(n) \/ ExpireToken(n)

DhtSpec == DhtInit /\ [][DhtNext]_dhtVars
-----------------------------------------------------------------------------
(* Type invariant. *)
DhtTypeOK ==
  /\ phase \in {"off", "bootstrap", "ready", "degraded", "stopped"}
  /\ table \in Seq(DNode) /\ Len(table) <= TableSize /\ IsInjective(table)
  /\ queries \in Seq(Query)
  /\ queryTimers \subseteq DOMAIN queries /\ pending \in [Tid -> {0} \union DOMAIN queries]
  /\ lookup \in {"idle", "query", "wait", "over"} /\ allNodes \union queried \union tokens \subseteq DNode
  /\ iteration \in 0..MaxIterations /\ noProgress \in Nat
  /\ closest \in DNode \union {"none"} /\ purpose \in {"none", "find", "get", "announce"}

(* Nobody waits for ever: a query that is not settled has its timer running, also when
   another one took its transaction id, when the socket failed or the node was
   stopped.  Only a message and the stop clear a timer, and they settle that very query,
   with one exception: a malformed message strands the query it is matched to, and the
   bootstrap, lookup, announce or health check that awaits it, but no other query. *)
NobodyWaitsForEver ==
  /\ \A q \in DOMAIN queries : queries[q].state = "waiting" => q \in queryTimers
  /\ \A t \in Tid : pending[t] # 0 =>
       queries[pending[t]].state = "waiting" /\ queries[pending[t]].tid = t
=============================================================================
