------------------------------ MODULE Upload ------------------------------
(***************************************************************************)
(* uploadManager.js: the blocks that peers ask for, the bounded map        *)
(* activeUploads, the queue behind it, and choking.  An upload awaits the  *)
(* read of its piece and then the throttler; requests, cancels, chokes and *)
(* removals come in between.  activeUploads has one place per peer and     *)
(* block, so a run is told from its place: runs are numbered here, and     *)
(* activeUploads maps a key to the run that holds it.                      *)
(*                                                                         *)
(* The module is the class as its own callers would use it: Torrent hands  *)
(* it a pieceManager that is never set, so that in the running server      *)
(* handleRequest returns at its first line.  UPeer are peers with an id of *)
(* their own, which engine.js gives those that connect to us; a            *)
(* PeerConnection has none and its peerId is ours, so that all of them     *)
(* would be one peer.                                                      *)
(***************************************************************************)
EXTENDS Integers, FiniteSets, SequencesExt, Filters

CONSTANTS UPeer, UPiece,
          MaxUploads,  \* maxUploadsTotal
          UnchokeSlots,
          MaxRuns,     \* bound: uploads in progress, those without a place included
          MaxWaiting   \* bound: the queue

ASSUME UploadAssumption ==
  /\ MaxUploads \in Nat \ {0} /\ UnchokeSlots \in Nat \ {0}
  /\ MaxRuns \in Nat \ {0} /\ MaxWaiting \in Nat

Key == UPeer \X UPiece
Run == [key : Key, phase : {"read", "send"}, cancelled : BOOLEAN,
        second : BOOLEAN]   \* an older run of the key was still going at the start

VARIABLES peers,       \* _peerStates, in the order they were made
          choked,      \* peers that we choke
          uploadQueue,
          activeUploads,  \* key -> number of the run
          runs,        \* number -> Run, for the uploads in progress
          optimistic,  \* _currentOptimisticPeer, {} for none
          superSeeding, sentPieces  \* _superSeedingEnabled, _superSeedingPieces

uploadVars == <<peers, choked, uploadQueue, activeUploads, runs, optimistic,
                superSeeding, sentPieces>>

UploadInit ==
  /\ peers = <<>> /\ choked = {} /\ uploadQueue = <<>>
  /\ activeUploads = [k \in {} |-> 0] /\ runs = [i \in {} |-> 0]
  /\ optimistic = {} /\ superSeeding = FALSE /\ sentPieces = {}

Without(f, S) == [x \in DOMAIN f \ S |-> f[x]]
With(f, x, v) == [y \in DOMAIN f \union {x} |-> IF y = x THEN v ELSE f[y]]
UPut(t) == \E s \in {t} : /\ choked' = s.choked /\ uploadQueue' = s.queue
                          /\ activeUploads' = s.active /\ runs' = s.runs
Now == [choked |-> choked, queue |-> uploadQueue, active |-> activeUploads, runs |-> runs]
FreeRuns(s) == 1..MaxRuns \ DOMAIN s.runs
-----------------------------------------------------------------------------
(* _startUpload with the first part of _processUpload: a key that has a place is
   dropped, without an answer to the peer. *)
StartUpload(s, k) ==
  IF k \in DOMAIN s.active THEN s
  ELSE LET i == CHOOSE n \in FreeRuns(s) : \A m \in FreeRuns(s) : n <= m
           run == [key |-> k, phase |-> "read", cancelled |-> FALSE,
                   second |-> \E j \in DOMAIN s.runs : s.runs[j].key = k]
       IN  [s EXCEPT !.active = With(@, k, i), !.runs = With(@, i, run)]

(* _processQueue: while there is a place, the first request is taken off the queue
   and started unless its peer is choked or gone. *)
ShiftOverLimit(s) ==                                             \* mutant
  IF s.queue = <<>> \/ FreeRuns(s) = {} THEN s
  ELSE LET k == Head(s.queue)
           rest == [s EXCEPT !.queue = Tail(@)]
       IN  IF k[1] \in ToSet(peers) \ s.choked THEN StartUpload(rest, k) ELSE rest
Shift(s) ==
  IF s.queue = <<>> \/ Cardinality(DOMAIN s.active) >= MaxUploads \/ FreeRuns(s) = {}
  THEN s
  ELSE LET k == Head(s.queue)
           rest == [s EXCEPT !.queue = Tail(@)]
       IN  IF k[1] \in ToSet(peers) \ s.choked THEN StartUpload(rest, k) ELSE rest
ServeQueue(s) ==
  LET served[n \in 0..Len(s.queue)] == IF n = 0 THEN s ELSE Shift(served[n - 1])
  IN  served[Len(s.queue)]

Cancelled(f, S) == [i \in DOMAIN f |-> IF f[i].key \in S /\ i \in {activeUploads[k] :
                      k \in S \intersect DOMAIN activeUploads}
                    THEN [f[i] EXCEPT !.cancelled = TRUE] ELSE f[i]]

(* handleRequest, the piece being complete. *)
HandleRequest(p, x) ==
  LET k == <<p, x>> IN
  /\ p \in ToSet(peers) \ choked
  /\ ~(superSeeding /\ x \in sentPieces)
  /\ IF Cardinality(DOMAIN activeUploads) < MaxUploads
     THEN FreeRuns(Now) # {} /\ UPut(StartUpload(Now, k))
     ELSE /\ Len(uploadQueue) < MaxWaiting
          /\ UPut([Now EXCEPT !.queue = Append(@, k)])
  /\ UNCHANGED <<peers, optimistic, superSeeding, sentPieces>>

CancelRequest(k) ==
  /\ UPut([Now EXCEPT !.queue = Dropping(@, {k}),
                      !.runs = Cancelled(@, {k})])
  /\ UNCHANGED <<peers, optimistic, superSeeding, sentPieces>>

(* The finally of _startUpload: the place of the key is freed, whichever run holds
   it, and the queue moves. *)
UploadEndsQuietly(i) ==                                          \* mutant
  LET k == runs[i].key
      mine == k \in DOMAIN activeUploads /\ activeUploads[k] = i
      s == [Now EXCEPT !.active = IF mine THEN Without(@, {k}) ELSE @,
                       !.runs = Without(@, {i})]
  IN  UPut(IF mine THEN ServeQueue(s) ELSE s)
UploadEnds(i) ==
  UPut(ServeQueue([Now EXCEPT !.active = Without(@, {runs[i].key}),
                                 !.runs = Without(@, {i})]))

(* _processUpload after the read: only here is the cancel flag looked at. *)
ReadEnds(i, ok) ==
  /\ i \in DOMAIN runs /\ runs[i].phase = "read"
  /\ IF ok /\ ~runs[i].cancelled
     THEN UPut([Now EXCEPT !.runs[i].phase = "send"])
     ELSE UploadEnds(i)
  /\ UNCHANGED <<peers, optimistic, superSeeding, sentPieces>>

(* The throttled send, to its last byte. *)
SendEnds(i) ==
  /\ i \in DOMAIN runs /\ runs[i].phase = "send"
  /\ sentPieces' = IF superSeeding THEN sentPieces \union {runs[i].key[2]} ELSE sentPieces
  /\ UploadEnds(i)
  /\ UNCHANGED <<peers, optimistic, superSeeding>>
-----------------------------------------------------------------------------
Unchoked(s, p) ==
  IF p \notin s.choked THEN s ELSE ServeQueue([s EXCEPT !.choked = @ \ {p}])
OfPeers(S) == S \X UPiece
ChokedLazily(s, p) ==                                            \* mutant
  IF p \in s.choked THEN s
  ELSE [s EXCEPT !.choked = @ \union {p},
                 !.queue = Dropping(@, OfPeers({p}))]
Choked(s, p) ==
  IF p \in s.choked THEN s
  ELSE [s EXCEPT !.choked = @ \union {p},
                 !.queue = Dropping(@, OfPeers({p})),
                 !.runs = [i \in DOMAIN @ |->
                    IF @[i].key[1] = p /\ @[i].key \in DOMAIN s.active
                       /\ s.active[@[i].key] = i
                    THEN [@[i] EXCEPT !.cancelled = TRUE] ELSE @[i]]]

(* _getOrCreatePeerState: a new peer starts choked. *)
NewPeer(p) ==
  /\ p \notin ToSet(peers)
  /\ peers' = Append(peers, p) /\ choked' = choked \union {p}
  /\ UNCHANGED <<uploadQueue, activeUploads, runs, optimistic, superSeeding, sentPieces>>

(* runChokingAlgorithm: the best peers but one and the optimistic one are unchoked,
   the others choked, one after the other. *)
Judged(s, good) ==
  LET judged[n \in 0..Len(peers)] ==
        IF n = 0 THEN s
        ELSE IF peers[n] \in good THEN Unchoked(judged[n - 1], peers[n])
        ELSE Choked(judged[n - 1], peers[n])
  IN  judged[Len(peers)]
RunChokingAlgorithm(top, lucky) ==
  /\ peers # <<>>
  /\ top \subseteq ToSet(peers) /\ lucky \in ToSet(peers)
  /\ Cardinality(top) = (IF Len(peers) < UnchokeSlots THEN Len(peers) ELSE UnchokeSlots - 1)
  /\ optimistic # {} => lucky \in optimistic
  /\ optimistic' = {lucky}
  /\ UPut(Judged(Now, top \union {lucky}))
  /\ UNCHANGED <<peers, superSeeding, sentPieces>>

RotateOptimisticUnchoke(p) ==
  /\ p \in ToSet(peers) /\ Len(peers) >= UnchokeSlots
  /\ optimistic' = {p}
  /\ UNCHANGED <<peers, choked, uploadQueue, activeUploads, runs, superSeeding, sentPieces>>

RemovePeer(p) ==
  /\ p \in ToSet(peers)
  /\ peers' = Dropping(peers, {p})
  /\ UPut([choked |-> choked \ {p},
           queue |-> Dropping(uploadQueue, OfPeers({p})),
           active |-> Without(activeUploads, OfPeers({p})),
           runs |-> Cancelled(runs, OfPeers({p}))])
  /\ optimistic' = optimistic \ {p}
  /\ UNCHANGED <<superSeeding, sentPieces>>

SetSuperSeeding(on) ==
  /\ superSeeding' = on
  /\ sentPieces' = IF on THEN {} ELSE sentPieces
  /\ UNCHANGED <<peers, choked, uploadQueue, activeUploads, runs, optimistic>>
OnPieceDistributed(x) ==
  /\ superSeeding /\ x \in sentPieces
  /\ sentPieces' = sentPieces \ {x}
  /\ UNCHANGED <<peers, choked, uploadQueue, activeUploads, runs, optimistic, superSeeding>>

UploadDestroy ==
  /\ peers' = <<>> /\ sentPieces' = {}
  /\ UPut([choked |-> {}, queue |-> <<>>, active |-> Without(activeUploads, Key),
           runs |-> Cancelled(runs, Key)])
  /\ UNCHANGED <<optimistic, superSeeding>>

UploadNext ==
  \/ \E p \in UPeer : NewPeer(p) \/ RotateOptimisticUnchoke(p) \/ RemovePeer(p)
  \/ \E p \in UPeer, x \in UPiece : HandleRequest(p, x)
  \/ \E k \in Key : CancelRequest(k)
  \/ \E i \in 1..MaxRuns : SendEnds(i) \/ \E ok \in BOOLEAN : ReadEnds(i, ok)
  \/ \E top \in SUBSET UPeer, lucky \in UPeer : RunChokingAlgorithm(top, lucky)
  \/ \E on \in BOOLEAN : SetSuperSeeding(on)
  \/ \E x \in UPiece : OnPieceDistributed(x)
  \/ UploadDestroy

(* A read ends and the throttler serves (module Throttler says when). *)
RunGoesOn(i) == SendEnds(i) \/ ReadEnds(i, TRUE)
UploadFairness == \A i \in 1..MaxRuns : WF_uploadVars(RunGoesOn(i))

UploadSpec == UploadInit /\ [][UploadNext]_uploadVars /\ UploadFairness
-----------------------------------------------------------------------------
(* Type invariant. *)
UploadTypeOK ==
  /\ peers \in Seq(UPeer) /\ IsInjective(peers) /\ choked \subseteq ToSet(peers)
  /\ uploadQueue \in Seq(Key) /\ Len(uploadQueue) <= MaxWaiting
  /\ DOMAIN runs \subseteq 1..MaxRuns /\ \A i \in DOMAIN runs : runs[i] \in Run
  /\ DOMAIN activeUploads \subseteq Key
  /\ Cardinality(DOMAIN activeUploads) <= MaxUploads
  /\ \A k \in DOMAIN activeUploads :
       activeUploads[k] \in DOMAIN runs => runs[activeUploads[k]].key = k
  /\ optimistic \subseteq UPeer /\ superSeeding \in BOOLEAN /\ sentPieces \subseteq UPiece

(* A choke reaches everything of the peer: what waits or still runs uncancelled is
   for a peer that is there and unchoked, and has its place.  The exception is a run
   that began while an older run of its key was going (the peer was removed and came
   back, or the manager was destroyed): the end of the older one frees its place, and
   no choke, cancel or removal finds it then. *)
ChokeReachesAll ==
  /\ \A n \in DOMAIN uploadQueue : uploadQueue[n][1] \in ToSet(peers) \ choked
  /\ \A i \in DOMAIN runs : ~runs[i].cancelled /\ ~runs[i].second =>
       /\ runs[i].key[1] \in ToSet(peers) \ choked
       /\ runs[i].key \in DOMAIN activeUploads /\ activeUploads[runs[i].key] = i

(* A request does not wait for ever behind places that nobody holds: again and
   again the queue is empty or every place is taken, although a removal frees places
   without a look at the queue. *)
QueueMoves ==
  []<>(uploadQueue = <<>> \/ Cardinality(DOMAIN activeUploads) >= MaxUploads)
=============================================================================
