------------------------------ MODULE Download ------------------------------
(***************************************************************************)
(* downloadManager.js with piece.js: which block is asked of which peer,   *)
(* what an answer does to its piece, and when the download is reported     *)
(* complete.  Handlers run to their first await without interruption; the  *)
(* write of a verified piece (an await) is a step of its own, so several   *)
(* pieces may be counted while their writes are still pending.             *)
(*                                                                         *)
(* activePieces and pendingRequests are Maps and are read in insertion     *)
(* order, as are the connected peers: they are sequences here.  The data   *)
(* of a block is abstracted to whether it is what the torrent says.        *)
(*                                                                         *)
(* peerBitfield is null until the peer's BITFIELD comes, which a peer that *)
(* has no piece never sends (this program does not either).  The request   *)
(* loop reads it all the same, from a timer: an exception there ends the   *)
(* process.                                                                *)
(***************************************************************************)
EXTENDS Integers, FiniteSets, SequencesExt, Functions, Filters

CONSTANTS DPeer,
          NumPieces, BlocksPerPiece, BlocksInLast,
          BitfieldOf,  \* the pieces in a peer's bitfield, if it sends one
          LaterOf,     \* the pieces it announces with HAVE
          MaxActive,   \* maxActiveRequests
          MaxTrouble   \* bound: chokes, disconnections, bad or slow blocks, failed writes

ASSUME DownloadAssumption ==
  /\ NumPieces \in Nat \ {0} /\ BlocksPerPiece \in Nat \ {0}
  /\ BlocksInLast \in 1..BlocksPerPiece
  /\ BitfieldOf \in [DPeer -> SUBSET (1..NumPieces)]
  /\ LaterOf \in [DPeer -> SUBSET (1..NumPieces)]
  /\ MaxActive \in Nat \ {0} /\ MaxTrouble \in Nat

DPiece == 1..NumPieces
BlocksOf(p) == 1..(IF p = NumPieces THEN BlocksInLast ELSE BlocksPerPiece)
Blocks == UNION {{p} \X BlocksOf(p) : p \in DPiece}
Ask == [who : DPeer, piece : DPiece, block : 1..BlocksPerPiece]

VARIABLES connected,   \* getConnectedPeers()
          unchoked,    \* peers that do not choke us
          described,   \* connected peers whose peerBitfield is set
          announced,   \* pieces a peer has announced with HAVE
          availability,\* peerManager.pieceAvailability
          activePieces, pending,
          received,    \* blocks whose received flag is set
          spoilt,      \* pieces that hold a block with the wrong data
          finished,    \* completedPieces
          writing,     \* pieces whose write is under way
          onDisk,
          running, halted, \* isRunning, isPaused
          skipped,     \* skippedPieces
          isDone,      \* isComplete
          reports,     \* how often "complete" was emitted (2: or more)
          wire,        \* requests the peers have not answered
          initial,     \* pieces that were on disk when the manager was made
          revoked,     \* pieces that a verification took back
          down,        \* an exception in a timer has ended the process
          trouble

downloadVars == <<connected, unchoked, described, announced, availability, activePieces,
  pending, received, spoilt, finished, writing, onDisk, running, halted,
  skipped, isDone, reports, wire, initial, revoked, down, trouble>>
peerVars == <<connected, unchoked, described, announced, availability>>
requestVars == <<activePieces, pending, wire>>
dataVars == <<received, spoilt, finished, writing, onDisk>>
modeVars == <<running, halted, skipped, isDone, reports>>
otherVars == <<initial, revoked, down>>

(* torrent.start makes the manager with the pieces that verify() found. *)
DownloadInit ==
  /\ connected = <<>> /\ unchoked = {} /\ described = {} /\ announced = [w \in DPeer |-> {}]
  /\ availability = [p \in DPiece |-> 0]
  /\ activePieces = <<>> /\ pending = <<>> /\ wire = {}
  /\ received = {} /\ spoilt = {} /\ writing = {}
  /\ initial \in SUBSET DPiece /\ finished = initial /\ onDisk = initial
  /\ running = FALSE /\ halted = FALSE /\ skipped = {} /\ isDone = FALSE
  /\ reports = 0 /\ revoked = {} /\ down = FALSE /\ trouble = 0

Trouble(n) == trouble + n <= MaxTrouble /\ trouble' = trouble + n
Report(n) == IF reports + n > 2 THEN 2 ELSE reports + n
Pending(p, b, pend) == \E i \in DOMAIN pend : pend[i].piece = p /\ pend[i].block = b
AsksOf(w) == {r \in Ask : r.who = w}
AsksFor(p, B) == {r \in Ask : r.piece = p /\ r.block \in B}
-----------------------------------------------------------------------------
(* piece.getNextMissingBlock: the first block not received, asked for or not. *)
Missing(p) == {b \in BlocksOf(p) : <<p, b>> \notin received}
NextMissing(p) == CHOOSE b \in Missing(p) : \A c \in Missing(p) : b <= c

(* selectNextPiece: the rarest piece that somebody has, the first among equals;
   whether this peer has it is not asked. *)
Needed(act) == {p \in DPiece \ (skipped \union finished \union ToSet(act)) :
                  availability[p] > 0}
Rarest(act) == CHOOSE p \in Needed(act) : \A q \in Needed(act) :
                 availability[p] < availability[q]
                   \/ (availability[p] = availability[q] /\ p <= q)

(* _requestNextBlockForPeer, from the state r of the two Maps: an active piece
   the peer has and that misses a block, else a new one; nothing happens when the
   block is asked for already, or when a selected piece misses none.  hasPiece
   throws for the first active piece when the peer has sent no bitfield. *)
AskFor(r, w, p) ==
  LET act == IF p \in ToSet(r.act) THEN r.act ELSE Append(r.act, p)
  IN  IF Missing(p) = {} \/ Pending(p, NextMissing(p), r.pend)
      THEN [r EXCEPT !.act = act]
      ELSE LET ask == [who |-> w, piece |-> p, block |-> NextMissing(p)]
           IN  [act |-> act, pend |-> Append(r.pend, ask), wire |-> r.wire \union {ask},
                down |-> r.down]
AskNext(r, w) ==
  LET useless == {p \in DPiece : p \notin BitfieldOf[w] \/ Missing(p) = {}}
      mine == Dropping(r.act, useless)
  IN  IF r.act # <<>> /\ w \notin described THEN [r EXCEPT !.down = TRUE]
      ELSE IF mine # <<>> THEN AskFor(r, w, Head(mine))
      ELSE IF Needed(r.act) # {} THEN AskFor(r, w, Rarest(r.act)) ELSE r

(* _requestBlocksForPeer: until the peer has MaxActive requests or none is made.
   A round without a request is the last: the next would be the same. *)
MayAsk(r, w) ==
  ~r.down /\ w \in unchoked
    /\ Cardinality({k \in DOMAIN r.pend : r.pend[k].who = w}) < MaxActive
Only(S) == CHOOSE x \in S : TRUE    \* the element of a singleton, evaluated once
AskOnce(r, w) == Only({IF MayAsk(x, w) THEN AskNext(x, w) ELSE x : x \in {r}})
AskPeer(r, w) ==
  LET asked[n \in 0..MaxActive] == IF n = 0 THEN r ELSE AskOnce(asked[n - 1], w)
  IN  asked[MaxActive]
AskAll(r) ==
  LET asked[n \in 0..Len(connected)] ==
        IF n = 0 THEN r ELSE AskPeer(asked[n - 1], connected[n])
  IN  asked[Len(connected)]

RequestBlocks ==
  /\ running /\ ~halted /\ ~down
  /\ \E r \in {AskAll([act |-> activePieces, pend |-> pending, wire |-> wire, down |-> down])} :
       activePieces' = r.act /\ pending' = r.pend /\ wire' = r.wire /\ down' = r.down
  /\ UNCHANGED <<peerVars, dataVars, modeVars, initial, revoked, trouble>>
-----------------------------------------------------------------------------
PeerConnected(w) ==
  /\ w \notin ToSet(connected)
  /\ connected' = Append(connected, w)
  /\ UNCHANGED <<unchoked, described, announced, availability, requestVars, dataVars,
                 modeVars, otherVars, trouble>>

BitfieldMessage(w) ==
  /\ w \in ToSet(connected) \ described
  /\ described' = described \union {w}
  /\ availability' = [p \in DPiece |-> availability[p] + IF p \in BitfieldOf[w] THEN 1 ELSE 0]
  /\ UNCHANGED <<connected, unchoked, announced, requestVars, dataVars, modeVars, otherVars, trouble>>

(* HAVE raises the availability; the bitfield of the connection stays as it was. *)
HaveMessage(w, p) ==
  /\ w \in ToSet(connected) /\ p \in LaterOf[w] \ announced[w]
  /\ announced' = [announced EXCEPT ![w] = @ \union {p}]
  /\ availability' = [availability EXCEPT ![p] = @ + 1]
  /\ UNCHANGED <<connected, unchoked, described, requestVars, dataVars, modeVars, otherVars, trouble>>

Unchoke(w) ==
  /\ w \in ToSet(connected) \ unchoked
  /\ unchoked' = unchoked \union {w}
  /\ UNCHANGED <<connected, described, announced, availability, requestVars, dataVars, modeVars,
                 otherVars, trouble>>

(* cancelPeerRequests: the requests go, their blocks are missing again. *)
CancelPeerRequests(w) ==
  /\ pending' = Dropping(pending, AsksOf(w))
  /\ received' = received \ {<<pending[i].piece, pending[i].block>> :
                               i \in {j \in DOMAIN pending : pending[j].who = w}}

Choke(w) ==
  /\ w \in unchoked /\ Trouble(1)
  /\ unchoked' = unchoked \ {w}
  /\ CancelPeerRequests(w)
  /\ UNCHANGED <<connected, described, announced, availability, activePieces, wire, spoilt,
                 finished, writing, onDisk, modeVars, otherVars>>

PeerDisconnected(w) ==
  /\ w \in ToSet(connected) /\ Trouble(1)
  /\ connected' = Dropping(connected, {w})
  /\ unchoked' = unchoked \ {w} /\ described' = described \ {w}
  /\ availability' = [p \in DPiece |->
       availability[p] - IF w \in described /\ p \in BitfieldOf[w] THEN 1 ELSE 0]
  /\ CancelPeerRequests(w)
  /\ wire' = {r \in wire : r.who # w}
  /\ UNCHANGED <<announced, activePieces, spoilt, finished, writing, onDisk,
                 modeVars, otherVars>>
-----------------------------------------------------------------------------
(* handlePieceMessage: an answer whose request is no longer pending is dropped.
   The last block of a piece decides: a good piece is counted and its write
   begins; a bad one is asked for again from the start, its requests are dropped
   (_handleFailedPiece; the strikes of the sender are not modelled here). *)
Owned(w) == BitfieldOf[w] \union announced[w]
AnswerKeepingRequest(w, p, b, good) ==                           \* mutant
  /\ [who |-> w, piece |-> p, block |-> b] \in wire /\ p \in Owned(w)
  /\ wire' = wire \ {[who |-> w, piece |-> p, block |-> b]}
  /\ Trouble(IF good THEN 0 ELSE 1)
  /\ Pending(p, b, pending)
  /\ received' = received \union {<<p, b>>}
  /\ spoilt' = spoilt \union (IF good THEN {} ELSE {p})
  /\ IF Missing(p) \ {b} = {} /\ p \notin spoilt'
     THEN /\ finished' = finished \union {p} /\ writing' = writing \union {p}
          /\ activePieces' = Dropping(activePieces, {p})
     ELSE UNCHANGED <<finished, writing, activePieces>>
  /\ UNCHANGED <<pending, peerVars, onDisk, modeVars, otherVars>>
PieceMessage(w, p, b, good) ==
  LET ask == [who |-> w, piece |-> p, block |-> b]
      rest == Dropping(pending, AsksFor(p, {b}))
      whole == Missing(p) \ {b} = {}
      bad == ~good \/ p \in spoilt
  IN  /\ ask \in wire /\ p \in Owned(w)
      /\ wire' = wire \ {ask}
      /\ Trouble(IF good THEN 0 ELSE 1)
      /\ \/ /\ ~Pending(p, b, pending)
            /\ UNCHANGED <<activePieces, pending, dataVars>>
         \/ /\ Pending(p, b, pending) /\ ~whole
            /\ pending' = rest
            /\ received' = received \union {<<p, b>>}
            /\ spoilt' = spoilt \union (IF bad THEN {p} ELSE {})
            /\ UNCHANGED <<activePieces, finished, writing, onDisk>>
         \/ /\ Pending(p, b, pending) /\ whole /\ ~bad
            /\ pending' = rest
            /\ received' = received \union {<<p, b>>}
            /\ finished' = finished \union {p}
            /\ activePieces' = Dropping(activePieces, {p})
            /\ writing' = writing \union {p}
            /\ UNCHANGED <<spoilt, onDisk>>
         \/ /\ Pending(p, b, pending) /\ whole /\ bad
            /\ received' = received \ ({p} \X BlocksOf(p))
            /\ spoilt' = spoilt \ {p}
            /\ activePieces' = Dropping(activePieces, {p})
            /\ pending' = Dropping(pending, AsksFor(p, BlocksOf(p)))
            /\ UNCHANGED <<finished, writing, onDisk>>
      /\ UNCHANGED <<peerVars, modeVars, otherVars>>

(* The rest of _handleVerifiedPiece, after the write: a failed write is only
   reported.  When every piece is counted the manager stops and reports. *)
WriteReportsFirst(p, ok) ==                                      \* mutant
  /\ p \in writing /\ Trouble(IF ok THEN 0 ELSE 1)
  /\ writing' = writing \ {p}
  /\ onDisk' = IF ok THEN onDisk \union {p} ELSE onDisk
  /\ IF finished = DPiece /\ writing' # {}
     THEN /\ isDone' = TRUE /\ running' = FALSE /\ halted' = TRUE
          /\ reports' = Report(1)
     ELSE UNCHANGED <<isDone, running, halted, reports>>
  /\ UNCHANGED <<peerVars, requestVars, received, spoilt, finished, skipped, otherVars>>
WriteEnds(p, ok) ==
  /\ p \in writing /\ Trouble(IF ok THEN 0 ELSE 1)
  /\ writing' = writing \ {p}
  /\ onDisk' = IF ok THEN onDisk \union {p} ELSE onDisk
  /\ IF finished = DPiece
     THEN /\ isDone' = TRUE /\ running' = FALSE /\ halted' = TRUE
          /\ reports' = Report(1)
     ELSE UNCHANGED <<isDone, running, halted, reports>>
  /\ UNCHANGED <<peerVars, requestVars, received, spoilt, finished, skipped, otherVars>>

(* handleRequestTimeout drops the requests older than 30 s, the oldest ones.  A
   peer that can answer is that late only as one of the troubles. *)
CanAnswer(r) == r \in wire /\ r.who \in unchoked /\ r.piece \in Owned(r.who)
TimeoutNever(n) == FALSE /\ n \in DOMAIN pending                 \* mutant
HandleRequestTimeout(n) ==
  /\ running /\ ~halted /\ n \in DOMAIN pending
  /\ Trouble(Cardinality({i \in 1..n : CanAnswer(pending[i])}))
  /\ pending' = SubSeq(pending, n + 1, Len(pending))
  /\ received' = received \ {<<pending[i].piece, pending[i].block>> : i \in 1..n}
  /\ UNCHANGED <<peerVars, activePieces, wire, spoilt, finished, writing, onDisk,
                 modeVars, otherVars>>
-----------------------------------------------------------------------------
StartDownload ==
  /\ ~running
  /\ running' = TRUE /\ halted' = FALSE
  /\ UNCHANGED <<peerVars, requestVars, dataVars, skipped, isDone, reports, otherVars, trouble>>
PauseDownload ==
  /\ halted' = TRUE
  /\ UNCHANGED <<peerVars, requestVars, dataVars, running, skipped, isDone, reports,
                 otherVars, trouble>>
(* resume asks at once when the manager runs. *)
ResumeDownload ==
  /\ halted' = FALSE
  /\ UNCHANGED <<peerVars, requestVars, dataVars, running, skipped, isDone, reports,
                 otherVars, trouble>>
StopDownload ==
  /\ running' = FALSE /\ halted' = TRUE
  /\ UNCHANGED <<peerVars, requestVars, dataVars, skipped, isDone, reports, otherVars, trouble>>

(* setSkippedPieces, with _checkCompletion.  Only here does it count that the
   wanted pieces are complete. *)
SetSkippedPieces(S) ==
  /\ Trouble(1)
  /\ skipped' = S
  /\ IF S # DPiece /\ DPiece \ S \subseteq finished /\ ~isDone
     THEN isDone' = TRUE /\ reports' = Report(1)
     ELSE UNCHANGED <<isDone, reports>>
  /\ UNCHANGED <<peerVars, requestVars, dataVars, running, halted, otherVars>>
ClearSkippedPieces ==
  /\ skipped # {}
  /\ skipped' = {}
  /\ UNCHANGED <<peerVars, requestVars, dataVars, running, halted, isDone, reports,
                 otherVars, trouble>>

(* torrent._applyVerificationResults: the counted pieces that are not on disk are
   no longer counted; their Piece objects stay as they are. *)
ApplyVerificationResults ==
  /\ finished \ onDisk # {}
  /\ finished' = finished \intersect onDisk
  /\ revoked' = revoked \union (finished \ onDisk)
  /\ UNCHANGED <<peerVars, requestVars, received, spoilt, writing, onDisk, modeVars,
                 initial, down, trouble>>

DownloadNext ==
  /\ ~down
  /\ \/ RequestBlocks \/ StartDownload \/ PauseDownload \/ ResumeDownload \/ StopDownload
     \/ ApplyVerificationResults \/ ClearSkippedPieces
     \/ \E w \in DPeer : \/ PeerConnected(w) \/ BitfieldMessage(w) \/ Unchoke(w)
                         \/ Choke(w) \/ PeerDisconnected(w)
     \/ \E w \in DPeer, p \in DPiece : HaveMessage(w, p)
     \/ \E r \in wire, good \in BOOLEAN : PieceMessage(r.who, r.piece, r.block, good)
     \/ \E p \in writing, ok \in BOOLEAN : WriteEnds(p, ok)
     \/ \E n \in DOMAIN pending : HandleRequestTimeout(n)
     \/ \E S \in SUBSET DPiece : SetSkippedPieces(S)

(* The request and timeout loops are interval timers, a write ends, and a peer
   that can answers what it is asked. *)
LoopRuns == ~down /\ RequestBlocks
RequestExpires == ~down /\ \E n \in DOMAIN pending : HandleRequestTimeout(n)
WriteSucceeds(p) == ~down /\ WriteEnds(p, TRUE)
PeerAnswers(w) ==
  ~down /\ w \in unchoked /\ \E r \in wire : r.who = w /\ PieceMessage(w, r.piece, r.block, TRUE)
DownloadFairness ==
  /\ WF_downloadVars(LoopRuns) /\ WF_downloadVars(RequestExpires)
  /\ \A p \in DPiece : WF_downloadVars(WriteSucceeds(p))
  /\ \A w \in DPeer : WF_downloadVars(PeerAnswers(w))

DownloadSpec == DownloadInit /\ [][DownloadNext]_downloadVars /\ DownloadFairness
-----------------------------------------------------------------------------
(* Type invariant. *)
DownloadTypeOK ==
  /\ connected \in Seq(DPeer) /\ IsInjective(connected)
  /\ unchoked \union described \subseteq ToSet(connected)
  /\ announced \in [DPeer -> SUBSET DPiece]
  /\ availability \in [DPiece -> Nat]
  /\ activePieces \in Seq(DPiece) /\ pending \in Seq(Ask) /\ wire \subseteq Ask
  /\ received \subseteq Blocks
  /\ spoilt \subseteq DPiece /\ writing \subseteq finished \union revoked
  /\ finished \subseteq DPiece /\ onDisk \subseteq DPiece /\ skipped \subseteq DPiece
  /\ {running, halted, isDone, down} \subseteq BOOLEAN
  /\ reports \in 0..2 /\ initial \subseteq DPiece /\ revoked \subseteq DPiece
  /\ trouble \in 0..MaxTrouble

(* A block that is asked for is missing, and a counted piece has nothing pending:
   so a late, repeated or slow answer never touches a piece that was counted, or
   the buffer its write is using.  Requests are dropped in five places. *)
PendingIsMissing ==
  \A i \in DOMAIN pending :
    /\ <<pending[i].piece, pending[i].block>> \notin received
    /\ pending[i].piece \notin finished \union writing
    /\ pending[i].piece \in ToSet(activePieces)

(* A piece that a connected peer offers in the bitfield it sent, while it does not
   choke us, is counted in the end, although requests also go to peers that do not
   have the piece and the first missing block blocks its piece: as long as the
   download runs, and unless the piece is skipped, a verification took it back
   (its Piece keeps all blocks, so it is never asked for again), or a peer that
   does not choke us and has sent no bitfield has brought the process down. *)
OfferedPieceArrives ==
  \A p \in DPiece :
    []<>( \/ p \in finished \union skipped \union revoked
          \/ ~running \/ halted \/ down
          \/ ~\E w \in unchoked \intersect described : p \in BitfieldOf[w] )

(* A download whose pieces are all counted reports it, whatever order the writes
   end in and whether they fail, unless there was nothing left to write from the
   start (then nothing ever reports it). *)
CompletionReported ==
  []<>( \/ finished # DPiece \/ reports > 0 \/ initial = DPiece )
=============================================================================
