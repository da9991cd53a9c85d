----------------------------- MODULE ColdStart -----------------------------
(***************************************************************************)
(* s3Streamer.js: a torrent without peers is filled from an HTTP source,   *)
(* piece by piece, by the node that holds the genesis lease; each piece    *)
(* goes to the content store (casStore.js), to the file (fileWriter.js)    *)
(* and into the download manager's counts.  workerConsumer.js starts it    *)
(* while the torrent itself may still be starting, and makes the torrent a *)
(* seeder when the stream ends.  The lease is Lease's; here it is granted  *)
(* or not, and lost at any time.  The source may be shorter or longer than *)
(* the torrent: a piece it ends in is handed over like a whole one, and    *)
(* one after the last stands for all it has too many.                      *)
(***************************************************************************)
EXTENDS Naturals, FiniteSets

CONSTANTS NumCold,      \* pieces of the torrent
          MaxAttempts,  \* maxRetries
          MaxMalfunctions \* bound on what the source and the disks do wrong

ASSUME ColdAssumption ==
  NumCold \in Nat \ {0} /\ MaxAttempts \in Nat \ {0} /\ MaxMalfunctions \in Nat

ColdPiece == 0..NumCold - 1
Handed == 0..NumCold            \* the last is no piece of the torrent
Nothing == [piece |-> 0, at |-> "none", whole |-> TRUE]
Ready(p) == [piece |-> p, at |-> "ready", whole |-> TRUE]

VARIABLES stream,     \* what start waits for
          attempt,    \* of _streamWithRetry
          leaseHeld, renewing, \* the genesis lease and the renewal interval
          aborted,
          reading,    \* the piece in hand, what becomes of it, is it all there
          straggler,  \* the one of an attempt that failed: it goes on by itself
          writer, manager, \* the torrent has a FileWriter, a DownloadManager
          checking,   \* the torrent's own start is under way
          stored,     \* pieces in the content store (the last one of a source that
                      \* is too long with bytes too many)
          inFile,     \* whole pieces in the file
          counted,    \* completedPieces
          bytes,      \* downloadedBytes, in pieces
          verdict,    \* what the worker reports
          cut,        \* pieces the source ended in
          ending,     \* how the stream that resolved start ended
          malfunctions

coldVars == <<stream, attempt, leaseHeld, renewing, aborted, reading, straggler, writer,
              manager, checking, stored, inFile, counted, bytes, verdict, cut,
              ending, malfunctions>>
leaseVars == <<leaseHeld, renewing, aborted>>
pieceVars == <<reading, straggler, stored, inFile, counted, bytes>>
torrentSide == <<writer, manager, checking>>

ColdInit ==
  /\ stream = "none" /\ attempt = 0
  /\ leaseHeld = FALSE /\ renewing = FALSE /\ aborted = FALSE
  /\ reading = Nothing /\ straggler = Nothing
  /\ writer = FALSE /\ manager = FALSE /\ checking = "no"
  /\ stored = {} /\ inFile = {} /\ counted = {} /\ bytes = 0
  /\ verdict = "none" /\ cut = {} /\ ending = "none" /\ malfunctions = 0

Malfunction == malfunctions < MaxMalfunctions /\ malfunctions' = malfunctions + 1
MayFail(ok) == IF ok THEN UNCHANGED malfunctions ELSE Malfunction
-----------------------------------------------------------------------------
(* start: without the lease it reports a stream of no pieces, which is a success; a
   Redis that does not answer makes it fail.  The resume point is always the first
   piece: torrents have no pieceManager. *)
StartCold(answer) ==
  /\ stream = "none" /\ MayFail(answer # "error")
  /\ stream' = IF answer = "granted" THEN "opening" ELSE "ended"
  /\ attempt' = IF answer = "granted" THEN 1 ELSE 0
  /\ leaseHeld' = (answer = "granted") /\ renewing' = (answer = "granted")
  /\ verdict' = CASE answer = "granted" -> "none" [] answer = "denied" -> "completed"
                  [] answer = "error" -> "failed"
  /\ ending' = IF answer = "denied" THEN "denied" ELSE ending
  /\ UNCHANGED <<aborted, pieceVars, torrentSide, cut>>

LeaseLost ==
  /\ leaseHeld /\ Malfunction /\ leaseHeld' = FALSE
  /\ UNCHANGED <<stream, attempt, renewing, aborted, pieceVars, torrentSide, verdict, cut,
                 ending>>

(* The stream is over for the attempt: what is in hand goes on without it. *)
LeavesBehind ==
  /\ reading' = Nothing
  /\ straggler' \in IF reading.at = "done" THEN {straggler} ELSE {straggler, reading}
(* _streamWithRetry after a failure; _cleanup, the release and the worker's .catch
   after the last. *)
Fails(broken) ==
  IF broken \/ attempt = MaxAttempts
  THEN stream' = "ended" /\ leaseHeld' = FALSE /\ renewing' = FALSE /\ verdict' = "failed"
  ELSE stream' = "backoff" /\ UNCHANGED <<leaseHeld, renewing, verdict>>
(* It succeeds: the worker has its seeder (_forceSeeding) and reports a completed
   transfer, unless the release throws, which makes a failure of it. *)
Succeeds(how, released) ==
  /\ stream' = "ended" /\ renewing' = FALSE /\ ending' = how /\ MayFail(released)
  /\ leaseHeld' = (leaseHeld /\ ~released)
  /\ verdict' = IF released THEN "completed" ELSE "failed"

(* The renewal notices (or throws): _abort.  A stream that is being read is cut off, a
   retry sees the flag; a request that is being opened is not told. *)
Abort ==
  /\ renewing /\ ~leaseHeld /\ ~aborted
  /\ aborted' = TRUE
  /\ IF stream = "reading"
     THEN Fails(TRUE) /\ LeavesBehind
     ELSE UNCHANGED <<stream, leaseHeld, renewing, verdict, reading, straggler>>
  /\ UNCHANGED <<attempt, stored, inFile, counted, bytes, torrentSide, cut, ending,
                 malfunctions>>

(* _openStream: the response is good.  After an abort it is destroyed before anyone
   listens for its error: an uncaught exception, and the process goes down (what is in
   hand goes on until it has). *)
OpenStream ==
  /\ stream = "opening"
  /\ IF aborted THEN stream' = "down" /\ UNCHANGED reading
     ELSE stream' = "reading" /\ reading' = Ready(0)
  /\ UNCHANGED <<attempt, leaseVars, straggler, stored, inFile, counted, bytes, torrentSide,
                 verdict, cut, ending, malfunctions>>
(* Another status, redirects without end, a timeout; after an abort it is final. *)
OpenFails ==
  /\ stream = "opening" /\ Malfunction /\ Fails(aborted)
  /\ UNCHANGED <<attempt, aborted, pieceVars, torrentSide, cut, ending>>
(* 416, nothing in this range: a success, whatever is stored, and after an abort too. *)
RangeRefused(released) ==
  /\ stream = "opening" /\ malfunctions < MaxMalfunctions /\ Succeeds("refused", released)
  /\ UNCHANGED <<attempt, aborted, pieceVars, torrentSide, cut>>

(* The delay is over: from the first piece again. *)
Retry ==
  /\ stream = "backoff"
  /\ IF aborted THEN Fails(TRUE) /\ UNCHANGED attempt
     ELSE /\ stream' = "opening" /\ attempt' = attempt + 1
          /\ UNCHANGED <<leaseHeld, renewing, verdict>>
  /\ UNCHANGED <<aborted, pieceVars, torrentSide, cut, ending, malfunctions>>

ConnectionBreaks ==
  /\ stream = "reading" /\ Malfunction
  /\ Fails(FALSE) /\ LeavesBehind
  /\ UNCHANGED <<attempt, aborted, stored, inFile, counted, bytes, torrentSide, cut, ending>>
-----------------------------------------------------------------------------
(* onPieceReady, of the stream or of a straggler: after store (which takes a file that
   is there for a good one) the writer is asked for at that moment, then the manager,
   which counts a piece that is not all there as well and throws for one the torrent
   does not have. *)
Countable(h) == manager => h.piece \in ColdPiece
Counts(h) ==
  /\ counted' = IF manager THEN counted \union {h.piece} ELSE counted
  /\ bytes' = IF manager THEN bytes + 1 ELSE bytes
Whole(h) == IF h.whole THEN {h.piece} \intersect ColdPiece ELSE {}
CountedEarly(h) == stored' = stored \union Whole(h) /\ Counts(h)  \* mutant
Stored(h) == stored' = stored \union Whole(h) /\ UNCHANGED <<counted, bytes>>
InHand == <<stream, leaseHeld, renewing, verdict>>

(* store: with a writer the piece is written next, without it is counted at once. *)
StoreChunk ==
  /\ reading.at = "ready"
  /\ IF writer
     THEN Stored(reading) /\ reading' = [reading EXCEPT !.at = "writing"] /\ UNCHANGED InHand
     ELSE /\ stored' = stored \union Whole(reading)
          /\ IF Countable(reading)
             THEN Counts(reading) /\ reading' = [reading EXCEPT !.at = "done"] /\ UNCHANGED InHand
             ELSE Fails(FALSE) /\ reading' = Nothing /\ UNCHANGED <<counted, bytes>>
  /\ UNCHANGED <<attempt, aborted, straggler, inFile, torrentSide, cut, ending, malfunctions>>
WriteChunk ==
  /\ reading.at = "writing"
  /\ inFile' = inFile \union Whole(reading)
  /\ IF Countable(reading)
     THEN Counts(reading) /\ reading' = [reading EXCEPT !.at = "done"] /\ UNCHANGED InHand
     ELSE Fails(FALSE) /\ reading' = Nothing /\ UNCHANGED <<counted, bytes>>
  /\ UNCHANGED <<attempt, aborted, straggler, stored, torrentSide, cut, ending, malfunctions>>
(* The disk refuses. *)
ChunkFails ==
  /\ reading.at \in {"ready", "writing"} /\ Malfunction
  /\ Fails(FALSE) /\ reading' = Nothing
  /\ UNCHANGED <<attempt, aborted, straggler, stored, inFile, counted, bytes, torrentSide, cut,
                 ending>>

StragglerStores ==
  /\ straggler.at = "ready"
  /\ IF writer
     THEN straggler' = [straggler EXCEPT !.at = "writing"] /\ Stored(straggler)
     ELSE /\ straggler' = Nothing /\ stored' = stored \union Whole(straggler)
          /\ IF Countable(straggler) THEN Counts(straggler) ELSE UNCHANGED <<counted, bytes>>
  /\ UNCHANGED <<stream, attempt, leaseVars, reading, inFile, torrentSide, verdict, cut,
                 ending, malfunctions>>
StragglerWrites(ok) ==
  /\ straggler.at = "writing" /\ MayFail(ok) /\ straggler' = Nothing
  /\ inFile' = IF ok THEN inFile \union Whole(straggler) ELSE inFile
  /\ IF ok /\ Countable(straggler) THEN Counts(straggler) ELSE UNCHANGED <<counted, bytes>>
  /\ UNCHANGED <<stream, attempt, leaseVars, reading, stored, torrentSide, verdict, cut, ending>>

(* The next piece; a source that is too long has one more than the torrent. *)
NextChunk ==
  /\ stream = "reading" /\ reading.at = "done" /\ reading.whole /\ reading.piece < NumCold
  /\ MayFail(reading.piece < NumCold - 1)
  /\ reading' = Ready(reading.piece + 1)
  /\ UNCHANGED <<stream, attempt, leaseVars, straggler, stored, inFile, counted, bytes,
                 torrentSide, verdict, cut, ending>>
(* _flush: the source has ended in the middle of a piece, which is handed over. *)
LastChunkIsCut ==
  /\ stream = "reading" /\ reading.at = "ready" /\ reading.whole /\ reading.piece \in ColdPiece
  /\ Malfunction
  /\ reading' = [reading EXCEPT !.whole = FALSE] /\ cut' = cut \union {reading.piece}
  /\ UNCHANGED <<stream, attempt, leaseVars, straggler, stored, inFile, counted, bytes,
                 torrentSide, verdict, ending>>
(* 'finish': after the last piece, after one that was cut, or at the end of a piece
   before the last (at once, with an empty source). *)
Finishes(how) ==
  IF how = "whole" THEN reading.at = "done" /\ reading.whole /\ reading.piece >= NumCold - 1
  ELSE \/ reading.at = "done" /\ ~reading.whole
       \/ reading.at = "done" /\ reading.piece < NumCold - 1
       \/ reading = Ready(0)
StreamEnds(how, released) ==
  /\ stream = "reading" /\ Finishes(how)
  /\ how = "whole" \/ malfunctions < MaxMalfunctions
  /\ Succeeds(how, released) /\ reading' = Nothing
  /\ UNCHANGED <<attempt, aborted, straggler, stored, inFile, counted, bytes, torrentSide, cut>>

(* torrent.start, again after a stop too, which neither stops the stream nor takes the
   writer away: a new FileWriter, files made and checked, a new DownloadManager.  A
   file that was not there when initialize looked is emptied when it gets to it,
   whatever writePiece, which initializes as well, has written meanwhile. *)
WriterReady ==
  /\ checking = "no" /\ IF writer THEN Malfunction ELSE UNCHANGED malfunctions
  /\ checking' = IF writer THEN "verify" ELSE "initialize"
  /\ writer' = TRUE
  /\ UNCHANGED <<stream, attempt, leaseVars, pieceVars, manager, verdict, cut, ending>>
Initialized ==
  /\ checking = "initialize" /\ checking' = "verify"
  /\ inFile' \in {inFile, {}}
  /\ UNCHANGED <<stream, attempt, leaseVars, reading, straggler, stored, counted, bytes,
                 writer, manager, verdict, cut, ending, malfunctions>>
ManagerReady ==
  /\ checking = "verify" /\ checking' = "no"
  /\ manager' = TRUE
  /\ counted' \in SUBSET inFile /\ bytes' = Cardinality(counted')
  /\ UNCHANGED <<stream, attempt, leaseVars, reading, straggler, stored, inFile, writer,
                 verdict, cut, ending, malfunctions>>

ColdNext ==
  \/ LeaseLost \/ Abort \/ OpenStream \/ OpenFails \/ Retry \/ ConnectionBreaks
  \/ StoreChunk \/ WriteChunk \/ ChunkFails \/ StragglerStores \/ NextChunk \/ LastChunkIsCut
  \/ WriterReady \/ Initialized \/ ManagerReady
  \/ \E answer \in {"granted", "denied", "error"} : StartCold(answer)
  \/ \E ok \in BOOLEAN :
       \/ StragglerWrites(ok) \/ RangeRefused(ok)
       \/ \E how \in {"whole", "short"} : StreamEnds(how, ok)

ColdSpec == ColdInit /\ [][ColdNext]_coldVars
-----------------------------------------------------------------------------
(* Type invariant. *)
ColdTypeOK ==
  /\ stream \in {"none", "opening", "reading", "backoff", "down", "ended"}
  /\ attempt \in 0..MaxAttempts
  /\ leaseHeld \in BOOLEAN /\ renewing \in BOOLEAN /\ aborted \in BOOLEAN
  /\ {reading, straggler} \subseteq
       [piece : Handed, at : {"none", "ready", "writing", "done"}, whole : BOOLEAN]
  /\ writer \in BOOLEAN /\ manager \in BOOLEAN
  /\ checking \in {"no", "initialize", "verify"}
  /\ stored \union inFile \union counted \union cut \subseteq ColdPiece /\ bytes \in Nat
  /\ verdict \in {"none", "completed", "failed"}
  /\ ending \in {"none", "denied", "refused", "short", "whole"}
  /\ malfunctions \in 0..MaxMalfunctions

(* A piece the download manager counts is one of the torrent's and all of it is in the
   file, whatever was going on when it got there: a restarted stream, a straggler of a
   broken one, the torrent starting under the stream, a source that is too long.  Only
   the piece in which a source ended is counted for less.  (What is stored need not be
   in the file: see Initialized.) *)
CountedIsWritten == counted \subseteq inFile \union cut

(* A transfer is reported complete only by a stream that stored every piece: an aborted
   stream and one that ran out of attempts never report it.  A source that ends early,
   one that refuses the range (an aborted stream's too) and a lease that another node
   holds do make seeders of incomplete torrents. *)
VerdictIsEarned ==
  verdict = "completed" => ending \in {"denied", "refused", "short"} \/ stored = ColdPiece

(* Both: what the cold start reports, piece by piece and at its end, has happened. *)
ColdStartHonest == CountedIsWritten /\ VerdictIsEarned
=============================================================================
