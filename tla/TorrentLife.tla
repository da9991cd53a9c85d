---------------------------- MODULE TorrentLife ----------------------------
(***************************************************************************)
(* torrent.js: the life of one Torrent object under start, pause, resume,  *)
(* stop and file selection calls that overlap.  start and stop are async:  *)
(* they await the peers and the metadata of a magnet link, the             *)
(* verification of the files on disk and an announce, and every call that  *)
(* comes in between sees the fields as they are then.  A start makes a     *)
(* DownloadManager and a PeerManager of its own and overwrites             *)
(* _downloadManager and _peerManager; those of start n have number n here. *)
(* What a manager does is module Download: here it has pieces left, has    *)
(* the write of its last piece pending, has every piece and reported it,   *)
(* or had every piece when it was made.  An announce that hangs (module    *)
(* Trackers) leaves the call that awaits it hanging.                       *)
(***************************************************************************)
EXTENDS Integers, FiniteSets

CONSTANTS MaxStarts, \* bound: calls of start that get past its first check
          MaxStops   \* bound: calls of stop

ASSUME TorrentAssumption == MaxStarts \in Nat \ {0} /\ MaxStops \in Nat

VARIABLES tState,
          isStopping,    \* _isStopping
          needsMetadata,
          starting,      \* start calls in flight: number -> what they await
          session,       \* whose MetadataDownloader is _metadataDownloader, 0 for none
          stopping,      \* stop calls that await their announce
          closing,       \* stop calls that await the files
          limiting,      \* a _stopSeeding in flight
          managers,      \* number -> [run, left, complete]
          current,       \* _downloadManager, 0 for none
          openPeers,     \* the PeerManagers that are not destroyed (while orderly)
          peerManager,   \* _peerManager, 0 for none
          intervals,     \* announce (and statistics) intervals that tick
          handle,        \* _announceInterval is set
          told,          \* the last the trackers heard was started or completed, and not
                         \* after a stop
          hung,          \* calls that hang: a start since the last call, a stop whose
                         \* _isStopping is still set
          starts, stops, \* calls so far
          orderly,       \* no start came during a start or stop, while paused, or after
                         \* seeding ended by a limit (its interval still ticks then), and
                         \* no selection of files completed a torrent that was not at work
          spared,        \* PeerManagers of starts that were verified after a stop, or
                         \* whose metadata timed out
          limited        \* the last to end the torrent was a seeding limit

callVars == <<starts, stops>>
stopVars == <<stopping, closing, limiting, hung, limited>>
peerLifeVars == <<openPeers, peerManager, spared>>
timerVars == <<intervals, handle>>
lifeVars == <<tState, isStopping, needsMetadata, starting, session, stopVars, managers,
              current, peerLifeVars, timerVars, told, callVars, orderly>>

TState == {"idle", "fetching_metadata", "checking", "downloading", "paused",
           "seeding", "stopping", "stopped", "error"}
Start == 1..MaxStarts
Manager == [run : {"no", "yes", "halted"}, complete : BOOLEAN,
            left : {"some", "write", "done", "nothing"}]
NewManager(left) == [run |-> "no", complete |-> FALSE, left |-> left]
Runs(n) == managers[n].run # "no"

LifeInit ==
  /\ tState = "idle" /\ isStopping = FALSE /\ needsMetadata \in BOOLEAN
  /\ starting = [n \in {} |-> "checking"] /\ session = 0
  /\ stopping = 0 /\ closing = 0 /\ limiting = FALSE /\ hung = {} /\ limited = FALSE
  /\ managers = [n \in Start |-> NewManager("some")] /\ current = 0
  /\ openPeers = {} /\ peerManager = 0 /\ spared = {}
  /\ intervals = 0 /\ handle = FALSE /\ told = FALSE
  /\ starts = 0 /\ stops = 0 /\ orderly = TRUE

Awaits(n, what) == [m \in DOMAIN starting \union {n} |-> IF m = n THEN what ELSE starting[m]]
Ended(n) == [m \in DOMAIN starting \ {n} |-> starting[m]]
InFlight(n, what) == n \in DOMAIN starting /\ starting[n] = what
GivenUp == isStopping \/ tState \in {"stopped", "stopping"}
TellActive == told' = (orderly /\ ~GivenUp)
Working == {"downloading", "paused"}

MakePeers(n) ==
  /\ openPeers' = (IF orderly THEN openPeers \union {n} ELSE openPeers)
  /\ peerManager' = n
DestroyPeers == openPeers' = openPeers \ {peerManager} /\ peerManager' = 0
Spare(n) == spared' = IF orderly THEN spared \union {n} ELSE spared
(* What StoppedIsQuiet asks for is kept as long as the calls are orderly. *)
Kept(peers, heard) ==
  IF orderly' THEN openPeers' = peers /\ told' = heard /\ UNCHANGED <<spared, limited>>
  ELSE openPeers' = {} /\ told' = FALSE /\ spared' = {} /\ limited' = FALSE
(* _cleanupMetadataSession, while there is one. *)
EndSession == session' = 0 /\ DestroyPeers
-----------------------------------------------------------------------------
(* start, up to its first await. *)
BeginStart(n) ==
  /\ n = starts + 1 /\ n <= MaxStarts
  /\ tState \notin {"downloading", "seeding", "fetching_metadata"}
  /\ starts' = n
  /\ IF needsMetadata
     THEN /\ tState' = "fetching_metadata" /\ starting' = Awaits(n, "connecting")
          /\ session' = n /\ peerManager' = n
     ELSE /\ tState' = "checking" /\ starting' = Awaits(n, "checking")
          /\ UNCHANGED <<session, peerManager>>
  /\ hung' = hung \ {"start"}
  /\ orderly' = (orderly /\ DOMAIN starting = {} /\ stopping = 0 /\ closing = 0
                   /\ "stop" \notin hung /\ ~limiting /\ ~handle
                   /\ tState \in {"idle", "stopped", "error"}
                   /\ \A m \in Start : managers[m].left # "write")
  /\ Kept(IF needsMetadata THEN openPeers \union {n} ELSE openPeers, told)
  /\ UNCHANGED <<isStopping, needsMetadata, stopping, closing, limiting, managers, current,
                 timerVars, stops>>

(* _downloadMetadata: the peers of the magnet link are tried, and trackers are told,
   also after a stop.  After the search in the DHT it gives up if the session ended. *)
PeersTried(n) ==
  /\ InFlight(n, "connecting")
  /\ starting' = Awaits(n, "searching") /\ TellActive
  /\ UNCHANGED <<tState, isStopping, needsMetadata, session, stopVars, managers, current,
                 peerLifeVars, timerVars, callVars, orderly>>
Searched(n) ==
  /\ InFlight(n, "searching")
  /\ IF GivenUp \/ session = 0 \/ peerManager = 0
     THEN starting' = Ended(n) /\ tState' = "error"
     ELSE starting' = Awaits(n, "fetching") /\ UNCHANGED tState
  /\ UNCHANGED <<isStopping, needsMetadata, session, stopVars, managers, current,
                 peerLifeVars, timerVars, told, callVars, orderly>>

(* The metadata is complete: _handleMetadataComplete, and start goes on unless the
   torrent was stopped. *)
MetadataComplete(n) ==
  /\ InFlight(n, "fetching") /\ session = n
  /\ EndSession
  /\ IF GivenUp
     THEN starting' = Ended(n) /\ UNCHANGED <<needsMetadata, tState>>
     ELSE /\ starting' = Awaits(n, "checking")
          /\ needsMetadata' = FALSE /\ tState' = "checking"
  /\ UNCHANGED <<isStopping, stopVars, managers, current, spared, timerVars, told, callVars,
                 orderly>>

(* No metadata: an error ends the session, the timeout of five minutes does not.  A
   start whose session is gone has no timeout, but may still find that it has no peers. *)
MetadataFails(n) ==
  /\ InFlight(n, "connecting") \/ InFlight(n, "fetching")
  /\ EndSession /\ UNCHANGED spared
  /\ starting' = Ended(n) /\ tState' = "error"
  /\ UNCHANGED <<isStopping, needsMetadata, stopVars, managers, current, timerVars, told,
                 callVars, orderly>>
MetadataTimeout(n) ==
  /\ InFlight(n, "searching") \/ InFlight(n, "fetching")
  /\ session = n
  /\ Spare(n)
  /\ starting' = Ended(n) /\ tState' = "error"
  /\ UNCHANGED <<isStopping, needsMetadata, session, stopVars, managers, current, openPeers,
                 peerManager, timerVars, told, callVars, orderly>>

(* The files cannot be opened or read: start's catch. *)
StartFails(n) ==
  /\ InFlight(n, "checking")
  /\ starting' = Ended(n) /\ tState' = "error"
  /\ UNCHANGED <<isStopping, needsMetadata, session, stopVars, managers, current,
                 peerLifeVars, timerVars, told, callVars, orderly>>

(* The files are verified: new peer and download managers and an announce, whatever
   happened to the torrent in the meantime; pieces found on disk count as complete. *)
FilesVerified(n, all) ==
  /\ InFlight(n, "checking")
  /\ starting' = Awaits(n, "announcing")
  /\ managers' = [managers EXCEPT ![n] = NewManager(IF all THEN "nothing" ELSE "some")]
  /\ current' = n
  /\ MakePeers(n) /\ IF GivenUp THEN Spare(n) ELSE UNCHANGED spared
  /\ TellActive
  /\ UNCHANGED <<tState, isStopping, needsMetadata, session, stopVars, timerVars, callVars,
                 orderly>>

(* After the announce (which fails only with an event): the manager of the torrent,
   which may be another start's, begins; the intervals are set over older ones. *)
AnnouncedUnchecked(n) ==                                         \* mutant
  /\ InFlight(n, "announcing")
  /\ starting' = Ended(n)
  /\ managers' = [managers EXCEPT ![current].run = "yes"]
  /\ tState' = "downloading" /\ intervals' = intervals + 1 /\ handle' = TRUE
  /\ UNCHANGED <<isStopping, needsMetadata, session, stopVars, current, peerLifeVars, told,
                 callVars, orderly>>
Announced(n) ==
  /\ InFlight(n, "announcing")
  /\ starting' = Ended(n)
  /\ IF GivenUp
     THEN UNCHANGED <<managers, tState, intervals, handle>>
     ELSE /\ managers' = [managers EXCEPT ![current].run = IF @ = "no" THEN "yes" ELSE @]
          /\ tState' = "downloading"
          /\ intervals' = intervals + 1 /\ handle' = TRUE
  /\ UNCHANGED <<isStopping, needsMetadata, session, stopVars, current, peerLifeVars, told,
                 callVars, orderly>>
StartHangs(n) ==
  /\ InFlight(n, "announcing")
  /\ starting' = Ended(n) /\ hung' = hung \union {"start"}
  /\ UNCHANGED <<tState, isStopping, needsMetadata, session, stopping, closing, limiting,
                 limited, managers, current, peerLifeVars, timerVars, told, callVars, orderly>>
-----------------------------------------------------------------------------
PauseTorrent ==
  /\ tState = "downloading"
  /\ managers' = [managers EXCEPT ![current].run = IF @ = "no" THEN "no" ELSE "halted"]
  /\ tState' = "paused"
  /\ UNCHANGED <<isStopping, needsMetadata, starting, session, stopVars, current,
                 peerLifeVars, timerVars, told, callVars, orderly>>
ResumeTorrent ==
  /\ tState = "paused"
  /\ managers' = [managers EXCEPT ![current].run = IF @ = "no" THEN "no" ELSE "yes"]
  /\ tState' = "downloading"
  /\ UNCHANGED <<isStopping, needsMetadata, starting, session, stopVars, current,
                 peerLifeVars, timerVars, told, callVars, orderly>>

(* stop, up to the announce: timers and a metadata session end (the start that
   waits for its metadata never returns), the current manager stops. *)
BeginStop ==
  /\ stops < MaxStops /\ stops' = stops + 1
  /\ tState \notin {"idle", "stopped"}
  /\ isStopping' = TRUE /\ tState' = "stopping" /\ stopping' = stopping + 1
  /\ intervals' = IF handle THEN intervals - 1 ELSE intervals
  /\ handle' = FALSE
  /\ starting' = [n \in {m \in DOMAIN starting : ~(InFlight(m, "fetching") /\ session = m)}
                    |-> starting[n]]
  /\ IF session # 0 \/ needsMetadata
     THEN EndSession
     ELSE UNCHANGED <<session, openPeers, peerManager>>
  /\ managers' = IF current = 0 THEN managers
                 ELSE [managers EXCEPT ![current].run = "no"]
  /\ told' = FALSE /\ hung' = hung \ {"start"} /\ limited' = FALSE
  /\ UNCHANGED <<needsMetadata, closing, limiting, current, spared, starts, orderly>>

(* After the announce the peers go; when the files are closed it ends in "stopped",
   whatever was called meanwhile. *)
StopAnnounced ==
  /\ stopping > 0
  /\ stopping' = stopping - 1 /\ closing' = closing + 1
  /\ DestroyPeers
  /\ UNCHANGED <<tState, isStopping, needsMetadata, starting, session, limiting, hung,
                 limited, managers, current, spared, timerVars, told, callVars, orderly>>
EndStopUnlessStarting ==                                         \* mutant
  /\ closing > 0
  /\ closing' = closing - 1
  /\ tState' = (IF DOMAIN starting = {} THEN "stopped" ELSE tState) /\ isStopping' = FALSE
  /\ hung' = hung \ {"stop"}
  /\ UNCHANGED <<needsMetadata, starting, session, stopping, limiting, limited, managers,
                 current, peerLifeVars, timerVars, told, callVars, orderly>>
EndStop ==
  /\ closing > 0
  /\ closing' = closing - 1
  /\ tState' = "stopped" /\ isStopping' = FALSE
  /\ hung' = hung \ {"stop"}
  /\ UNCHANGED <<needsMetadata, starting, session, stopping, limiting, limited, managers,
                 current, peerLifeVars, timerVars, told, callVars, orderly>>
StopHangs ==
  /\ stopping > 0
  /\ stopping' = stopping - 1 /\ hung' = hung \union {"stop"}
  /\ UNCHANGED <<tState, isStopping, needsMetadata, starting, session, closing, limiting,
                 limited, managers, current, peerLifeVars, timerVars, told, callVars, orderly>>
-----------------------------------------------------------------------------
(* The last piece of a working manager is verified; its write begins. *)
LastPiece(n) ==
  /\ managers[n].run = "yes" /\ managers[n].left = "some"
  /\ managers' = [managers EXCEPT ![n].left = "write"]
  /\ UNCHANGED <<tState, isStopping, needsMetadata, starting, session, stopVars, current,
                 peerLifeVars, timerVars, told, callVars, orderly>>

(* The write has ended, even after a stop: the manager stops itself and reports,
   and _transitionToSeeding follows in any state. *)
TransitionToSeeding(n) ==
  /\ managers[n].left = "write"
  /\ managers' = [managers EXCEPT ![n] =
       [run |-> "no", complete |-> TRUE, left |-> "done"]]
  /\ tState' = "seeding" /\ TellActive
  /\ UNCHANGED <<isStopping, needsMetadata, starting, session, stopVars, current,
                 peerLifeVars, timerVars, callVars, orderly>>

(* A selection of files whose pieces are all there: setSkippedPieces reports it, and
   the manager works on. *)
SelectionComplete ==
  /\ current # 0 /\ ~managers[current].complete
  /\ managers' = [managers EXCEPT ![current].complete = TRUE]
  /\ tState' = "seeding"
  /\ orderly' = (orderly /\ tState \in Working) /\ Kept(openPeers, ~GivenUp)
  /\ UNCHANGED <<isStopping, needsMetadata, starting, session, stopping, closing, limiting,
                 hung, current, peerManager, timerVars, callVars>>

(* _checkSeedingLimits, _stopSeeding: only the seeding timers are cleared; after the
   announce the state is "stopped" in any case. *)
BeginStopSeeding ==
  /\ tState = "seeding" /\ ~limiting
  /\ limiting' = TRUE /\ told' = FALSE
  /\ UNCHANGED <<tState, isStopping, needsMetadata, starting, session, stopping, closing,
                 hung, limited, managers, current, peerLifeVars, timerVars, callVars, orderly>>
EndStopSeeding ==
  /\ limiting
  /\ limiting' = FALSE /\ tState' = "stopped" /\ limited' = (orderly /\ handle)
  /\ UNCHANGED <<isStopping, needsMetadata, starting, session, stopping, closing, hung,
                 managers, current, peerLifeVars, timerVars, told, callVars, orderly>>
StopSeedingHangs ==
  /\ limiting
  /\ limiting' = FALSE
  /\ UNCHANGED <<tState, isStopping, needsMetadata, starting, session, stopping, closing,
                 hung, limited, managers, current, peerLifeVars, timerVars, told, callVars,
                 orderly>>

LifeNext ==
  \/ \E n \in Start :
       \/ BeginStart(n) \/ PeersTried(n) \/ Searched(n) \/ MetadataComplete(n)
       \/ MetadataFails(n) \/ MetadataTimeout(n) \/ StartFails(n)
       \/ Announced(n) \/ StartHangs(n) \/ LastPiece(n) \/ TransitionToSeeding(n)
  \/ \E n \in Start, all \in BOOLEAN : FilesVerified(n, all)
  \/ PauseTorrent \/ ResumeTorrent \/ SelectionComplete
  \/ BeginStop \/ StopAnnounced \/ EndStop \/ StopHangs
  \/ BeginStopSeeding \/ EndStopSeeding \/ StopSeedingHangs

(* What is awaited ends: connecting to peers, the search and the metadata (a timeout,
   as long as the session is the start's own), the verification, a write, closing the
   files.  An announce ends or hangs. *)
StartGoesOn(n) ==
  \/ PeersTried(n) \/ Searched(n) \/ MetadataTimeout(n)
  \/ StartFails(n) \/ FilesVerified(n, FALSE)
  \/ Announced(n) \/ StartHangs(n)
StopAsked == StopAnnounced \/ StopHangs
LimitAsked == EndStopSeeding \/ StopSeedingHangs
LifeFairness ==
  /\ \A n \in Start : WF_lifeVars(StartGoesOn(n)) /\ WF_lifeVars(TransitionToSeeding(n))
  /\ WF_lifeVars(StopAsked) /\ WF_lifeVars(EndStop) /\ WF_lifeVars(LimitAsked)

LifeSpec == LifeInit /\ [][LifeNext]_lifeVars /\ LifeFairness
-----------------------------------------------------------------------------
(* Type invariant. *)
LifeTypeOK ==
  /\ tState \in TState
  /\ {isStopping, needsMetadata, limiting, handle, told, orderly, limited} \subseteq BOOLEAN
  /\ DOMAIN starting \subseteq 1..starts /\ session \in 0..starts
  /\ \A n \in DOMAIN starting :
       starting[n] \in {"connecting", "searching", "fetching", "checking", "announcing"}
  /\ managers \in [Start -> Manager] /\ current \in 0..MaxStarts
  /\ openPeers \union spared \subseteq 1..starts
  /\ peerManager \in 0..starts /\ (orderly => peerManager \in openPeers \union {0})
  /\ intervals \in 0..MaxStarts /\ (handle => intervals > 0)
  /\ hung \subseteq {"start", "stop"}
  /\ starts \in 0..MaxStarts /\ stops \in 0..MaxStops
  /\ stopping \in Nat /\ closing \in Nat /\ stopping + closing <= MaxStops

(* As long as no start comes while another start, stop or late write is in flight,
   while the torrent is paused or after a seeding limit, and no selection of files
   completes a torrent that is not at work: at most one manager works on the files and
   it is the one that pause and stop act on, and a stop leaves nothing at work.  No
   manager runs, no interval ticks; once no stop is in flight, the trackers were not
   told afterwards that the torrent is active and no PeerManager is left.  Two starts
   may spare theirs: one that was verified after the stop (it also announces), and one
   whose metadata timed out.  A seeding limit stops none of these. *)
StoppedIsQuiet ==
  orderly =>
    /\ \A n \in Start : Runs(n) => n = current
    /\ tState \in {"stopped", "stopping", "idle"} /\ ~limited =>
         intervals = 0 /\ \A n \in Start : ~Runs(n)
    /\ tState = "stopped" /\ ~limited => ~told
    /\ tState = "stopped" /\ ~limited /\ stopping = 0 /\ "stop" \notin hung =>
         openPeers \subseteq spared

(* However the calls overlap, the torrent leaves its passing states: no start or
   stop is left hanging with the state it set on its way, unless its announce hangs
   (after a stop that hangs, the starts give up too). *)
PassingStatesEnd ==
  []<>( \/ tState \notin {"fetching_metadata", "checking", "stopping"}
        \/ tState = "checking" /\ "start" \in hung
        \/ "stop" \in hung )
=============================================================================
