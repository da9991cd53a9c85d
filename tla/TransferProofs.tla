--------------------------- MODULE TransferProofs ---------------------------
(***************************************************************************)
(* Proofs about the parts of a running transfer.                           *)
(*                                                                         *)
(* TorrentLife: a stopped torrent is quiet, for any number of overlapping  *)
(* starts, stops, pauses and seeding limits, as long as the calls were     *)
(* orderly.  An orderly start finds no manager at work, no write pending   *)
(* and no stop under way, so nothing but the start itself can leave the    *)
(* passing states that a stop has to see, the interval it sets is the only *)
(* one and its PeerManager the only one that is not spared.  The parts of  *)
(* Orderly say of each kind of call what the others see of it.             *)
(*                                                                         *)
(* Throttler: while a request waits at a bucket the bucket is empty, and a *)
(* client waits at most once, where its sender says.  The queues and the   *)
(* senders say the same of each other (Queues): who waits is in the queue  *)
(* its sender names, with what it asked for, and never twice.              *)
(*                                                                         *)
(* Upload: a choke reaches every upload of its peer that is under way,     *)
(* except where a second upload of a block takes the place of the first.   *)
(* The queue, the places and the runs are sound (Sound): what waits or     *)
(* runs and was not cancelled has an unchoked, connected peer, every place *)
(* names a run of its block, and no more places are taken than there are.  *)
(*                                                                         *)
(* Download: what is asked for is missing and of an active piece, and no   *)
(* counted piece is active (Links); a piece that is being written has all  *)
(* its blocks (Whole); and the availability covers the bitfields of the    *)
(* connected peers (Supply), so it stays a natural number.                 *)
(*                                                                         *)
(* Trackers: the announces that have a timer or are to start are never     *)
(* more than those let in and the one a stop sends.                        *)
(*                                                                         *)
(* The whole transfer: the specification of the run is each part's own, so *)
(* the types of the parts, proved beside each of them, hold of the whole.  *)
(***************************************************************************)
EXTENDS MC_Transfer, SequenceFacts

Passing == {"fetching_metadata", "checking", "stopping", "stopped"}
Resting == {"idle", "stopped", "stopping"}
Verifying == {"checking", "announcing"}
Alive == openPeers \ spared
NobodyRuns == \A n \in Start : ~Runs(n)
NothingPends == \A n \in Start : managers[n].left # "write"

RunnerIsCurrent == \A n \in Start : Runs(n) \/ managers[n].left = "write" => n = current
WorkIsTimed ==
  /\ intervals = IF handle THEN 1 ELSE 0
  /\ ~handle => NobodyRuns /\ tState \notin Working
  /\ handle /\ tState \in Resting => limited
StartIsAlone ==
  \A n \in DOMAIN starting :
    /\ n = starts /\ tState \in Passing /\ ~handle /\ ~limiting /\ NothingPends
    /\ starting[n] = "announcing" => current = n
    /\ starting[n] = "checking" => Alive = {}
    /\ starting[n] \notin Verifying =>
         /\ tState # "checking"
         /\ tState = "fetching_metadata" => session = n /\ peerManager = n
StartIsQuiet ==
  tState \in {"checking", "fetching_metadata"} => NothingPends /\ ~limiting /\ ~handle
StopIsSeen ==
  /\ stopping + closing > 0 =>
       /\ ~handle /\ ~told /\ tState \notin Working
       /\ DOMAIN starting # {} => tState \in {"stopped", "stopping"}
  /\ isStopping => stopping + closing > 0 \/ "stop" \in hung
  /\ closing > 0 => Alive = {}
LimitIsSeen == limiting => tState \in {"seeding", "stopping", "stopped"}
LateIsSeen == handle \/ NothingPends \/ GivenUp
ToldIsSeen == told => handle \/ (tState \notin {"stopped", "stopping"} /\ ~limiting)
PeersAreKept ==
  /\ Alive \subseteq {peerManager}
  /\ Alive # {} => \/ handle \/ stopping > 0 \/ "stop" \in hung
                   \/ (tState \in {"checking", "fetching_metadata"} /\ ~isStopping)
Orderly == /\ RunnerIsCurrent /\ WorkIsTimed /\ StartIsAlone /\ StartIsQuiet
           /\ StopIsSeen /\ LimitIsSeen /\ LateIsSeen /\ ToldIsSeen /\ PeersAreKept

LifeDomains ==
  /\ managers \in [Start -> Manager] /\ current \in 0..MaxStarts
  /\ handle \in BOOLEAN /\ intervals \in Int
  /\ starts \in Nat /\ stopping \in Nat /\ closing \in Nat
  /\ DOMAIN starting \subseteq 1..starts
LifeInv == LifeDomains /\ (orderly => Orderly)
-----------------------------------------------------------------------------
(* A torrent that was never started has nothing at work. *)
LEMMA LifeStart == LifeInit => LifeInv
<1> SUFFICES ASSUME LifeInit PROVE LifeInv
  OBVIOUS
<1> USE DEF LifeInit, NewManager
<1>1. LifeDomains
  <2>1. managers \in [Start -> Manager]
    BY DEF Manager
  <2>2. handle \in BOOLEAN
    OBVIOUS
  <2>3. /\ current \in 0..MaxStarts /\ intervals \in Int /\ starts \in Nat /\ stopping \in Nat
        /\ closing \in Nat
    BY TorrentAssumption
  <2>4. DOMAIN starting \subseteq 1..starts
    OBVIOUS
  <2> QED BY <2>1, <2>2, <2>3, <2>4 DEF LifeDomains
<1>2. RunnerIsCurrent /\ WorkIsTimed
  BY DEF RunnerIsCurrent, WorkIsTimed, NobodyRuns, Runs, Working, Resting
<1>3. StartIsAlone /\ StartIsQuiet
  BY DEF StartIsAlone, StartIsQuiet
<1>4. StopIsSeen /\ LimitIsSeen /\ LateIsSeen /\ ToldIsSeen
  BY DEF StopIsSeen, LimitIsSeen, LateIsSeen, ToldIsSeen, NothingPends
<1>5. PeersAreKept
  BY DEF PeersAreKept, Alive
<1> QED BY <1>1, <1>2, <1>3, <1>4, <1>5 DEF LifeInv, Orderly

(* Every call, and every step of a call, keeps the fields in their domains. *)
LEMMA DomainsStep == LifeDomains /\ [LifeNext]_lifeVars => LifeDomains'
<1> SUFFICES ASSUME LifeDomains, [LifeNext]_lifeVars PROVE LifeDomains'
  OBVIOUS
<1> USE TorrentAssumption DEF LifeDomains, Start, callVars, stopVars, peerLifeVars, timerVars
<1>0. /\ \A m \in Manager, r \in {"no", "yes", "halted"} : [m EXCEPT !.run = r] \in Manager
      /\ \A m \in Manager : /\ m.run \in {"no", "yes", "halted"}
                            /\ [m EXCEPT !.left = "write"] \in Manager
                            /\ [m EXCEPT !.complete = TRUE] \in Manager
      /\ NewManager("nothing") \in Manager /\ NewManager("some") \in Manager
      /\ [run |-> "no", complete |-> TRUE, left |-> "done"] \in Manager
  BY DEF Manager, NewManager
<1>1. ASSUME NEW n \in Start, BeginStart(n) PROVE LifeDomains'
  BY <1>1 DEF BeginStart, Awaits
<1>2. ASSUME NEW n \in Start, PeersTried(n) PROVE LifeDomains'
  BY <1>2 DEF PeersTried, InFlight, Awaits
<1>3. ASSUME NEW n \in Start, Searched(n) PROVE LifeDomains'
  BY <1>3 DEF Searched, InFlight, Awaits, Ended
<1>4. ASSUME NEW n \in Start, MetadataComplete(n) PROVE LifeDomains'
  BY <1>4 DEF MetadataComplete, InFlight, Awaits, Ended
<1>5. ASSUME NEW n \in Start, MetadataFails(n) PROVE LifeDomains'
  BY <1>5 DEF MetadataFails, InFlight, Ended
<1>6. ASSUME NEW n \in Start, MetadataTimeout(n) PROVE LifeDomains'
  BY <1>6 DEF MetadataTimeout, InFlight, Ended
<1>7. ASSUME NEW n \in Start, StartFails(n) PROVE LifeDomains'
  BY <1>7 DEF StartFails, InFlight, Ended
<1>8. ASSUME NEW n \in Start, NEW all \in BOOLEAN, FilesVerified(n, all) PROVE LifeDomains'
  <2>1. managers' \in [Start -> Manager]
    BY <1>0, <1>8 DEF FilesVerified
  <2>2. handle' \in BOOLEAN
    BY <1>8 DEF FilesVerified
  <2>3. /\ intervals' \in Int /\ current' \in 0..MaxStarts
        /\ starts' \in Nat /\ stopping' \in Nat /\ closing' \in Nat
    BY <1>8 DEF FilesVerified
  <2>4. DOMAIN starting' \subseteq 1..starts'
    BY <1>8 DEF FilesVerified, InFlight, Awaits
  <2> QED BY <2>1, <2>2, <2>3, <2>4
<1>9. ASSUME NEW n \in Start, Announced(n) PROVE LifeDomains'
  <2>1. managers' \in [Start -> Manager]
    <3>1. CASE managers' = [managers EXCEPT ![current].run = IF @ = "no" THEN "yes" ELSE @]
      BY <1>0, <3>1
    <3> QED BY <1>9, <3>1 DEF Announced
  <2>2. handle' \in BOOLEAN
    BY <1>9 DEF Announced
  <2>3. /\ intervals' \in Int /\ current' \in 0..MaxStarts
        /\ starts' \in Nat /\ stopping' \in Nat /\ closing' \in Nat
    BY <1>9 DEF Announced
  <2>4. DOMAIN starting' \subseteq 1..starts'
    BY <1>9 DEF Announced, InFlight, Ended
  <2> QED BY <2>1, <2>2, <2>3, <2>4
<1>10. ASSUME NEW n \in Start, StartHangs(n) PROVE LifeDomains'
  BY <1>10 DEF StartHangs, InFlight, Ended
<1>11. ASSUME NEW n \in Start, LastPiece(n) PROVE LifeDomains'
  <2>1. managers' \in [Start -> Manager]
    BY <1>0, <1>11 DEF LastPiece
  <2>2. handle' \in BOOLEAN
    BY <1>11 DEF LastPiece
  <2>3. /\ intervals' \in Int /\ current' \in 0..MaxStarts
        /\ starts' \in Nat /\ stopping' \in Nat /\ closing' \in Nat
    BY <1>11 DEF LastPiece
  <2>4. DOMAIN starting' \subseteq 1..starts'
    BY <1>11 DEF LastPiece
  <2> QED BY <2>1, <2>2, <2>3, <2>4
<1>12. ASSUME NEW n \in Start, TransitionToSeeding(n) PROVE LifeDomains'
  <2>1. managers' \in [Start -> Manager]
    BY <1>0, <1>12 DEF TransitionToSeeding
  <2>2. handle' \in BOOLEAN
    BY <1>12 DEF TransitionToSeeding
  <2>3. /\ intervals' \in Int /\ current' \in 0..MaxStarts
        /\ starts' \in Nat /\ stopping' \in Nat /\ closing' \in Nat
    BY <1>12 DEF TransitionToSeeding
  <2>4. DOMAIN starting' \subseteq 1..starts'
    BY <1>12 DEF TransitionToSeeding
  <2> QED BY <2>1, <2>2, <2>3, <2>4
<1>13. CASE PauseTorrent
  <2>1. managers' \in [Start -> Manager]
    BY <1>0, <1>13 DEF PauseTorrent
  <2>2. handle' \in BOOLEAN
    BY <1>13 DEF PauseTorrent
  <2>3. /\ intervals' \in Int /\ current' \in 0..MaxStarts
        /\ starts' \in Nat /\ stopping' \in Nat /\ closing' \in Nat
    BY <1>13 DEF PauseTorrent
  <2>4. DOMAIN starting' \subseteq 1..starts'
    BY <1>13 DEF PauseTorrent
  <2> QED BY <2>1, <2>2, <2>3, <2>4
<1>14. CASE ResumeTorrent
  <2>1. managers' \in [Start -> Manager]
    BY <1>0, <1>14 DEF ResumeTorrent
  <2>2. handle' \in BOOLEAN
    BY <1>14 DEF ResumeTorrent
  <2>3. /\ intervals' \in Int /\ current' \in 0..MaxStarts
        /\ starts' \in Nat /\ stopping' \in Nat /\ closing' \in Nat
    BY <1>14 DEF ResumeTorrent
  <2>4. DOMAIN starting' \subseteq 1..starts'
    BY <1>14 DEF ResumeTorrent
  <2> QED BY <2>1, <2>2, <2>3, <2>4
<1>15. CASE SelectionComplete
  <2>1. managers' \in [Start -> Manager]
    BY <1>0, <1>15 DEF SelectionComplete
  <2>2. handle' \in BOOLEAN
    BY <1>15 DEF SelectionComplete
  <2>3. /\ intervals' \in Int /\ current' \in 0..MaxStarts
        /\ starts' \in Nat /\ stopping' \in Nat /\ closing' \in Nat
    BY <1>15 DEF SelectionComplete
  <2>4. DOMAIN starting' \subseteq 1..starts'
    BY <1>15 DEF SelectionComplete
  <2> QED BY <2>1, <2>2, <2>3, <2>4
<1>16. CASE BeginStop
  <2>1. managers' \in [Start -> Manager]
    BY <1>0, <1>16 DEF BeginStop
  <2>2. handle' \in BOOLEAN
    BY <1>16 DEF BeginStop
  <2>3. /\ intervals' \in Int /\ current' \in 0..MaxStarts
        /\ starts' \in Nat /\ stopping' \in Nat /\ closing' \in Nat
    BY <1>16 DEF BeginStop
  <2>4. DOMAIN starting' \subseteq 1..starts'
    BY <1>16 DEF BeginStop, InFlight
  <2> QED BY <2>1, <2>2, <2>3, <2>4
<1>17. CASE StopAnnounced
  BY <1>17 DEF StopAnnounced
<1>18. CASE EndStop
  BY <1>18 DEF EndStop
<1>19. CASE StopHangs
  BY <1>19 DEF StopHangs
<1>20. CASE BeginStopSeeding
  BY <1>20 DEF BeginStopSeeding
<1>21. CASE EndStopSeeding
  BY <1>21 DEF EndStopSeeding
<1>22. CASE StopSeedingHangs
  BY <1>22 DEF StopSeedingHangs
<1>23. CASE UNCHANGED lifeVars
  BY <1>23 DEF lifeVars
<1> QED BY <1>1, <1>2, <1>3, <1>4, <1>5, <1>6, <1>7, <1>8, <1>9, <1>10, <1>11, <1>12, <1>13,
   <1>14, <1>15, <1>16, <1>17, <1>18, <1>19, <1>20, <1>21, <1>22, <1>23 DEF LifeNext

(* Every step keeps an orderly torrent orderly, unless a call comes too soon. *)
LEMMA OrderlyStep ==
  ASSUME LifeDomains, LifeDomains', orderly', orderly => Orderly, [LifeNext]_lifeVars
  PROVE  Orderly'
<1>0. orderly /\ Orderly
  BY DEF LifeNext, BeginStart, PeersTried, Searched, MetadataComplete, MetadataFails,
     MetadataTimeout, StartFails, FilesVerified, Announced, StartHangs, LastPiece,
     TransitionToSeeding, PauseTorrent, ResumeTorrent, SelectionComplete, BeginStop,
     StopAnnounced, EndStop, StopHangs, BeginStopSeeding, EndStopSeeding, StopSeedingHangs,
     lifeVars
<1> USE <1>0 DEF LifeDomains, Start, Manager, callVars, stopVars, peerLifeVars, timerVars,
   Orderly, RunnerIsCurrent, WorkIsTimed, NobodyRuns, NothingPends, Runs, Working, Passing,
   Resting, Verifying, GivenUp, StartIsAlone, StartIsQuiet, StopIsSeen, LimitIsSeen,
   LateIsSeen, ToldIsSeen, PeersAreKept, Alive
<1>1. ASSUME NEW n \in Start, BeginStart(n) PROVE Orderly'
  <2>1. /\ DOMAIN starting = {} /\ stopping = 0 /\ closing = 0 /\ "stop" \notin hung
        /\ ~limiting /\ ~handle /\ tState \in {"idle", "stopped", "error"}
        /\ \A m \in Start : managers[m].left # "write"
    BY <1>1 DEF BeginStart
  <2>2. Alive = {} /\ ~isStopping
    BY <2>1
  <2>3. /\ told' = told /\ spared' = spared /\ limited' = limited
        /\ openPeers' = IF needsMetadata THEN openPeers \union {n} ELSE openPeers
    BY <1>1 DEF BeginStart, Kept
  <2>4. /\ managers' = managers /\ current' = current /\ handle' = handle /\ intervals' = intervals
        /\ limiting' = limiting /\ stopping' = stopping /\ closing' = closing
        /\ isStopping' = isStopping
    BY <1>1 DEF BeginStart
  <2>5. /\ starts' = n /\ DOMAIN starting' = {n}
        /\ \/ /\ tState' = "fetching_metadata" /\ starting'[n] = "connecting"
              /\ session' = n /\ peerManager' = n
           \/ /\ tState' = "checking" /\ starting'[n] = "checking" /\ peerManager' = peerManager
              /\ openPeers' = openPeers
    BY <1>1, <2>1, <2>3 DEF BeginStart, Awaits
  <2>6. (RunnerIsCurrent /\ WorkIsTimed)'
    BY <2>1, <2>3, <2>4, <2>5
  <2>7. (StartIsAlone /\ StartIsQuiet)'
    BY <2>1, <2>2, <2>3, <2>4, <2>5
  <2>8. (StopIsSeen /\ LimitIsSeen /\ LateIsSeen /\ ToldIsSeen)'
    BY <2>1, <2>2, <2>3, <2>4, <2>5
  <2>9. PeersAreKept'
    BY <2>1, <2>2, <2>3, <2>4, <2>5
  <2> QED BY <2>6, <2>7, <2>8, <2>9
<1>2. ASSUME NEW n \in Start, PeersTried(n) PROVE Orderly'
  <2>1. (RunnerIsCurrent /\ WorkIsTimed)'
    BY <1>2 DEF PeersTried, InFlight, Awaits, TellActive
  <2>2. (StartIsAlone /\ StartIsQuiet)'
    BY <1>2 DEF PeersTried, InFlight, Awaits, TellActive
  <2>3. (StopIsSeen /\ LimitIsSeen /\ LateIsSeen /\ ToldIsSeen)'
    BY <1>2 DEF PeersTried, InFlight, Awaits, TellActive
  <2>4. PeersAreKept'
    BY <1>2 DEF PeersTried, InFlight, Awaits, TellActive
  <2> QED BY <2>1, <2>2, <2>3, <2>4
<1>3. ASSUME NEW n \in Start, Searched(n) PROVE Orderly'
  <2>1. (RunnerIsCurrent /\ WorkIsTimed)'
    BY <1>3 DEF Searched, InFlight, Awaits, Ended
  <2>2. (StartIsAlone /\ StartIsQuiet)'
    BY <1>3 DEF Searched, InFlight, Awaits, Ended
  <2>3. (StopIsSeen /\ LimitIsSeen /\ LateIsSeen /\ ToldIsSeen)'
    BY <1>3 DEF Searched, InFlight, Awaits, Ended
  <2>4. PeersAreKept'
    BY <1>3 DEF Searched, InFlight, Awaits, Ended
  <2> QED BY <2>1, <2>2, <2>3, <2>4
<1>4. ASSUME NEW n \in Start, MetadataComplete(n) PROVE Orderly'
  <2>1. (RunnerIsCurrent /\ WorkIsTimed)'
    BY <1>4 DEF MetadataComplete, InFlight, Awaits, Ended, EndSession, DestroyPeers
  <2>2. (StartIsAlone /\ StartIsQuiet)'
    BY <1>4 DEF MetadataComplete, InFlight, Awaits, Ended, EndSession, DestroyPeers
  <2>3. (StopIsSeen /\ LimitIsSeen /\ LateIsSeen /\ ToldIsSeen)'
    BY <1>4 DEF MetadataComplete, InFlight, Awaits, Ended, EndSession, DestroyPeers
  <2>4. PeersAreKept'
    BY <1>4 DEF MetadataComplete, InFlight, Awaits, Ended, EndSession, DestroyPeers
  <2> QED BY <2>1, <2>2, <2>3, <2>4
<1>5. ASSUME NEW n \in Start, MetadataFails(n) PROVE Orderly'
  <2>1. (RunnerIsCurrent /\ WorkIsTimed)'
    BY <1>5 DEF MetadataFails, InFlight, Ended, EndSession, DestroyPeers
  <2>2. (StartIsAlone /\ StartIsQuiet)'
    BY <1>5 DEF MetadataFails, InFlight, Ended, EndSession, DestroyPeers
  <2>3. (StopIsSeen /\ LimitIsSeen /\ LateIsSeen /\ ToldIsSeen)'
    BY <1>5 DEF MetadataFails, InFlight, Ended, EndSession, DestroyPeers
  <2>4. PeersAreKept'
    BY <1>5 DEF MetadataFails, InFlight, Ended, EndSession, DestroyPeers
  <2> QED BY <2>1, <2>2, <2>3, <2>4
<1>6. ASSUME NEW n \in Start, MetadataTimeout(n) PROVE Orderly'
  <2>1. (RunnerIsCurrent /\ WorkIsTimed)'
    BY <1>6 DEF MetadataTimeout, InFlight, Ended, Spare
  <2>2. (StartIsAlone /\ StartIsQuiet)'
    BY <1>6 DEF MetadataTimeout, InFlight, Ended, Spare
  <2>3. (StopIsSeen /\ LimitIsSeen /\ LateIsSeen /\ ToldIsSeen)'
    BY <1>6 DEF MetadataTimeout, InFlight, Ended, Spare
  <2>4. PeersAreKept'
    BY <1>6 DEF MetadataTimeout, InFlight, Ended, Spare
  <2> QED BY <2>1, <2>2, <2>3, <2>4
<1>7. ASSUME NEW n \in Start, StartFails(n) PROVE Orderly'
  <2>1. (RunnerIsCurrent /\ WorkIsTimed)'
    BY <1>7 DEF StartFails, InFlight, Ended
  <2>2. (StartIsAlone /\ StartIsQuiet)'
    BY <1>7 DEF StartFails, InFlight, Ended
  <2>3. (StopIsSeen /\ LimitIsSeen /\ LateIsSeen /\ ToldIsSeen)'
    BY <1>7 DEF StartFails, InFlight, Ended
  <2>4. PeersAreKept'
    BY <1>7 DEF StartFails, InFlight, Ended
  <2> QED BY <2>1, <2>2, <2>3, <2>4
<1>8. ASSUME NEW n \in Start, NEW all \in BOOLEAN, FilesVerified(n, all) PROVE Orderly'
  <2>1. (RunnerIsCurrent /\ WorkIsTimed)'
    BY <1>8 DEF FilesVerified, InFlight, Awaits, MakePeers, Spare, TellActive, NewManager
  <2>2. (StartIsAlone /\ StartIsQuiet)'
    BY <1>8 DEF FilesVerified, InFlight, Awaits, MakePeers, Spare, TellActive, NewManager
  <2>3. (StopIsSeen /\ LimitIsSeen /\ LateIsSeen /\ ToldIsSeen)'
    BY <1>8 DEF FilesVerified, InFlight, Awaits, MakePeers, Spare, TellActive, NewManager
  <2>4. PeersAreKept'
    BY <1>8 DEF FilesVerified, InFlight, Awaits, MakePeers, Spare, TellActive, NewManager
  <2> QED BY <2>1, <2>2, <2>3, <2>4
<1>9. ASSUME NEW n \in Start, Announced(n) PROVE Orderly'
  <2>1. (RunnerIsCurrent /\ WorkIsTimed)'
    BY <1>9 DEF Announced, InFlight, Ended
  <2>2. (StartIsAlone /\ StartIsQuiet)'
    BY <1>9 DEF Announced, InFlight, Ended
  <2>3. (StopIsSeen /\ LimitIsSeen /\ LateIsSeen /\ ToldIsSeen)'
    BY <1>9 DEF Announced, InFlight, Ended
  <2>4. PeersAreKept'
    BY <1>9 DEF Announced, InFlight, Ended
  <2> QED BY <2>1, <2>2, <2>3, <2>4
<1>10. ASSUME NEW n \in Start, StartHangs(n) PROVE Orderly'
  <2>1. (RunnerIsCurrent /\ WorkIsTimed)'
    BY <1>10 DEF StartHangs, InFlight, Ended
  <2>2. (StartIsAlone /\ StartIsQuiet)'
    BY <1>10 DEF StartHangs, InFlight, Ended
  <2>3. (StopIsSeen /\ LimitIsSeen /\ LateIsSeen /\ ToldIsSeen)'
    BY <1>10 DEF StartHangs, InFlight, Ended
  <2>4. PeersAreKept'
    BY <1>10 DEF StartHangs, InFlight, Ended
  <2> QED BY <2>1, <2>2, <2>3, <2>4
<1>11. ASSUME NEW n \in Start, LastPiece(n) PROVE Orderly'
  <2>1. (RunnerIsCurrent /\ WorkIsTimed)'
    BY <1>11 DEF LastPiece
  <2>2. (StartIsAlone /\ StartIsQuiet)'
    BY <1>11 DEF LastPiece
  <2>3. (StopIsSeen /\ LimitIsSeen /\ LateIsSeen /\ ToldIsSeen)'
    BY <1>11 DEF LastPiece
  <2>4. PeersAreKept'
    BY <1>11 DEF LastPiece
  <2> QED BY <2>1, <2>2, <2>3, <2>4
<1>12. ASSUME NEW n \in Start, TransitionToSeeding(n) PROVE Orderly'
  <2>1. (RunnerIsCurrent /\ WorkIsTimed)'
    BY <1>12 DEF TransitionToSeeding, TellActive
  <2>2. (StartIsAlone /\ StartIsQuiet)'
    BY <1>12 DEF TransitionToSeeding, TellActive
  <2>3. (StopIsSeen /\ LimitIsSeen /\ LateIsSeen /\ ToldIsSeen)'
    BY <1>12 DEF TransitionToSeeding, TellActive
  <2>4. PeersAreKept'
    BY <1>12 DEF TransitionToSeeding, TellActive
  <2> QED BY <2>1, <2>2, <2>3, <2>4
<1>13. CASE PauseTorrent
  <2>1. (RunnerIsCurrent /\ WorkIsTimed)'
    BY <1>13 DEF PauseTorrent
  <2>2. (StartIsAlone /\ StartIsQuiet)'
    BY <1>13 DEF PauseTorrent
  <2>3. (StopIsSeen /\ LimitIsSeen /\ LateIsSeen /\ ToldIsSeen)'
    BY <1>13 DEF PauseTorrent
  <2>4. PeersAreKept'
    BY <1>13 DEF PauseTorrent
  <2> QED BY <2>1, <2>2, <2>3, <2>4
<1>14. CASE ResumeTorrent
  <2>1. (RunnerIsCurrent /\ WorkIsTimed)'
    BY <1>14 DEF ResumeTorrent
  <2>2. (StartIsAlone /\ StartIsQuiet)'
    BY <1>14 DEF ResumeTorrent
  <2>3. (StopIsSeen /\ LimitIsSeen /\ LateIsSeen /\ ToldIsSeen)'
    BY <1>14 DEF ResumeTorrent
  <2>4. PeersAreKept'
    BY <1>14 DEF ResumeTorrent
  <2> QED BY <2>1, <2>2, <2>3, <2>4
<1>15. CASE SelectionComplete
  <2>1. (RunnerIsCurrent /\ WorkIsTimed)'
    BY <1>15 DEF SelectionComplete, Kept
  <2>2. (StartIsAlone /\ StartIsQuiet)'
    BY <1>15 DEF SelectionComplete, Kept
  <2>3. (StopIsSeen /\ LimitIsSeen /\ LateIsSeen /\ ToldIsSeen)'
    BY <1>15 DEF SelectionComplete, Kept
  <2>4. PeersAreKept'
    BY <1>15 DEF SelectionComplete, Kept
  <2> QED BY <2>1, <2>2, <2>3, <2>4
<1>16. CASE BeginStop
  <2>1. (RunnerIsCurrent /\ WorkIsTimed)'
    BY <1>16 DEF BeginStop, EndSession, DestroyPeers, InFlight
  <2>2. (StartIsAlone /\ StartIsQuiet)'
    BY <1>16 DEF BeginStop, EndSession, DestroyPeers, InFlight
  <2>3. (StopIsSeen /\ LimitIsSeen /\ LateIsSeen /\ ToldIsSeen)'
    BY <1>16 DEF BeginStop, EndSession, DestroyPeers, InFlight
  <2>4. PeersAreKept'
    BY <1>16 DEF BeginStop, EndSession, DestroyPeers, InFlight
  <2> QED BY <2>1, <2>2, <2>3, <2>4
<1>17. CASE StopAnnounced
  <2>1. (RunnerIsCurrent /\ WorkIsTimed)'
    BY <1>17 DEF StopAnnounced, DestroyPeers
  <2>2. (StartIsAlone /\ StartIsQuiet)'
    BY <1>17 DEF StopAnnounced, DestroyPeers
  <2>3. (StopIsSeen /\ LimitIsSeen /\ LateIsSeen /\ ToldIsSeen)'
    BY <1>17 DEF StopAnnounced, DestroyPeers
  <2>4. PeersAreKept'
    BY <1>17 DEF StopAnnounced, DestroyPeers
  <2> QED BY <2>1, <2>2, <2>3, <2>4
<1>18. CASE EndStop
  <2>1. (RunnerIsCurrent /\ WorkIsTimed)'
    BY <1>18 DEF EndStop
  <2>2. (StartIsAlone /\ StartIsQuiet)'
    BY <1>18 DEF EndStop
  <2>3. (StopIsSeen /\ LimitIsSeen /\ LateIsSeen /\ ToldIsSeen)'
    BY <1>18 DEF EndStop
  <2>4. PeersAreKept'
    BY <1>18 DEF EndStop
  <2> QED BY <2>1, <2>2, <2>3, <2>4
<1>19. CASE StopHangs
  <2>1. (RunnerIsCurrent /\ WorkIsTimed)'
    BY <1>19 DEF StopHangs
  <2>2. (StartIsAlone /\ StartIsQuiet)'
    BY <1>19 DEF StopHangs
  <2>3. (StopIsSeen /\ LimitIsSeen /\ LateIsSeen /\ ToldIsSeen)'
    BY <1>19 DEF StopHangs
  <2>4. PeersAreKept'
    BY <1>19 DEF StopHangs
  <2> QED BY <2>1, <2>2, <2>3, <2>4
<1>20. CASE BeginStopSeeding
  <2>1. (RunnerIsCurrent /\ WorkIsTimed)'
    BY <1>20 DEF BeginStopSeeding
  <2>2. (StartIsAlone /\ StartIsQuiet)'
    BY <1>20 DEF BeginStopSeeding
  <2>3. (StopIsSeen /\ LimitIsSeen /\ LateIsSeen /\ ToldIsSeen)'
    BY <1>20 DEF BeginStopSeeding
  <2>4. PeersAreKept'
    BY <1>20 DEF BeginStopSeeding
  <2> QED BY <2>1, <2>2, <2>3, <2>4
<1>21. CASE EndStopSeeding
  <2>1. (RunnerIsCurrent /\ WorkIsTimed)'
    BY <1>21 DEF EndStopSeeding
  <2>2. (StartIsAlone /\ StartIsQuiet)'
    BY <1>21 DEF EndStopSeeding
  <2>3. (StopIsSeen /\ LimitIsSeen /\ LateIsSeen /\ ToldIsSeen)'
    BY <1>21 DEF EndStopSeeding
  <2>4. PeersAreKept'
    BY <1>21 DEF EndStopSeeding
  <2> QED BY <2>1, <2>2, <2>3, <2>4
<1>22. CASE StopSeedingHangs
  <2>1. (RunnerIsCurrent /\ WorkIsTimed)'
    BY <1>22 DEF StopSeedingHangs
  <2>2. (StartIsAlone /\ StartIsQuiet)'
    BY <1>22 DEF StopSeedingHangs
  <2>3. (StopIsSeen /\ LimitIsSeen /\ LateIsSeen /\ ToldIsSeen)'
    BY <1>22 DEF StopSeedingHangs
  <2>4. PeersAreKept'
    BY <1>22 DEF StopSeedingHangs
  <2> QED BY <2>1, <2>2, <2>3, <2>4
<1>23. CASE UNCHANGED lifeVars
  <2>1. (RunnerIsCurrent /\ WorkIsTimed)'
    BY <1>23 DEF lifeVars
  <2>2. (StartIsAlone /\ StartIsQuiet)'
    BY <1>23 DEF lifeVars
  <2>3. (StopIsSeen /\ LimitIsSeen /\ LateIsSeen /\ ToldIsSeen)'
    BY <1>23 DEF lifeVars
  <2>4. PeersAreKept'
    BY <1>23 DEF lifeVars
  <2> QED BY <2>1, <2>2, <2>3, <2>4
<1> QED BY <1>1, <1>2, <1>3, <1>4, <1>5, <1>6, <1>7, <1>8, <1>9, <1>10, <1>11, <1>12, <1>13,
   <1>14, <1>15, <1>16, <1>17, <1>18, <1>19, <1>20, <1>21, <1>22, <1>23 DEF LifeNext
-----------------------------------------------------------------------------
(* A stopped torrent has no manager at work and no interval ticking, pause and stop
   reach the manager that works, the trackers' last word was not that it is active,
   and its peers are gone (torrent.js start, stop and what they await). *)
THEOREM StoppedTorrentIsQuiet == LifeSpec => []StoppedIsQuiet
<1>1. LifeInv /\ [LifeNext]_lifeVars => LifeInv'
  BY DomainsStep, OrderlyStep DEF LifeInv
<1>2. LifeInv => StoppedIsQuiet
  <2> SUFFICES ASSUME LifeDomains, Orderly PROVE StoppedIsQuiet
    BY DEF LifeInv, StoppedIsQuiet
  <2>1. \A n \in Start : Runs(n) => n = current
    BY DEF Orderly, RunnerIsCurrent
  <2>2. ASSUME tState \in Resting, ~limited PROVE ~handle
    BY <2>2 DEF Orderly, WorkIsTimed
  <2>3. ASSUME ~handle PROVE intervals = 0 /\ \A n \in Start : ~Runs(n)
    BY <2>3 DEF Orderly, WorkIsTimed, NobodyRuns
  <2>4. ASSUME tState = "stopped", ~handle PROVE ~told
    BY <2>4 DEF Orderly, ToldIsSeen
  <2>5. ASSUME tState = "stopped", ~handle, stopping = 0, "stop" \notin hung
        PROVE  openPeers \subseteq spared
    BY <2>5 DEF Orderly, PeersAreKept, Alive
  <2> QED BY <2>1, <2>2, <2>3, <2>4, <2>5 DEF StoppedIsQuiet, Resting
<1> QED BY LifeStart, <1>1, <1>2, PTL DEF LifeSpec
(* Every interval that ticks was set by a start that has ended. *)
Accounted ==
  /\ IsFiniteSet(DOMAIN starting) /\ intervals + Cardinality(DOMAIN starting) <= starts
  /\ stopping + closing <= stops
LifeTypeInv == LifeTypeOK /\ Accounted
Awaited == {"connecting", "searching", "fetching", "checking", "announcing"}

(* One call more: it is in flight, and awaits what it says. *)
LEMMA AwaitsFacts ==
  ASSUME LifeTypeInv, NEW n, NEW what \in Awaited
  PROVE  /\ DOMAIN Awaits(n, what) = DOMAIN starting \union {n}
         /\ \A m \in DOMAIN Awaits(n, what) : Awaits(n, what)[m] \in Awaited
         /\ IsFiniteSet(DOMAIN Awaits(n, what)) /\ Cardinality(DOMAIN Awaits(n, what)) \in Nat
         /\ Cardinality(DOMAIN Awaits(n, what)) <= Cardinality(DOMAIN starting) + 1
         /\ n \in DOMAIN starting => DOMAIN Awaits(n, what) = DOMAIN starting
<1>1. IsFiniteSet(DOMAIN starting) /\ \A m \in DOMAIN starting : starting[m] \in Awaited
  BY DEF LifeTypeInv, LifeTypeOK, Accounted, Awaited
<1>2. DOMAIN Awaits(n, what) = DOMAIN starting \union {n}
  BY DEF Awaits
<1>3. \A m \in DOMAIN Awaits(n, what) : Awaits(n, what)[m] \in Awaited
  BY <1>1 DEF Awaits
<1>4. /\ IsFiniteSet(DOMAIN starting \union {n})
      /\ Cardinality(DOMAIN starting \union {n}) \in Nat
      /\ Cardinality(DOMAIN starting \union {n}) <= Cardinality(DOMAIN starting) + 1
  BY <1>1, CountMore
<1>5. n \in DOMAIN starting => DOMAIN starting \union {n} = DOMAIN starting
  OBVIOUS
<1>. QED BY <1>2, <1>3, <1>4, <1>5

(* One call less. *)
LEMMA EndedFacts ==
  ASSUME LifeTypeInv, NEW n
  PROVE  /\ DOMAIN Ended(n) = DOMAIN starting \ {n}
         /\ \A m \in DOMAIN Ended(n) : Ended(n)[m] \in Awaited
         /\ IsFiniteSet(DOMAIN Ended(n)) /\ Cardinality(DOMAIN Ended(n)) \in Nat
         /\ Cardinality(DOMAIN Ended(n)) <= Cardinality(DOMAIN starting)
         /\ n \in DOMAIN starting =>
              Cardinality(DOMAIN Ended(n)) + 1 <= Cardinality(DOMAIN starting)
<1>1. IsFiniteSet(DOMAIN starting) /\ \A m \in DOMAIN starting : starting[m] \in Awaited
  BY DEF LifeTypeInv, LifeTypeOK, Accounted, Awaited
<1>2. DOMAIN Ended(n) = DOMAIN starting \ {n}
  BY DEF Ended
<1>3. \A m \in DOMAIN Ended(n) : Ended(n)[m] \in Awaited
  BY <1>1 DEF Ended
<1>4. /\ IsFiniteSet(DOMAIN starting \ {n}) /\ Cardinality(DOMAIN starting \ {n}) \in Nat
      /\ Cardinality(DOMAIN starting \ {n}) <= Cardinality(DOMAIN starting)
      /\ n \in DOMAIN starting =>
           Cardinality(DOMAIN starting \ {n}) + 1 <= Cardinality(DOMAIN starting)
  BY <1>1, CountPart, CountLess
<1>. QED BY <1>2, <1>3, <1>4

(* Nothing has been called. *)
LEMMA LifeTypeStart == LifeInit => LifeTypeInv
<1>. SUFFICES ASSUME LifeInit PROVE LifeTypeInv
  OBVIOUS
<1>1. DOMAIN starting = {}
  BY DEF LifeInit
<1>2. Accounted
  BY <1>1, FS_EmptySet DEF LifeInit, Accounted
<1>3. NewManager("some") \in Manager
  BY DEF NewManager, Manager
<1>4. LifeTypeOK
  <2>1. managers \in [Start -> Manager]
    BY <1>3 DEF LifeInit
  <2>2. /\ tState \in TState /\ DOMAIN starting \subseteq 1..starts
        /\ openPeers \union spared \subseteq 1..starts /\ hung \subseteq {"start", "stop"}
    BY <1>1 DEF LifeInit, TState
  <2>3. {isStopping, needsMetadata, limiting, handle, told, orderly, limited} \subseteq BOOLEAN
    BY DEF LifeInit
  <2>4. /\ current \in 0..MaxStarts /\ intervals \in 0..MaxStarts /\ starts \in 0..MaxStarts
        /\ stops \in 0..MaxStops /\ stopping \in Nat /\ closing \in Nat
        /\ stopping + closing <= MaxStops /\ session \in 0..starts /\ peerManager = 0 /\ ~handle
    BY TorrentAssumption DEF LifeInit
  <2>. QED BY <1>1, <2>1, <2>2, <2>3, <2>4 DEF LifeTypeOK
<1>. QED BY <1>2, <1>4 DEF LifeTypeInv

(* Every step keeps the types: what a start sets it accounts for. *)
LEMMA LifeTypeStep == LifeTypeInv /\ [LifeNext]_lifeVars => LifeTypeInv'
<1>. SUFFICES ASSUME LifeTypeInv, [LifeNext]_lifeVars PROVE LifeTypeInv'
  OBVIOUS
<1>. DEFINE C == Cardinality(DOMAIN starting)
<1>a. /\ tState \in TState /\ isStopping \in BOOLEAN /\ needsMetadata \in BOOLEAN
      /\ limiting \in BOOLEAN /\ handle \in BOOLEAN /\ told \in BOOLEAN /\ orderly \in BOOLEAN
      /\ limited \in BOOLEAN
  BY DEF LifeTypeInv, LifeTypeOK
<1>b. /\ DOMAIN starting \subseteq 1..starts /\ \A n \in DOMAIN starting : starting[n] \in Awaited
      /\ managers \in [Start -> Manager] /\ current \in 0..MaxStarts
      /\ IsFiniteSet(DOMAIN starting)
  BY DEF LifeTypeInv, LifeTypeOK, Accounted, Awaited
<1>c. /\ intervals \in Nat /\ intervals <= MaxStarts /\ (handle = TRUE => intervals > 0)
      /\ starts \in Nat /\ starts <= MaxStarts /\ stops \in Nat /\ stops <= MaxStops
      /\ stopping \in Nat /\ closing \in Nat /\ stopping + closing <= stops
      /\ MaxStarts \in Nat /\ MaxStops \in Nat
  BY TorrentAssumption DEF LifeTypeInv, LifeTypeOK, Accounted
<1>d. C \in Nat /\ intervals + C <= starts
  BY <1>b, FS_CardinalityType DEF LifeTypeInv, Accounted
<1>e. /\ session \in 0..starts /\ peerManager \in 0..starts
      /\ openPeers \subseteq 1..starts /\ spared \subseteq 1..starts
      /\ orderly => peerManager \in openPeers \union {0}
      /\ hung \subseteq {"start", "stop"}
  BY DEF LifeTypeInv, LifeTypeOK
<1>f. managers' \in [Start -> Manager] /\ current' \in 0..MaxStarts
  <2>1. LifeDomains
    BY <1>a, <1>b, <1>c DEF LifeDomains
  <2>. QED BY <2>1, DomainsStep DEF LifeDomains
(* The parts of the invariant after the step. *)
<1>. DEFINE Values == /\ tState' \in TState
                      /\ isStopping' \in BOOLEAN /\ needsMetadata' \in BOOLEAN
                      /\ limiting' \in BOOLEAN /\ handle' \in BOOLEAN /\ told' \in BOOLEAN
                      /\ orderly' \in BOOLEAN /\ limited' \in BOOLEAN
            Calls == /\ DOMAIN starting' \subseteq 1..starts' /\ IsFiniteSet(DOMAIN starting')
                     /\ \A n \in DOMAIN starting' : starting'[n] \in Awaited
                     /\ Cardinality(DOMAIN starting') \in Nat
                     /\ intervals' + Cardinality(DOMAIN starting') <= starts'
            Numbers == /\ intervals' \in Nat /\ (handle' = TRUE => intervals' > 0)
                       /\ starts' \in Nat /\ starts' <= MaxStarts
                       /\ stops' \in Nat /\ stops' <= MaxStops
                       /\ stopping' \in Nat /\ closing' \in Nat /\ stopping' + closing' <= stops'
            Peers == /\ session' \in 0..starts' /\ peerManager' \in 0..starts'
                     /\ openPeers' \subseteq 1..starts' /\ spared' \subseteq 1..starts'
                     /\ orderly' => peerManager' \in openPeers' \union {0}
                     /\ hung' \subseteq {"start", "stop"}
<1>1. ASSUME Values, Calls, Numbers, Peers PROVE LifeTypeInv'
  <2>1. intervals' <= MaxStarts
    BY <1>c, <1>1
  <2>2. Accounted'
    BY <1>1 DEF Accounted
  <2>3. {isStopping, needsMetadata, limiting, handle, told, orderly, limited}' \subseteq BOOLEAN
    BY <1>1
  <2>a. /\ stopping' \in Nat /\ closing' \in Nat /\ stopping' + closing' <= stops'
        /\ stops' \in Nat /\ stops' <= MaxStops
    BY <1>1
  <2>b. stopping' + closing' <= MaxStops
    <3>1. MaxStops \in Nat
      BY <1>c
    <3>2. \A a, b, c, d \in Nat : a + b <= c /\ c <= d => a + b <= d
      OBVIOUS
    <3>. HIDE <1>1
    <3>. QED BY <2>a, <3>1, <3>2
  <2>4. /\ intervals' \in 0..MaxStarts /\ starts' \in 0..MaxStarts
        /\ stops' \in 0..MaxStops
    BY <1>c, <1>1, <2>1
  <2>5. (openPeers \union spared)' \subseteq 1..starts'
    BY <1>1
  <2>6. LifeTypeOK'
    BY <1>1, <1>f, <2>3, <2>4, <2>5, <2>b DEF LifeTypeOK, Awaited
  <2>. QED BY <2>2, <2>6 DEF LifeTypeInv
<1>2. starting' = starting /\ starts' = starts /\ intervals' = intervals => Calls
  BY <1>b, <1>c, <1>d
<1>3. ASSUME NEW n \in DOMAIN starting, starts' = starts, intervals' = intervals,
             starting' = Ended(n) \/ \E what \in Awaited : starting' = Awaits(n, what)
      PROVE  Calls
  <2>1. CASE starting' = Ended(n)
    <3>1. /\ DOMAIN starting' = DOMAIN starting \ {n} /\ IsFiniteSet(DOMAIN starting')
          /\ Cardinality(DOMAIN starting') \in Nat /\ Cardinality(DOMAIN starting') <= C
          /\ \A m \in DOMAIN starting' : starting'[m] \in Awaited
      BY <2>1, EndedFacts
    <3>2. DOMAIN starting' \subseteq 1..starts'
      BY <1>b, <1>3, <3>1
    <3>3. intervals' + Cardinality(DOMAIN starting') <= starts'
      BY <1>c, <1>d, <1>3, <3>1
    <3>. QED BY <3>1, <3>2, <3>3
  <2>2. ASSUME NEW what \in Awaited, starting' = Awaits(n, what) PROVE Calls
    <3>1. /\ DOMAIN starting' = DOMAIN starting
          /\ \A m \in DOMAIN starting' : starting'[m] \in Awaited
      BY <2>2, AwaitsFacts
    <3>. QED BY <1>b, <1>c, <1>d, <1>3, <3>1
  <2>. QED BY <1>3, <2>1, <2>2
<1>4. ASSUME starts' = starts, intervals' = intervals, handle' = handle,
             stops' = stops, stopping' = stopping, closing' = closing
      PROVE  Numbers
  <2>1. handle' = TRUE => intervals' > 0
    BY <1>c, <1>4, Zenon
  <2>. QED BY <1>c, <1>4, <2>1
<1>. USE DEF callVars, stopVars, peerLifeVars, timerVars
<1>10. ASSUME NEW n \in Start, BeginStart(n) PROVE LifeTypeInv'
  <2>1. Values
    <3>1. told' \in BOOLEAN /\ limited' \in BOOLEAN
      BY <1>a, <1>10 DEF BeginStart, Kept
    <3>. QED BY <1>a, <1>10, <3>1 DEF BeginStart, TState
  <2>2. /\ starts' = starts + 1 /\ n = starts + 1 /\ n <= MaxStarts /\ intervals' = intervals
        /\ \E what \in Awaited : starting' = Awaits(n, what)
    BY <1>10 DEF BeginStart, Awaited
  <2>3. /\ DOMAIN starting' = DOMAIN starting \union {n} /\ IsFiniteSet(DOMAIN starting')
        /\ Cardinality(DOMAIN starting') \in Nat /\ Cardinality(DOMAIN starting') <= C + 1
        /\ \A m \in DOMAIN starting' : starting'[m] \in Awaited
    BY <2>2, AwaitsFacts
  <2>4. Calls
    <3>1. DOMAIN starting' \subseteq 1..starts'
      BY <1>b, <1>c, <2>2, <2>3
    <3>2. intervals' + Cardinality(DOMAIN starting') <= starts'
      BY <1>c, <1>d, <2>2, <2>3
    <3>. QED BY <2>3, <3>1, <3>2
  <2>5. Numbers
    BY <1>c, <1>10, <2>2 DEF BeginStart
  <2>6. Peers
    <3>1. session' \in 0..starts' /\ peerManager' \in 0..starts' /\ hung' \subseteq hung
      BY <1>c, <1>e, <1>10, <2>2 DEF BeginStart
    <3>2. openPeers' \subseteq openPeers \union {n} /\ spared' \subseteq spared
      BY <1>10 DEF BeginStart, Kept
    <3>3. orderly' => peerManager' \in openPeers' \union {0}
      BY <1>e, <1>10 DEF BeginStart, Kept
    <3>4. 1..starts \subseteq 1..starts' /\ n \in 1..starts'
      BY <1>c, <2>2
    <3>. QED BY <1>e, <3>1, <3>2, <3>3, <3>4
  <2>. QED BY <1>1, <2>1, <2>4, <2>5, <2>6
<1>11. ASSUME NEW n \in Start, PeersTried(n) PROVE LifeTypeInv'
  <2>1. Values
    BY <1>a, <1>11 DEF PeersTried, TState, TellActive
  <2>2. /\ n \in DOMAIN starting /\ starts' = starts /\ intervals' = intervals
        /\ starting' = Ended(n) \/ \E what \in Awaited : starting' = Awaits(n, what)
    BY <1>11 DEF PeersTried, InFlight, Awaited
  <2>3. Calls
    BY <1>3, <2>2
  <2>4. Numbers
    BY <1>4, <1>11 DEF PeersTried
  <2>6. Peers
    BY <1>b, <1>c, <1>e, <1>11 DEF PeersTried, InFlight
  <2>. QED BY <1>1, <2>1, <2>3, <2>4, <2>6
<1>12. ASSUME NEW n \in Start, Searched(n) PROVE LifeTypeInv'
  <2>1. Values
    BY <1>a, <1>12 DEF Searched, TState
  <2>2. /\ n \in DOMAIN starting /\ starts' = starts /\ intervals' = intervals
        /\ starting' = Ended(n) \/ \E what \in Awaited : starting' = Awaits(n, what)
    BY <1>12 DEF Searched, InFlight, Awaited
  <2>3. Calls
    BY <1>3, <2>2
  <2>4. Numbers
    BY <1>4, <1>12 DEF Searched
  <2>6. Peers
    BY <1>b, <1>c, <1>e, <1>12 DEF Searched, InFlight
  <2>. QED BY <1>1, <2>1, <2>3, <2>4, <2>6
<1>13. ASSUME NEW n \in Start, MetadataComplete(n) PROVE LifeTypeInv'
  <2>1. Values
    BY <1>a, <1>13 DEF MetadataComplete, TState
  <2>2. /\ n \in DOMAIN starting /\ starts' = starts /\ intervals' = intervals
        /\ starting' = Ended(n) \/ \E what \in Awaited : starting' = Awaits(n, what)
    BY <1>13 DEF MetadataComplete, InFlight, Awaited
  <2>3. Calls
    BY <1>3, <2>2
  <2>4. Numbers
    BY <1>4, <1>13 DEF MetadataComplete
  <2>6. Peers
    BY <1>b, <1>c, <1>e, <1>13 DEF MetadataComplete, EndSession, DestroyPeers, InFlight
  <2>. QED BY <1>1, <2>1, <2>3, <2>4, <2>6
<1>14. ASSUME NEW n \in Start, MetadataFails(n) PROVE LifeTypeInv'
  <2>1. Values
    BY <1>a, <1>14 DEF MetadataFails, TState
  <2>2. /\ n \in DOMAIN starting /\ starts' = starts /\ intervals' = intervals
        /\ starting' = Ended(n) \/ \E what \in Awaited : starting' = Awaits(n, what)
    BY <1>14 DEF MetadataFails, InFlight, Awaited
  <2>3. Calls
    BY <1>3, <2>2
  <2>4. Numbers
    BY <1>4, <1>14 DEF MetadataFails
  <2>6. Peers
    BY <1>b, <1>c, <1>e, <1>14 DEF MetadataFails, EndSession, DestroyPeers, InFlight
  <2>. QED BY <1>1, <2>1, <2>3, <2>4, <2>6
<1>15. ASSUME NEW n \in Start, MetadataTimeout(n) PROVE LifeTypeInv'
  <2>1. Values
    BY <1>a, <1>15 DEF MetadataTimeout, TState
  <2>2. /\ n \in DOMAIN starting /\ starts' = starts /\ intervals' = intervals
        /\ starting' = Ended(n) \/ \E what \in Awaited : starting' = Awaits(n, what)
    BY <1>15 DEF MetadataTimeout, InFlight, Awaited
  <2>3. Calls
    BY <1>3, <2>2
  <2>4. Numbers
    BY <1>4, <1>15 DEF MetadataTimeout
  <2>6. Peers
    BY <1>b, <1>c, <1>e, <1>15 DEF MetadataTimeout, Spare, InFlight
  <2>. QED BY <1>1, <2>1, <2>3, <2>4, <2>6
<1>16. ASSUME NEW n \in Start, StartFails(n) PROVE LifeTypeInv'
  <2>1. Values
    BY <1>a, <1>16 DEF StartFails, TState
  <2>2. /\ n \in DOMAIN starting /\ starts' = starts /\ intervals' = intervals
        /\ starting' = Ended(n) \/ \E what \in Awaited : starting' = Awaits(n, what)
    BY <1>16 DEF StartFails, InFlight, Awaited
  <2>3. Calls
    BY <1>3, <2>2
  <2>4. Numbers
    BY <1>4, <1>16 DEF StartFails
  <2>6. Peers
    BY <1>b, <1>c, <1>e, <1>16 DEF StartFails, InFlight
  <2>. QED BY <1>1, <2>1, <2>3, <2>4, <2>6
<1>17. ASSUME NEW n \in Start, NEW all \in BOOLEAN, FilesVerified(n, all) PROVE LifeTypeInv'
  <2>1. Values
    BY <1>a, <1>17 DEF FilesVerified, TState, TellActive
  <2>2. /\ n \in DOMAIN starting /\ starts' = starts /\ intervals' = intervals
        /\ starting' = Ended(n) \/ \E what \in Awaited : starting' = Awaits(n, what)
    BY <1>17 DEF FilesVerified, InFlight, Awaited
  <2>3. Calls
    BY <1>3, <2>2
  <2>4. Numbers
    BY <1>4, <1>17 DEF FilesVerified
  <2>6. Peers
    <3>1. n \in 1..starts /\ starts' = starts /\ session' = session /\ hung' = hung
      BY <1>b, <1>17 DEF FilesVerified, InFlight
    <3>2. /\ peerManager' = n /\ openPeers' \subseteq openPeers \union {n}
          /\ orderly' => n \in openPeers'
      BY <1>a, <1>17 DEF FilesVerified, MakePeers
    <3>3. spared' \subseteq spared \union {n}
      BY <1>17 DEF FilesVerified, Spare
    <3>4. n \in 0..starts
      BY <1>c, <3>1
    <3>. QED BY <1>e, <3>1, <3>2, <3>3, <3>4
  <2>. QED BY <1>1, <2>1, <2>3, <2>4, <2>6
<1>18. ASSUME NEW n \in Start, Announced(n) PROVE LifeTypeInv'
  <2>1. Values
    BY <1>a, <1>18 DEF Announced, TState
  <2>2. /\ n \in DOMAIN starting /\ starting' = Ended(n) /\ starts' = starts
        /\ \/ intervals' = intervals /\ handle' = handle
           \/ intervals' = intervals + 1 /\ handle' = TRUE
    BY <1>18 DEF Announced, InFlight
  <2>5. /\ DOMAIN starting' = DOMAIN starting \ {n} /\ IsFiniteSet(DOMAIN starting')
        /\ Cardinality(DOMAIN starting') \in Nat /\ Cardinality(DOMAIN starting') + 1 <= C
        /\ \A m \in DOMAIN starting' : starting'[m] \in Awaited
    BY <2>2, EndedFacts
  <2>3. Calls
    <3>1. DOMAIN starting' \subseteq 1..starts'
      BY <1>b, <2>2, <2>5
    <3>2. intervals' + Cardinality(DOMAIN starting') <= starts'
      BY <1>c, <1>d, <2>2, <2>5
    <3>. QED BY <2>5, <3>1, <3>2
  <2>4. Numbers
    BY <1>c, <1>18, <2>2 DEF Announced
  <2>6. Peers
    BY <1>b, <1>c, <1>e, <1>18 DEF Announced
  <2>. QED BY <1>1, <2>1, <2>3, <2>4, <2>6
<1>19. ASSUME NEW n \in Start, StartHangs(n) PROVE LifeTypeInv'
  <2>1. Values
    BY <1>a, <1>19 DEF StartHangs, TState
  <2>2. /\ n \in DOMAIN starting /\ starts' = starts /\ intervals' = intervals
        /\ starting' = Ended(n) \/ \E what \in Awaited : starting' = Awaits(n, what)
    BY <1>19 DEF StartHangs, InFlight, Awaited
  <2>3. Calls
    BY <1>3, <2>2
  <2>4. Numbers
    BY <1>4, <1>19 DEF StartHangs
  <2>6. Peers
    BY <1>b, <1>c, <1>e, <1>19 DEF StartHangs, InFlight
  <2>. QED BY <1>1, <2>1, <2>3, <2>4, <2>6
<1>20. ASSUME NEW n \in Start, LastPiece(n) PROVE LifeTypeInv'
  <2>1. Values
    BY <1>a, <1>20 DEF LastPiece, TState
  <2>3. Calls
    BY <1>2, <1>20 DEF LastPiece
  <2>4. Numbers
    BY <1>4, <1>20 DEF LastPiece
  <2>6. Peers
    BY <1>b, <1>c, <1>e, <1>20 DEF LastPiece
  <2>. QED BY <1>1, <2>1, <2>3, <2>4, <2>6
<1>21. ASSUME NEW n \in Start, TransitionToSeeding(n) PROVE LifeTypeInv'
  <2>1. Values
    BY <1>a, <1>21 DEF TransitionToSeeding, TState, TellActive
  <2>3. Calls
    BY <1>2, <1>21 DEF TransitionToSeeding
  <2>4. Numbers
    BY <1>4, <1>21 DEF TransitionToSeeding
  <2>6. Peers
    BY <1>b, <1>c, <1>e, <1>21 DEF TransitionToSeeding
  <2>. QED BY <1>1, <2>1, <2>3, <2>4, <2>6
<1>22. CASE PauseTorrent
  <2>1. Values
    BY <1>a, <1>22 DEF PauseTorrent, TState
  <2>3. Calls
    BY <1>2, <1>22 DEF PauseTorrent
  <2>4. Numbers
    BY <1>4, <1>22 DEF PauseTorrent
  <2>6. Peers
    BY <1>b, <1>c, <1>e, <1>22 DEF PauseTorrent
  <2>. QED BY <1>1, <2>1, <2>3, <2>4, <2>6
<1>23. CASE ResumeTorrent
  <2>1. Values
    BY <1>a, <1>23 DEF ResumeTorrent, TState
  <2>3. Calls
    BY <1>2, <1>23 DEF ResumeTorrent
  <2>4. Numbers
    BY <1>4, <1>23 DEF ResumeTorrent
  <2>6. Peers
    BY <1>b, <1>c, <1>e, <1>23 DEF ResumeTorrent
  <2>. QED BY <1>1, <2>1, <2>3, <2>4, <2>6
<1>24. CASE SelectionComplete
  <2>1. Values
    BY <1>a, <1>24 DEF SelectionComplete, TState, Kept
  <2>3. Calls
    BY <1>2, <1>24 DEF SelectionComplete
  <2>4. Numbers
    BY <1>4, <1>24 DEF SelectionComplete
  <2>6. Peers
    BY <1>b, <1>c, <1>e, <1>24 DEF SelectionComplete, Kept
  <2>. QED BY <1>1, <2>1, <2>3, <2>4, <2>6
<1>25. CASE BeginStop
  <2>1. Values
    BY <1>a, <1>25 DEF BeginStop, TState
  <2>2. /\ DOMAIN starting' \subseteq DOMAIN starting /\ starts' = starts
        /\ \A n \in DOMAIN starting' : starting'[n] = starting[n]
        /\ handle' = FALSE /\ intervals' = IF handle THEN intervals - 1 ELSE intervals
    BY <1>25 DEF BeginStop
  <2>5. /\ IsFiniteSet(DOMAIN starting') /\ Cardinality(DOMAIN starting') \in Nat
        /\ Cardinality(DOMAIN starting') <= C
    BY <1>b, <2>2, CountPart
  <2>3. Calls
    <3>1. intervals' + Cardinality(DOMAIN starting') <= starts'
      BY <1>c, <1>d, <2>2, <2>5
    <3>. QED BY <1>b, <2>2, <2>5, <3>1
  <2>4. Numbers
    BY <1>c, <1>25, <2>2 DEF BeginStop
  <2>6. Peers
    BY <1>b, <1>c, <1>e, <1>25 DEF BeginStop, EndSession, DestroyPeers
  <2>. QED BY <1>1, <2>1, <2>3, <2>4, <2>6
<1>26. CASE StopAnnounced
  <2>1. Values
    BY <1>a, <1>26 DEF StopAnnounced, TState
  <2>3. Calls
    BY <1>2, <1>26 DEF StopAnnounced
  <2>4. Numbers
    BY <1>c, <1>26 DEF StopAnnounced
  <2>6. Peers
    BY <1>b, <1>c, <1>e, <1>26 DEF StopAnnounced, DestroyPeers
  <2>. QED BY <1>1, <2>1, <2>3, <2>4, <2>6
<1>27. CASE EndStop
  <2>1. Values
    BY <1>a, <1>27 DEF EndStop, TState
  <2>3. Calls
    BY <1>2, <1>27 DEF EndStop
  <2>4. Numbers
    BY <1>c, <1>27 DEF EndStop
  <2>6. Peers
    BY <1>b, <1>c, <1>e, <1>27 DEF EndStop
  <2>. QED BY <1>1, <2>1, <2>3, <2>4, <2>6
<1>28. CASE StopHangs
  <2>1. Values
    BY <1>a, <1>28 DEF StopHangs, TState
  <2>3. Calls
    BY <1>2, <1>28 DEF StopHangs
  <2>4. Numbers
    BY <1>c, <1>28 DEF StopHangs
  <2>6. Peers
    BY <1>b, <1>c, <1>e, <1>28 DEF StopHangs
  <2>. QED BY <1>1, <2>1, <2>3, <2>4, <2>6
<1>29. CASE BeginStopSeeding
  <2>1. Values
    BY <1>a, <1>29 DEF BeginStopSeeding, TState
  <2>3. Calls
    BY <1>2, <1>29 DEF BeginStopSeeding
  <2>4. Numbers
    BY <1>4, <1>29 DEF BeginStopSeeding
  <2>6. Peers
    BY <1>b, <1>c, <1>e, <1>29 DEF BeginStopSeeding
  <2>. QED BY <1>1, <2>1, <2>3, <2>4, <2>6
<1>30. CASE EndStopSeeding
  <2>1. Values
    BY <1>a, <1>30 DEF EndStopSeeding, TState
  <2>3. Calls
    BY <1>2, <1>30 DEF EndStopSeeding
  <2>4. Numbers
    BY <1>4, <1>30 DEF EndStopSeeding
  <2>6. Peers
    BY <1>b, <1>c, <1>e, <1>30 DEF EndStopSeeding
  <2>. QED BY <1>1, <2>1, <2>3, <2>4, <2>6
<1>31. CASE StopSeedingHangs
  <2>1. Values
    BY <1>a, <1>31 DEF StopSeedingHangs, TState
  <2>3. Calls
    BY <1>2, <1>31 DEF StopSeedingHangs
  <2>4. Numbers
    BY <1>4, <1>31 DEF StopSeedingHangs
  <2>6. Peers
    BY <1>b, <1>c, <1>e, <1>31 DEF StopSeedingHangs
  <2>. QED BY <1>1, <2>1, <2>3, <2>4, <2>6
<1>32. CASE UNCHANGED lifeVars
  <2>1. Values
    BY <1>a, <1>32 DEF lifeVars
  <2>3. Calls
    BY <1>2, <1>32 DEF lifeVars
  <2>4. Numbers
    BY <1>4, <1>32 DEF lifeVars
  <2>6. Peers
    BY <1>b, <1>c, <1>e, <1>32 DEF lifeVars
  <2>. QED BY <1>1, <2>1, <2>3, <2>4, <2>6
<1>. QED BY <1>10, <1>11, <1>12, <1>13, <1>14, <1>15, <1>16, <1>17, <1>18, <1>19, <1>20, <1>21,
   <1>22, <1>23, <1>24, <1>25, <1>26, <1>27, <1>28, <1>29, <1>30, <1>31, <1>32 DEF LifeNext

(* Types of the calls, managers and timers: intervals never outnumber the starts that
   have ended, and one that is known ticks. *)
THEOREM LifeTypeCorrect == LifeInit /\ [][LifeNext]_lifeVars => []LifeTypeOK
<1>1. LifeTypeInv => LifeTypeOK
  BY DEF LifeTypeInv
<1>. QED BY <1>1, LifeTypeStart, LifeTypeStep, PTL
-----------------------------------------------------------------------------
Request == [who : Client, bytes : Nat]
Sender == [left : 0..BlockSize, at : At, ask : 0..BlockSize]
Waits(x) == IF x = "global" THEN "wait_global" ELSE "wait_own"

(* What the queues W and the senders snd say of each other. *)
Line(W, snd, x) ==
  /\ \A i \in DOMAIN W[x] : /\ snd[W[x][i].who].at = Waits(x)
                            /\ W[x][i].bytes = snd[W[x][i].who].ask
                            /\ x = "global" \/ x = W[x][i].who
  /\ \A i, j \in DOMAIN W[x] : W[x][i].who = W[x][j].who => i = j
Present(W, snd, t) ==
  /\ snd[t].at = "wait_global" => \E i \in DOMAIN W["global"] : W["global"][i].who = t
  /\ snd[t].at = "wait_own" => \E i \in DOMAIN W[t] : W[t][i].who = t
Modest(snd) == \A t \in Client : snd[t].ask <= snd[t].left
Queues(W, snd) ==
  /\ W \in [Bucket -> Seq(Request)] /\ snd \in [Client -> Sender] /\ Modest(snd)
  /\ \A x \in Bucket : Line(W, snd, x)
  /\ \A t \in Client : Present(W, snd, t)

Buckets ==
  /\ limit \in [Bucket -> Nat] /\ tokens \in [Bucket -> Nat]
  /\ tokens["global"] <= limit["global"] * Ticks
  /\ paused \subseteq Bucket /\ allocated \subseteq Client
  /\ ownLimit \in [Client -> Limit] /\ changes \in 0..MaxChanges
ThrottleInv ==
  /\ Buckets /\ Queues(waiters, sender)
  /\ \A x \in Bucket : waiters[x] # <<>> => tokens[x] = 0
-----------------------------------------------------------------------------
(* A client is not the engine's bucket. *)
LEMMA ClientFacts ==
  /\ \A t \in Client : t # "global" /\ t \in Bucket /\ Waits(t) = "wait_own"
  /\ "global" \in Bucket /\ Waits("global") = "wait_global"
  /\ \A x \in Bucket : x = "global" \/ x \in Client
  BY ThrottlerAssumption DEF Bucket, Waits

(* A request is made of a client and what it asks for. *)
LEMMA RequestFields ==
  ASSUME NEW t \in Client, NEW n \in Nat
  PROVE  [who |-> t, bytes |-> n] \in Request
  BY DEF Request

(* The places where a sender is. *)
LEMMA AtFacts ==
  /\ {"idle", "ask_global", "wait_global", "resume_global",
       "ask_own", "wait_own", "resume_own"} \subseteq At
  /\ \A x : Waits(x) \in At /\ Waits(x) \in {"wait_global", "wait_own"}
  BY DEF At, Waits

(* What a sender is after a grant of no more than it asked for. *)
LEMMA GrantFacts ==
  ASSUME NEW s \in Sender, s.ask <= s.left, NEW x \in Bucket, NEW n \in 0..BlockSize, n <= s.ask
  PROVE  /\ Granted(s, x, n) \in Sender
         /\ Granted(s, x, n).ask <= Granted(s, x, n).left
         /\ Granted(s, x, n).at \notin {"wait_global", "wait_own"}
<1>1. BlockSize \in Nat
  BY ThrottlerAssumption
<1>2. s.left \in 0..BlockSize /\ s.ask \in 0..BlockSize
  BY DEF Sender
<1>3. CASE x = "global"
  <2>. DEFINE r == [s EXCEPT !.at = "ask_own", !.ask = n]
  <2>1. Granted(s, x, n) = r
    BY <1>3 DEF Granted
  <2>2. "ask_own" \in At
    BY DEF At
  <2>3. r \in Sender /\ r.at = "ask_own" /\ r.ask = n /\ r.left = s.left
    BY <2>2 DEF Sender
  <2>. HIDE DEF r
  <2>. QED BY <1>1, <1>2, <2>1, <2>3
<1>4. CASE x # "global"
  <2>. DEFINE a == IF s.left > n THEN "ask_global" ELSE "idle"
              m == s.left - n
              r == [left |-> m, ask |-> m, at |-> a]
  <2>1. Granted(s, x, n) = r
    BY <1>4 DEF Granted
  <2>2. a \in At /\ a \notin {"wait_global", "wait_own"}
    BY DEF At
  <2>3. m \in 0..BlockSize
    BY <1>1, <1>2
  <2>. HIDE DEF a, m
  <2>4. r \in Sender /\ r.ask = r.left /\ r.at = a
    BY <2>2, <2>3 DEF Sender
  <2>5. r.left \in 0..BlockSize
    BY <2>3
  <2>. HIDE DEF r
  <2>. QED BY <1>1, <2>1, <2>2, <2>4, <2>5
<1>. QED BY <1>3, <1>4

(* Nobody who does not wait is in a queue. *)
LEMMA WaitersFacts ==
  ASSUME NEW W, NEW snd, Queues(W, snd), NEW t, snd[t].at \notin {"wait_global", "wait_own"},
         NEW x \in Bucket, NEW i \in DOMAIN W[x]
  PROVE  W[x][i] \in Request /\ W[x][i].who \in Client /\ W[x][i].who # t
<1>1. W[x] \in Seq(Request)
  BY DEF Queues
<1>2. W[x][i] \in Request
  BY <1>1
<1>3. W[x][i].who \in Client
  BY <1>2 DEF Request
<1>4. snd[W[x][i].who].at = Waits(x)
  BY DEF Queues, Line
<1>. QED BY <1>2, <1>3, <1>4, AtFacts

(* A sender that does not wait goes on to something that is no waiting. *)
LEMMA MovesOn ==
  ASSUME NEW W, NEW snd, Queues(W, snd), NEW t \in Client, NEW r \in Sender, r.ask <= r.left,
         snd[t].at \notin {"wait_global", "wait_own"}, r.at \notin {"wait_global", "wait_own"}
  PROVE  Queues(W, [snd EXCEPT ![t] = r])
<1>. DEFINE new == [snd EXCEPT ![t] = r]
<1>1. new \in [Client -> Sender] /\ new[t] = r /\ \A u \in Client : u # t => new[u] = snd[u]
  BY DEF Queues
<1>2. W \in [Bucket -> Seq(Request)]
  BY DEF Queues
<1>. HIDE DEF new
<1>3. Modest(new)
  BY <1>1 DEF Queues, Modest
<1>4. ASSUME NEW x \in Bucket PROVE Line(W, new, x)
  <2>1. Line(W, snd, x) /\ Waits(x) \in {"wait_global", "wait_own"}
    BY DEF Queues, Waits
  <2>2. \A i \in DOMAIN W[x] : W[x][i].who \in Client /\ W[x][i].who # t
    BY WaitersFacts
  <2>. QED BY <1>1, <2>1, <2>2 DEF Line
<1>5. ASSUME NEW u \in Client PROVE Present(W, new, u)
  BY <1>1 DEF Queues, Present
<1>. QED BY <1>1, <1>2, <1>3, <1>4, <1>5 DEF Queues, new

(* A sender joins the queue of a bucket it asks. *)
LEMMA Joins ==
  ASSUME NEW W, NEW snd, Queues(W, snd), NEW t \in Client, NEW x \in {"global", t},
         snd[t].at \notin {"wait_global", "wait_own"}
  PROVE  Queues([W EXCEPT ![x] = Append(@, [who |-> t, bytes |-> snd[t].ask])],
                [snd EXCEPT ![t].at = Waits(x)])
<1>. DEFINE new == [snd EXCEPT ![t].at = Waits(x)]
            req == [who |-> t, bytes |-> snd[t].ask]
            V == [W EXCEPT ![x] = Append(@, req)]
<1>0. x \in Bucket /\ W[x] \in Seq(Request) /\ Waits(x) \in At
  BY ClientFacts, AtFacts DEF Queues
<1>1. /\ snd[t] \in Sender /\ snd \in [Client -> Sender] /\ 0 \in 0..BlockSize
      /\ snd[t].ask \in Nat
  <2>1. snd[t] \in Sender /\ snd \in [Client -> Sender] /\ BlockSize \in Nat
    BY ThrottlerAssumption DEF Queues
  <2>. QED BY <2>1 DEF Sender
<1>2. /\ new \in [Client -> Sender] /\ \A u \in Client : u # t => new[u] = snd[u]
      /\ new[t].at = Waits(x) /\ new[t].ask = snd[t].ask /\ new[t].left = snd[t].left
  <2>. DEFINE r == [snd[t] EXCEPT !.at = Waits(x)]
  <2>1. r \in Sender /\ r.at = Waits(x) /\ r.ask = snd[t].ask /\ r.left = snd[t].left
    BY <1>0, <1>1 DEF Sender
  <2>2. new = [snd EXCEPT ![t] = r]
    OBVIOUS
  <2>. HIDE DEF r, new
  <2>. QED BY <1>1, <2>1, <2>2
<1>3. req \in Request /\ req.who = t /\ req.bytes = snd[t].ask
  BY <1>1, RequestFields
<1>4. /\ V \in [Bucket -> Seq(Request)] /\ \A y \in Bucket : y # x => V[y] = W[y]
      /\ V[x] = Append(W[x], req)
  BY <1>0, <1>3 DEF Queues
<1>. HIDE DEF new, req, V
<1>5. /\ DOMAIN V[x] = 1..Len(W[x]) + 1 /\ Len(W[x]) \in Nat /\ DOMAIN W[x] = 1..Len(W[x])
      /\ V[x][Len(W[x]) + 1] = req /\ \A i \in DOMAIN W[x] : V[x][i] = W[x][i]
  BY <1>0, <1>3, <1>4
<1>6. Modest(new)
  BY <1>2 DEF Queues, Modest
<1>7. ASSUME NEW y \in Bucket, NEW i \in DOMAIN W[y] PROVE W[y][i].who \in Client /\ W[y][i].who # t
  BY WaitersFacts
<1>8. ASSUME NEW y \in Bucket PROVE Line(V, new, y)
  <2>1. Line(W, snd, y)
    BY DEF Queues
  <2>2. CASE y # x
    <3>1. V[y] = W[y] /\ \A i \in DOMAIN W[y] : new[W[y][i].who] = snd[W[y][i].who]
      BY <1>2, <1>4, <1>7, <2>2
    <3>. QED BY <2>1, <3>1 DEF Line
  <2>3. CASE y = x
    <3>1. ASSUME NEW i \in DOMAIN V[x] PROVE /\ new[V[x][i].who].at = Waits(x)
                                             /\ V[x][i].bytes = new[V[x][i].who].ask
                                             /\ x = "global" \/ x = V[x][i].who
      <4>1. CASE i \in DOMAIN W[x]
        BY <1>0, <1>2, <1>5, <1>7, <2>1, <2>3, <4>1 DEF Line
      <4>2. CASE i = Len(W[x]) + 1
        BY <1>2, <1>3, <1>5, <4>2
      <4>. QED BY <1>5, <4>1, <4>2
    <3>2. ASSUME NEW i \in DOMAIN V[x], NEW j \in DOMAIN V[x], V[x][i].who = V[x][j].who PROVE i = j
      <4>1. \A k \in DOMAIN V[x] : k \in DOMAIN W[x] \/ k = Len(W[x]) + 1
        BY <1>5
      <4>2. CASE i \in DOMAIN W[x] /\ j \in DOMAIN W[x]
        BY <1>5, <2>1, <2>3, <3>2, <4>2 DEF Line
      <4>3. \A k \in DOMAIN W[x] : V[x][k].who # t
        BY <1>0, <1>5, <1>7
      <4>. QED BY <1>3, <1>5, <3>2, <4>1, <4>2, <4>3
    <3>. QED BY <2>3, <3>1, <3>2 DEF Line
  <2>. QED BY <2>2, <2>3
<1>9. ASSUME NEW u \in Client PROVE Present(V, new, u)
  <2>1. Present(W, snd, u) /\ u \in Bucket /\ "global" \in Bucket
    BY ClientFacts DEF Queues
  <2>2. ASSUME NEW y \in Bucket, \E i \in DOMAIN W[y] : W[y][i].who = u
        PROVE  \E i \in DOMAIN V[y] : V[y][i].who = u
    <3>1. CASE y # x
      BY <1>4, <2>2, <3>1
    <3>2. CASE y = x
      BY <1>5, <2>2, <3>2
    <3>. QED BY <3>1, <3>2
  <2>3. CASE u # t
    BY <1>2, <2>1, <2>2, <2>3 DEF Present
  <2>4. CASE u = t
    <3>1. \E i \in DOMAIN V[x] : V[x][i].who = t
      BY <1>3, <1>5
    <3>. QED BY <1>2, <2>4, <3>1, ClientFacts DEF Present
  <2>. QED BY <2>3, <2>4
<1>. QED BY <1>2, <1>4, <1>6, <1>8, <1>9 DEF Queues, new, V, req

(* The head of a queue leaves it with a grant. *)
LEMMA HeadLeaves ==
  ASSUME NEW W, NEW snd, Queues(W, snd), NEW x \in Bucket, W[x] # <<>>,
         NEW n \in 0..BlockSize, n <= Head(W[x]).bytes
  PROVE  /\ Head(W[x]) \in Request
         /\ Queues([W EXCEPT ![x] = Tail(W[x])],
                   [snd EXCEPT ![Head(W[x]).who] = Granted(snd[Head(W[x]).who], x, n)])
<1>. DEFINE q == W[x]
            t == q[1].who
            r == Granted(snd[t], x, n)
            new == [snd EXCEPT ![t] = r]
            V == [W EXCEPT ![x] = Tail(q)]
<1>1. W \in [Bucket -> Seq(Request)] /\ snd \in [Client -> Sender] /\ q \in Seq(Request)
  BY DEF Queues
<1>2. Head(W[x]) = q[1] /\ q # <<>> /\ 1 \in DOMAIN q /\ Len(q) \in Nat /\ DOMAIN q = 1..Len(q)
  BY <1>1
<1>3. q[1] \in Request /\ t \in Client
  <2>1. q[1] \in Request
    BY <1>1, <1>2
  <2>. QED BY <2>1 DEF Request
<1>4. \A y \in Bucket : Line(W, snd, y)
  BY DEF Queues
<1>5. snd[t].at = Waits(x) /\ q[1].bytes = snd[t].ask /\ (x = "global" \/ x = t)
  BY <1>2, <1>4 DEF Line
<1>6. snd[t] \in Sender /\ snd[t].ask <= snd[t].left
  BY <1>1, <1>3 DEF Queues, Modest
<1>7. r \in Sender /\ r.ask <= r.left /\ r.at \notin {"wait_global", "wait_own"}
  <2>1. n <= snd[t].ask
    BY <1>2, <1>5
  <2>. QED BY <1>6, <2>1, GrantFacts
<1>. HIDE DEF r
<1>8. new \in [Client -> Sender] /\ new[t] = r /\ \A u \in Client : u # t => new[u] = snd[u]
  BY <1>1, <1>3, <1>7
<1>9. Tail(q) \in Seq(Request) /\ DOMAIN Tail(q) = 1..Len(q) - 1
      /\ \A i \in 1..Len(q) - 1 : i + 1 \in DOMAIN q /\ Tail(q)[i] = q[i + 1]
  BY <1>1, <1>2
<1>10. V \in [Bucket -> Seq(Request)] /\ V[x] = Tail(q) /\ \A y \in Bucket : y # x => V[y] = W[y]
  BY <1>1, <1>9
<1>. HIDE DEF new, V
<1>11. Modest(new)
  BY <1>7, <1>8 DEF Queues, Modest
<1>12. ASSUME NEW y \in Bucket, NEW i \in DOMAIN W[y], W[y][i].who = t, y # x PROVE FALSE
  <2>1. snd[t].at = Waits(y) /\ (y = "global" \/ y = t)
    BY <1>4, <1>12 DEF Line
  <2>2. Waits(x) = Waits(y)
    BY <1>5, <2>1
  <2>. QED BY <1>3, <1>5, <1>12, <2>1, <2>2, ClientFacts DEF Waits
<1>13. ASSUME NEW y \in Bucket, NEW i \in DOMAIN W[y] PROVE W[y][i].who \in Client
  <2>1. W[y] \in Seq(Request)
    BY <1>1
  <2>2. W[y][i] \in Request
    BY <2>1
  <2>. QED BY <2>2 DEF Request
<1>14. ASSUME NEW i \in DOMAIN q, i # 1 PROVE q[i].who # t
  BY <1>2, <1>4, <1>14 DEF Line
<1>15. ASSUME NEW y \in Bucket PROVE Line(V, new, y)
  <2>1. CASE y # x
    <3>1. V[y] = W[y] /\ \A i \in DOMAIN W[y] : new[W[y][i].who] = snd[W[y][i].who]
      BY <1>8, <1>10, <1>12, <1>13, <2>1
    <3>. QED BY <1>4, <3>1 DEF Line
  <2>2. CASE y = x
    <3>1. ASSUME NEW i \in 1..Len(q) - 1
          PROVE  /\ i + 1 \in DOMAIN q /\ V[x][i] = q[i + 1]
                 /\ new[q[i + 1].who] = snd[q[i + 1].who]
      <4>1. i + 1 \in DOMAIN q /\ i + 1 # 1 /\ V[x][i] = q[i + 1]
        BY <1>2, <1>9, <1>10
      <4>2. q[i + 1].who \in Client /\ q[i + 1].who # t
        BY <1>13, <1>14, <4>1
      <4>. QED BY <1>8, <4>1, <4>2
    <3>2. DOMAIN V[x] = 1..Len(q) - 1
      BY <1>9, <1>10
    <3>3. ASSUME NEW i \in DOMAIN V[x], NEW j \in DOMAIN V[x], V[x][i].who = V[x][j].who PROVE i = j
      <4>1. i + 1 \in DOMAIN q /\ j + 1 \in DOMAIN q /\ q[i + 1].who = q[j + 1].who
        BY <3>1, <3>2, <3>3
      <4>2. i + 1 = j + 1
        BY <1>4, <4>1 DEF Line
      <4>. QED BY <1>2, <3>2, <4>2
    <3>4. ASSUME NEW i \in DOMAIN V[x] PROVE /\ new[V[x][i].who].at = Waits(x)
                                             /\ V[x][i].bytes = new[V[x][i].who].ask
                                             /\ x = "global" \/ x = V[x][i].who
      <4>1. i \in 1..Len(q) - 1
        BY <3>2
      <4>2. i + 1 \in DOMAIN q /\ V[x][i] = q[i + 1] /\ new[q[i + 1].who] = snd[q[i + 1].who]
        BY <3>1, <4>1
      <4>3. /\ snd[q[i + 1].who].at = Waits(x) /\ q[i + 1].bytes = snd[q[i + 1].who].ask
            /\ x = "global" \/ x = q[i + 1].who
        BY <1>4, <4>2 DEF Line
      <4>. QED BY <4>2, <4>3
    <3>. QED BY <2>2, <3>3, <3>4 DEF Line
  <2>. QED BY <2>1, <2>2
<1>16. ASSUME NEW u \in Client PROVE Present(V, new, u)
  <2>1. CASE u = t
    BY <1>7, <1>8, <2>1 DEF Present
  <2>2. CASE u # t
    <3>1. Present(W, snd, u) /\ u \in Bucket /\ "global" \in Bucket /\ new[u] = snd[u]
      BY <1>8, <2>2, ClientFacts DEF Queues
    <3>2. ASSUME NEW y \in Bucket, NEW i \in DOMAIN W[y], W[y][i].who = u
          PROVE  \E j \in DOMAIN V[y] : V[y][j].who = u
      <4>1. CASE y # x
        BY <1>10, <3>2, <4>1
      <4>2. CASE y = x
        <5>1. i \in DOMAIN q /\ i # 1
          BY <2>2, <3>2, <4>2
        <5>2. i - 1 \in 1..Len(q) - 1 /\ (i - 1) + 1 = i
          BY <1>2, <5>1
        <5>3. i - 1 \in DOMAIN V[x] /\ V[x][i - 1] = q[i]
          BY <1>9, <1>10, <5>2
        <5>. QED BY <3>2, <4>2, <5>3
      <4>. QED BY <4>1, <4>2
    <3>. QED BY <3>1, <3>2 DEF Present
  <2>. QED BY <2>1, <2>2
<1>17. Queues(V, new)
  BY <1>8, <1>10, <1>11, <1>15, <1>16 DEF Queues
<1>. QED BY <1>2, <1>3, <1>17 DEF V, new, r

(* The senders after a destroyed throttler has answered the ones that wait at it. *)
Answered(W, snd, t) ==
  [u \in Client |-> IF \E i \in DOMAIN W[t] : W[t][i].who = u
                   THEN Granted(snd[u], t, 0) ELSE snd[u]]

(* The destroyed throttler of a client: its own queue holds at most its request. *)
LEMMA QueueGoes ==
  ASSUME NEW W, NEW snd, Queues(W, snd), NEW t \in Client
  PROVE  Queues([W EXCEPT ![t] = <<>>], Answered(W, snd, t))
<1>. DEFINE new == [u \in Client |-> IF \E i \in DOMAIN W[t] : W[t][i].who = u
                                     THEN Granted(snd[u], t, 0) ELSE snd[u]]
            q == W[t]
<1>. SUFFICES Queues([W EXCEPT ![t] = <<>>], new)
  BY DEF Answered
<1>1. W \in [Bucket -> Seq(Request)] /\ snd \in [Client -> Sender] /\ t \in Bucket /\ t # "global"
  BY ClientFacts DEF Queues
<1>2. q \in Seq(Request) /\ DOMAIN q = 1..Len(q) /\ Len(q) \in Nat
  BY <1>1
<1>3. Line(W, snd, t)
  BY <1>1 DEF Queues
<1>4. CASE q = <<>>
  <2>1. new = snd
    BY <1>1, <1>4
  <2>2. [W EXCEPT ![t] = <<>>] = W
    BY <1>1, <1>4
  <2>. QED BY <2>1, <2>2
<1>5. CASE q # <<>>
  <2>1. 1 \in DOMAIN q /\ \A i \in DOMAIN q : q[i].who = t
    BY <1>1, <1>2, <1>3, <1>5 DEF Line
  <2>2. \A i \in DOMAIN q : i = 1
    BY <1>3, <2>1 DEF Line
  <2>3. Len(q) = 1
    <3>1. Len(q) \in DOMAIN q
      BY <1>2, <1>5
    <3>. QED BY <2>2, <3>1
  <2>4. Tail(q) = <<>> /\ Head(q) = q[1] /\ Head(q).who = t
    <3>1. Tail(q) \in Seq(Request) /\ Len(Tail(q)) = 0
      BY <1>2, <1>5, <2>3
    <3>2. Tail(q) = <<>>
      BY <3>1, EmptySeq
    <3>. QED BY <1>2, <1>5, <2>1, <3>2
  <2>5. new = [snd EXCEPT ![t] = Granted(snd[t], t, 0)]
    BY <1>1, <2>1
  <2>6. q[1] \in Request
    BY <1>2, <2>1
  <2>7. 0 \in 0..BlockSize /\ 0 <= Head(q).bytes
    BY <2>4, <2>6, ThrottlerAssumption DEF Request
  <2>8. Queues([W EXCEPT ![t] = Tail(q)], [snd EXCEPT ![Head(q).who] = Granted(snd[Head(q).who], t, 0)])
    BY <1>1, <1>5, <2>7, HeadLeaves
  <2>. HIDE DEF new
  <2>. QED BY <2>4, <2>5, <2>8 DEF new
<1>. QED BY <1>4, <1>5

(* Integer division of the tokens that do not pay for a whole request. *)
LEMMA PartFacts ==
  ASSUME NEW a \in Nat, NEW b \in Nat, NEW k \in Nat \ {0}
  PROVE  /\ b * k \in Nat
         /\ a >= b * k => a - b * k \in 0..a
         /\ ~(a >= b * k) => a \div k \in 0..b
<1>1. b * k \in Nat
  OBVIOUS
<1>2. ASSUME ~(a >= b * k) PROVE a \div k \in 0..b
  <2>. DEFINE d == a \div k
  <2>1. d \in Nat /\ k * d <= a
    OBVIOUS
  <2>. HIDE DEF d
  <2>2. d <= b
    <3>. SUFFICES ASSUME d > b PROVE FALSE
      BY <2>1
    <3>1. k * d >= k * (b + 1)
      BY <2>1
    <3>. QED BY <1>2, <2>1, <3>1
  <2>. QED BY <2>1, <2>2 DEF d
<1>. QED BY <1>1, <1>2

(* The states of _processQueue at a bucket x whose tokens are at most m. *)
Served(x, m) ==
  {s \in [queue : Seq(Request), tokens : Nat, sender : [Client -> Sender], bucket : {x}] :
     s.tokens <= m /\ Queues([waiters EXCEPT ![x] = s.queue], s.sender)}
Over(s) == s.queue = <<>> \/ s.tokens = 0

(* _processQueue's step: the head is served in full or in part. *)
LEMMA ServeFacts ==
  ASSUME NEW x \in Bucket, NEW m \in Nat, NEW s \in Served(x, m), waiters \in [Bucket -> Seq(Request)]
  PROVE  /\ Serve(s) \in Served(x, m)
         /\ Over(s) => Serve(s) = s
         /\ ~Over(s) => Len(Serve(s).queue) = Len(s.queue) - 1
<1>1. /\ s.queue \in Seq(Request) /\ s.tokens \in Nat /\ s.sender \in [Client -> Sender]
      /\ s.bucket = x /\ s.tokens <= m /\ Queues([waiters EXCEPT ![x] = s.queue], s.sender)
  BY DEF Served
<1>2. CASE Over(s)
  BY <1>2 DEF Over, Serve
<1>3. CASE ~Over(s)
  <2>. DEFINE W == [waiters EXCEPT ![x] = s.queue]
              r == Head(s.queue)
              all == s.tokens >= r.bytes * Ticks
              n == IF all THEN r.bytes ELSE s.tokens \div Ticks
              left == IF all THEN s.tokens - r.bytes * Ticks ELSE 0
              new == [s.sender EXCEPT ![r.who] = Granted(s.sender[r.who], x, n)]
  <2>1. W[x] = s.queue /\ [W EXCEPT ![x] = Tail(s.queue)] = [waiters EXCEPT ![x] = Tail(s.queue)]
    OBVIOUS
  <2>2. s.queue # <<>> /\ r \in Request /\ Tail(s.queue) \in Seq(Request)
        /\ Len(Tail(s.queue)) = Len(s.queue) - 1
    BY <1>1, <1>3 DEF Over
  <2>3. Serve(s) = [queue |-> Tail(s.queue), tokens |-> left, sender |-> new, bucket |-> x]
    BY <1>1, <1>3 DEF Over, Serve
  <2>4. r.bytes \in 0..BlockSize
    <3>1. Line(W, s.sender, x)
      BY <1>1 DEF Queues
    <3>2. 1 \in DOMAIN s.queue /\ r = s.queue[1]
      BY <1>1, <2>2
    <3>3. s.sender[r.who].ask = r.bytes
      BY <2>1, <3>1, <3>2 DEF Line
    <3>4. s.sender[r.who] \in Sender
      BY <1>1, <2>2 DEF Request
    <3>. QED BY <3>3, <3>4 DEF Sender
  <2>5. n \in 0..BlockSize /\ n <= r.bytes /\ left \in 0..s.tokens
    <3>. DEFINE b == r.bytes
                a == s.tokens
    <3>1. b \in Nat /\ a \in Nat /\ b <= BlockSize /\ BlockSize \in Nat /\ Ticks \in Nat \ {0}
      BY <1>1, <2>4, ThrottlerAssumption
    <3>2. /\ a >= b * Ticks => a - b * Ticks \in 0..a
          /\ ~(a >= b * Ticks) => a \div Ticks \in 0..b
      BY <3>1, PartFacts
    <3>3. CASE all
      BY <3>1, <3>2, <3>3
    <3>4. CASE ~all
      BY <3>1, <3>2, <3>4
    <3>. QED BY <3>3, <3>4
  <2>. HIDE DEF n, left, W, all
  <2>6. Queues([W EXCEPT ![x] = Tail(W[x])], new)
    BY <1>1, <2>1, <2>2, <2>5, HeadLeaves DEF W
  <2>7. new \in [Client -> Sender]
    BY <2>6 DEF Queues
  <2>. HIDE DEF new
  <2>8. left \in Nat /\ left <= m
    BY <1>1, <2>5
  <2>9. Serve(s) \in Served(x, m)
    <3>1. Queues([waiters EXCEPT ![x] = Tail(s.queue)], new)
      BY <2>1, <2>6
    <3>. DEFINE o == [queue |-> Tail(s.queue), tokens |-> left, sender |-> new, bucket |-> x]
    <3>2. o \in [queue : Seq(Request), tokens : Nat, sender : [Client -> Sender], bucket : {x}]
      BY <2>2, <2>7, <2>8
    <3>3. o.tokens = left /\ o.queue = Tail(s.queue) /\ o.sender = new
      OBVIOUS
    <3>. HIDE DEF o
    <3>4. o \in Served(x, m)
      BY <2>8, <3>1, <3>2, <3>3 DEF Served
    <3>. QED BY <2>3, <3>4 DEF o
  <2>. QED BY <1>3, <2>2, <2>3, <2>9
<1>. QED BY <1>2, <1>3

(* _processQueue comes to its end: the queue is served, or the bucket is empty. *)
LEMMA AllServed ==
  ASSUME NEW x \in Bucket, NEW m \in Nat, NEW s \in Served(x, m), waiters \in [Bucket -> Seq(Request)]
  PROVE  ServeWaiters(s) \in Served(x, m) /\ Over(ServeWaiters(s))
<1>. DEFINE N == Len(s.queue)
            D == Served(x, m)
            step == [n \in 1..N |-> [d \in D |-> Serve(d)]]
            served == CHOOSE f : f = [n \in 0..N |-> IF n = 0 THEN s ELSE Serve(f[n - 1])]
<1>1. N \in Nat /\ s \in D
  BY DEF Served
<1>2. ServeWaiters(s) = served[N]
  BY DEF ServeWaiters
<1>3. \A d \in D : Serve(d) \in D
  BY ServeFacts
<1>4. step \in Steps(N, D) /\ \A n \in 1..N, d \in D : step[n][d] = Serve(d)
  <2>. HIDE DEF D, N
  <2>. QED BY <1>3 DEF Steps
<1>. HIDE DEF D, step, N, served
<1>5. PICK f \in [0..N -> D] : f[0] = s /\ \A n \in 1..N : f[n] = step[n][f[n - 1]]
  <2>1. Repeats(N, D, s, step) # {}
    BY <1>1, <1>4, Iterates
  <2>. QED BY <2>1 DEF Repeats
<1>6. f = [n \in 0..N |-> IF n = 0 THEN s ELSE Serve(f[n - 1])]
  <2>1. \A n \in 1..N : n - 1 \in 0..N /\ f[n] = Serve(f[n - 1])
    BY <1>1, <1>4, <1>5
  <2>. QED BY <1>1, <1>5, <2>1
<1>7. served = [n \in 0..N |-> IF n = 0 THEN s ELSE Serve(served[n - 1])]
  BY <1>6 DEF served
<1>. DEFINE T == {n \in 0..N : served[n] \in D /\ (Over(served[n]) \/ Len(served[n].queue) = N - n)}
<1>8. 0 \in T
  BY <1>1, <1>7 DEF N
<1>9. \A i \in 0..N : i \in T /\ i < N => i + 1 \in T
  <2>. SUFFICES ASSUME NEW i \in 0..N, i \in T, i < N PROVE i + 1 \in T
    OBVIOUS
  <2>1. served[i + 1] = Serve(served[i]) /\ i + 1 \in 0..N /\ N - (i + 1) = (N - i) - 1
    BY <1>1, <1>7
  <2>2. served[i] \in Served(x, m) /\ (Over(served[i]) \/ Len(served[i].queue) = N - i)
    BY DEF D
  <2>3. CASE Over(served[i])
    <3>1. Serve(served[i]) \in Served(x, m) /\ Over(Serve(served[i]))
      BY <2>2, <2>3, ServeFacts
    <3>. QED BY <2>1, <3>1 DEF D
  <2>4. CASE ~Over(served[i])
    <3>1. /\ Serve(served[i]) \in Served(x, m)
          /\ Over(Serve(served[i])) \/ Len(Serve(served[i]).queue) = Len(served[i].queue) - 1
      BY <2>2, <2>4, ServeFacts
    <3>. QED BY <2>1, <2>2, <2>4, <3>1 DEF D
  <2>. QED BY <2>3, <2>4
<1>. HIDE DEF T
<1>10. 0..N \subseteq T
  BY <1>1, <1>8, <1>9, UpTo
<1>11. N \in T
  BY <1>1, <1>10
<1>12. served[N] \in D /\ (Over(served[N]) \/ Len(served[N].queue) = 0)
  BY <1>1, <1>11 DEF T
<1>13. Over(served[N])
  <2>1. served[N].queue \in Seq(Request)
    BY <1>12 DEF D, Served
  <2>. QED BY <1>12, <2>1, EmptySeq DEF Over
<1>. QED BY <1>2, <1>12, <1>13 DEF D
-----------------------------------------------------------------------------
(* The limit of a torrent is a number. *)
LEMMA EffectiveFacts ==
  ASSUME NEW own \in Nat, NEW total \in Nat, NEW alloc \in SUBSET Client, NEW t
  PROVE  Effective(own, Share(t, total, alloc)) \in Nat
<1>1. Share(t, total, alloc) \in Nat
  <2>1. CASE t \notin alloc
    BY <2>1 DEF Share
  <2>2. CASE t \in alloc
    <3>1. IsFiniteSet(alloc) /\ Cardinality(alloc) \in Nat
      BY ThrottlerAssumption, CountPart
    <3>2. Cardinality(alloc) # 0
      BY <2>2, <3>1, FS_EmptySet
    <3>. DEFINE k == Cardinality(alloc)
    <3>3. k \in Nat \ {0}
      BY <3>1, <3>2
    <3>4. Share(t, total, alloc) = total \div k
      BY <2>2 DEF Share
    <3>. HIDE DEF k
    <3>5. total \div k \in Nat
      BY <3>3
    <3>. QED BY <3>4, <3>5
  <2>. QED BY <2>1, <2>2
<1>. QED BY <1>1 DEF Effective, Lesser

(* A queue of no one, and of those who wait, with empty buckets. *)
LEMMA ThrottleStart == ThrottleInit => ThrottleInv
<1>. SUFFICES ASSUME ThrottleInit PROVE ThrottleInv
  OBVIOUS
<1>1. Buckets
  BY ThrottlerAssumption, ClientFacts DEF ThrottleInit, Buckets
<1>2. Queues(waiters, sender)
  <2>1. waiters \in [Bucket -> Seq(Request)] /\ \A x \in Bucket : waiters[x] = <<>>
    BY DEF ThrottleInit
  <2>. DEFINE idle == [left |-> 0, at |-> "idle", ask |-> 0]
  <2>2. sender = [t \in Client |-> idle]
    BY DEF ThrottleInit
  <2>3. idle \in Sender /\ idle.at = "idle" /\ idle.ask <= idle.left
    BY ThrottlerAssumption DEF Sender, At
  <2>. HIDE DEF idle
  <2>4. sender \in [Client -> Sender] /\ \A t \in Client : sender[t] = idle
    BY <2>2, <2>3
  <2>5. \A x \in Bucket : Line(waiters, sender, x)
    BY <2>1 DEF Line
  <2>6. \A t \in Client : Present(waiters, sender, t)
    BY <2>3, <2>4 DEF Present
  <2>. QED BY <2>1, <2>3, <2>4, <2>5, <2>6 DEF Queues, Modest
<1>. QED BY <1>1, <1>2 DEF ThrottleInit, ThrottleInv

(* What the first part of a request does to the bucket and the queues. *)
LEMMA TakeKeeps ==
  ASSUME ThrottleInv, NEW t \in Client, NEW x \in {"global", t}, Take(x, t),
         sender[t].at \notin {"wait_global", "wait_own"}
  PROVE  /\ tokens' \in [Bucket -> Nat] /\ \A y \in Bucket : tokens'[y] <= tokens[y]
         /\ Queues(waiters', sender')
         /\ \A y \in Bucket : waiters'[y] # <<>> => tokens'[y] = 0
<1>. DEFINE b == sender[t].ask
            all == tokens[x] >= b * Ticks
            got == IF all THEN b ELSE tokens[x] \div Ticks
            rest == IF all THEN tokens[x] - b * Ticks ELSE 0
<1>1. x \in Bucket
  BY ClientFacts
<1>2. /\ tokens \in [Bucket -> Nat] /\ Queues(waiters, sender)
      /\ \A y \in Bucket : waiters[y] # <<>> => tokens[y] = 0
  BY DEF ThrottleInv, Buckets
<1>3. sender \in [Client -> Sender] /\ waiters \in [Bucket -> Seq(Request)] /\ b <= sender[t].left
  BY <1>2 DEF Queues, Modest
<1>4. b \in 0..BlockSize /\ BlockSize \in Nat /\ Ticks \in Nat \ {0} /\ tokens[x] \in Nat /\ b \in Nat
  <2>1. sender[t] \in Sender
    BY <1>3
  <2>. QED BY <1>1, <1>2, <2>1, ThrottlerAssumption DEF Sender
<1>5. CASE all \/ tokens[x] > 0
  <2>1. /\ tokens' = [tokens EXCEPT ![x] = rest]
        /\ sender' = [sender EXCEPT ![t] = Granted(sender[t], x, got)]
        /\ waiters' = waiters
    BY <1>5 DEF Take
  <2>2. got \in 0..BlockSize /\ got <= b /\ rest \in 0..tokens[x]
    <3>1. /\ all => tokens[x] - b * Ticks \in 0..tokens[x]
          /\ ~all => tokens[x] \div Ticks \in 0..b
      BY <1>4, PartFacts
    <3>2. CASE all
      BY <1>4, <3>1, <3>2
    <3>3. CASE ~all
      BY <1>4, <3>1, <3>3
    <3>. QED BY <3>2, <3>3
  <2>. HIDE DEF got, rest, all
  <2>. DEFINE r == Granted(sender[t], x, got)
  <2>3. r \in Sender /\ r.ask <= r.left /\ r.at \notin {"wait_global", "wait_own"}
    BY <1>1, <1>3, <2>2, GrantFacts
  <2>. HIDE DEF r
  <2>4. Queues(waiters, [sender EXCEPT ![t] = r])
    BY <1>2, <2>3, MovesOn
  <2>5. tokens' \in [Bucket -> Nat] /\ \A y \in Bucket : tokens'[y] <= tokens[y]
    BY <1>1, <1>2, <1>4, <2>1, <2>2
  <2>6. \A y \in Bucket : waiters[y] # <<>> => tokens'[y] = 0
    <3>. SUFFICES ASSUME NEW y \in Bucket, waiters[y] # <<>> PROVE tokens'[y] = 0
      OBVIOUS
    <3>1. tokens[y] = 0 /\ tokens'[y] \in Nat /\ tokens'[y] <= tokens[y]
      BY <1>2, <2>5
    <3>. QED BY <3>1
  <2>. QED BY <2>1, <2>4, <2>5, <2>6 DEF r
<1>6. CASE ~(all \/ tokens[x] > 0)
  <2>1. /\ waiters' = [waiters EXCEPT ![x] = Append(@, [who |-> t, bytes |-> sender[t].ask])]
        /\ sender' = [sender EXCEPT ![t].at = Waits(x)] /\ tokens' = tokens
    <3>. DEFINE w == IF x = "global" THEN "wait_global" ELSE "wait_own"
    <3>1. Waits(x) = w
      BY DEF Waits
    <3>2. /\ waiters' = [waiters EXCEPT ![x] = Append(@, [who |-> t, bytes |-> sender[t].ask])]
          /\ sender' = [sender EXCEPT ![t].at = w] /\ tokens' = tokens
      BY <1>6, Zenon DEF Take
    <3>. HIDE DEF w
    <3>. QED BY <3>1, <3>2, Zenon
  <2>2. tokens[x] = 0
    BY <1>4, <1>6
  <2>3. Queues(waiters', sender')
    BY <1>2, <2>1, Joins
  <2>4. \A y \in Bucket : y # x => waiters'[y] = waiters[y]
    BY <1>3, <2>1
  <2>. QED BY <1>2, <2>1, <2>2, <2>3, <2>4
<1>. QED BY <1>5, <1>6

(* The engine's bucket stays within its limit when its tokens only get fewer. *)
LEMMA FewerTokens ==
  ASSUME NEW lim \in [Bucket -> Nat], NEW old \in [Bucket -> Nat], NEW new \in [Bucket -> Nat],
         \A y \in Bucket : new[y] <= old[y], old["global"] <= lim["global"] * Ticks
  PROVE  new["global"] <= lim["global"] * Ticks
<1>. DEFINE m == lim["global"] * Ticks
<1>1. /\ lim["global"] \in Nat /\ old["global"] \in Nat /\ new["global"] \in Nat
      /\ new["global"] <= old["global"] /\ Ticks \in Nat
  BY ClientFacts, ThrottlerAssumption
<1>2. m \in Nat /\ old["global"] <= m
  BY <1>1
<1>. HIDE DEF m
<1>3. new["global"] <= m
  BY <1>1, <1>2
<1>. QED BY <1>3 DEF m

(* A step keeps the queues and the senders together, and buckets with a queue empty. *)
LEMMA ThrottleKeeps == ThrottleInv /\ [ThrottleNext]_throttleVars => ThrottleInv'
<1>. SUFFICES ASSUME ThrottleInv, [ThrottleNext]_throttleVars PROVE ThrottleInv'
  OBVIOUS
<1>0. /\ limit \in [Bucket -> Nat] /\ tokens \in [Bucket -> Nat]
      /\ tokens["global"] <= limit["global"] * Ticks
      /\ paused \subseteq Bucket /\ allocated \subseteq Client
      /\ ownLimit \in [Client -> Limit] /\ changes \in 0..MaxChanges
      /\ Queues(waiters, sender) /\ \A x \in Bucket : waiters[x] # <<>> => tokens[x] = 0
  BY DEF ThrottleInv, Buckets
<1>a. /\ Ticks \in Nat \ {0} /\ Limit \subseteq Nat /\ BlockSize \in Nat \ {0} /\ MaxChanges \in Nat
      /\ \A n \in Limit : n \in Nat
  BY ThrottlerAssumption
<1>b. waiters \in [Bucket -> Seq(Request)] /\ sender \in [Client -> Sender]
      /\ \A t \in Client : sender[t].ask <= sender[t].left /\ sender[t].ask \in 0..BlockSize
                          /\ sender[t].left \in 0..BlockSize
  <2>1. waiters \in [Bucket -> Seq(Request)] /\ sender \in [Client -> Sender] /\ Modest(sender)
    BY <1>0 DEF Queues
  <2>. QED BY <2>1 DEF Modest, Sender
<1>1. ASSUME NEW t \in Client, SendBlock(t) PROVE ThrottleInv'
  <2>. DEFINE r == [left |-> BlockSize, at |-> "ask_global", ask |-> BlockSize]
  <2>1. r \in Sender /\ r.ask <= r.left /\ r.at = "ask_global"
    BY <1>a DEF Sender, At
  <2>2. sender' = [sender EXCEPT ![t] = r] /\ sender[t].at = "idle"
        /\ UNCHANGED <<limit, tokens, waiters, paused, ownLimit, allocated, changes>>
    BY <1>1 DEF SendBlock
  <2>. HIDE DEF r
  <2>3. Queues(waiters, sender')
    BY <1>0, <2>1, <2>2, MovesOn
  <2>. QED BY <1>0, <2>2, <2>3 DEF ThrottleInv, Buckets
<1>2. ASSUME NEW x \in Bucket, NEW t \in Client, RequestUpload(x, t) PROVE ThrottleInv'
  <2>1. /\ x \in {"global", t} /\ sender[t].at \notin {"wait_global", "wait_own"}
        /\ UNCHANGED <<limit, paused, ownLimit, allocated, changes>>
    BY <1>2 DEF RequestUpload
  <2>2. CASE limit[x] = 0
    <3>. DEFINE r == Granted(sender[t], x, sender[t].ask)
    <3>1. r \in Sender /\ r.ask <= r.left /\ r.at \notin {"wait_global", "wait_own"}
      BY <1>b, GrantFacts
    <3>2. sender' = [sender EXCEPT ![t] = r] /\ UNCHANGED <<tokens, waiters>>
      BY <1>2, <2>2 DEF RequestUpload
    <3>. HIDE DEF r
    <3>3. Queues(waiters, sender')
      BY <1>0, <2>1, <3>1, <3>2, MovesOn
    <3>. QED BY <1>0, <2>1, <3>2, <3>3 DEF ThrottleInv, Buckets
  <2>3. CASE limit[x] # 0 /\ x \in paused
    <3>. DEFINE w == IF x = "global" THEN "resume_global" ELSE "resume_own"
                r == [sender[t] EXCEPT !.at = w]
    <3>1. w \in At /\ w \notin {"wait_global", "wait_own"}
      BY DEF At
    <3>2. sender' = [sender EXCEPT ![t].at = w] /\ UNCHANGED <<tokens, waiters>>
      BY <1>2, <2>3, Zenon DEF RequestUpload
    <3>. HIDE DEF w
    <3>3. r \in Sender /\ r.at = w /\ r.ask = sender[t].ask /\ r.left = sender[t].left
      <4>1. sender[t] \in Sender
        BY <1>b
      <4>. QED BY <3>1, <4>1 DEF Sender
    <3>4. sender' = [sender EXCEPT ![t] = r]
      BY <3>2, Zenon
    <3>. HIDE DEF r
    <3>5. Queues(waiters, sender')
      BY <1>0, <1>b, <2>1, <3>1, <3>3, <3>4, MovesOn
    <3>. QED BY <1>0, <2>1, <3>2, <3>5 DEF ThrottleInv, Buckets
  <2>4. CASE limit[x] # 0 /\ x \notin paused
    <3>1. Take(x, t)
      BY <1>2, <2>4 DEF RequestUpload
    <3>2. /\ tokens' \in [Bucket -> Nat] /\ \A y \in Bucket : tokens'[y] <= tokens[y]
          /\ Queues(waiters', sender') /\ \A y \in Bucket : waiters'[y] # <<>> => tokens'[y] = 0
      BY <2>1, <3>1, TakeKeeps
    <3>. QED BY <1>0, <2>1, <3>2, FewerTokens DEF ThrottleInv, Buckets
  <2>. QED BY <2>2, <2>3, <2>4
<1>3. ASSUME NEW x \in Bucket, NEW t \in Client, AfterResume(x, t) PROVE ThrottleInv'
  <2>1. /\ x \in {"global", t} /\ sender[t].at \notin {"wait_global", "wait_own"} /\ Take(x, t)
        /\ UNCHANGED <<limit, paused, ownLimit, allocated, changes>>
    BY <1>3 DEF AfterResume
  <2>2. /\ tokens' \in [Bucket -> Nat] /\ \A y \in Bucket : tokens'[y] <= tokens[y]
        /\ Queues(waiters', sender') /\ \A y \in Bucket : waiters'[y] # <<>> => tokens'[y] = 0
    BY <2>1, TakeKeeps
  <2>. QED BY <1>0, <2>1, <2>2, FewerTokens DEF ThrottleInv, Buckets
<1>4. ASSUME NEW x \in Bucket, Refill(x) PROVE ThrottleInv'
  <2>. DEFINE full == Lesser(tokens[x] + limit[x], limit[x] * Ticks)
              m == limit[x] * Ticks
              s == [queue |-> waiters[x], tokens |-> full, sender |-> sender, bucket |-> x]
  <2>1. m \in Nat /\ full \in Nat /\ full <= m
    <3>1. limit[x] \in Nat /\ tokens[x] \in Nat
      BY <1>0
    <3>2. m \in Nat
      BY <1>a, <3>1
    <3>. HIDE DEF m
    <3>3. full = Lesser(tokens[x] + limit[x], m)
      BY DEF m
    <3>. QED BY <3>1, <3>2, <3>3 DEF Lesser
  <2>2. /\ tokens' = [tokens EXCEPT ![x] = ServeWaiters(s).tokens]
        /\ waiters' = [waiters EXCEPT ![x] = ServeWaiters(s).queue]
        /\ sender' = ServeWaiters(s).sender
        /\ UNCHANGED <<limit, paused, ownLimit, allocated, changes>>
    BY <1>4 DEF Refill
  <2>3. s \in Served(x, m)
    <3>1. s.queue = waiters[x] /\ s.tokens = full /\ s.sender = sender /\ s.bucket = x
      OBVIOUS
    <3>2. [waiters EXCEPT ![x] = waiters[x]] = waiters /\ waiters[x] \in Seq(Request)
      BY <1>b
    <3>. HIDE DEF full, m
    <3>3. s \in [queue : Seq(Request), tokens : Nat, sender : [Client -> Sender], bucket : {x}]
      BY <1>b, <2>1, <3>2
    <3>. HIDE DEF s
    <3>4. Queues([waiters EXCEPT ![x] = s.queue], s.sender) /\ s.tokens <= m
      BY <1>0, <2>1, <3>1, <3>2
    <3>. QED BY <3>3, <3>4 DEF Served
  <2>. HIDE DEF s, full
  <2>4. ServeWaiters(s) \in Served(x, m) /\ Over(ServeWaiters(s))
    BY <1>b, <2>1, <2>3, AllServed
  <2>. DEFINE o == ServeWaiters(s)
  <2>. HIDE DEF o
  <2>5. /\ o.queue \in Seq(Request) /\ o.tokens \in Nat /\ o.tokens <= m
        /\ Queues([waiters EXCEPT ![x] = o.queue], o.sender) /\ (o.queue = <<>> \/ o.tokens = 0)
    BY <2>4 DEF o, Served, Over
  <2>6. Queues(waiters', sender')
    BY <2>2, <2>5 DEF o
  <2>7. /\ tokens' \in [Bucket -> Nat] /\ tokens'[x] = o.tokens /\ waiters'[x] = o.queue
        /\ \A y \in Bucket : y # x => tokens'[y] = tokens[y] /\ waiters'[y] = waiters[y]
    BY <1>0, <1>b, <2>2, <2>5 DEF o
  <2>8. tokens'["global"] <= limit'["global"] * Ticks
    BY <1>0, <2>2, <2>5, <2>7, ClientFacts
  <2>9. \A y \in Bucket : waiters'[y] # <<>> => tokens'[y] = 0
    BY <1>0, <2>5, <2>7
  <2>. QED BY <1>0, <2>2, <2>6, <2>7, <2>8, <2>9 DEF ThrottleInv, Buckets
<1>5. ASSUME NEW n \in Limit, SetGlobalLimit(n) PROVE ThrottleInv'
  <2>1. /\ limit' = [limit EXCEPT !["global"] = n]
        /\ tokens' = [tokens EXCEPT !["global"] = Lesser(tokens["global"], n * Ticks)]
        /\ changes' \in 0..MaxChanges /\ UNCHANGED <<waiters, paused, ownLimit, allocated, sender>>
    BY <1>0, <1>a, <1>5 DEF SetGlobalLimit, Change
  <2>. DEFINE m == n * Ticks
              w == Lesser(tokens["global"], m)
  <2>2. n \in Nat /\ m \in Nat /\ tokens["global"] \in Nat
    BY <1>0, <1>a, ClientFacts
  <2>3. limit' \in [Bucket -> Nat] /\ limit'["global"] = n
    BY <1>0, <2>1, <2>2, ClientFacts
  <2>4. tokens' = [tokens EXCEPT !["global"] = w]
    BY <2>1
  <2>. HIDE DEF m
  <2>5. w \in Nat /\ w <= m /\ w <= tokens["global"]
    BY <2>2 DEF Lesser
  <2>. HIDE DEF w
  <2>6. /\ tokens' \in [Bucket -> Nat] /\ tokens'["global"] = w
        /\ \A y \in Bucket : y # "global" => tokens'[y] = tokens[y]
    BY <1>0, <2>4, <2>5, ClientFacts
  <2>7. tokens'["global"] <= limit'["global"] * Ticks
    BY <2>3, <2>5, <2>6 DEF m
  <2>8. \A y \in Bucket : waiters[y] # <<>> => tokens'[y] = 0
    BY <1>0, <2>2, <2>5, <2>6
  <2>. QED BY <1>0, <2>1, <2>3, <2>6, <2>7, <2>8 DEF ThrottleInv, Buckets
<1>6. ASSUME NEW n \in Limit, NEW t \in Client, SetTorrentLimit(t, n) PROVE ThrottleInv'
  <2>. DEFINE w == Effective(n, Share(t, limit["global"], allocated))
  <2>1. /\ limit' = [limit EXCEPT ![t] = w] /\ ownLimit' = [ownLimit EXCEPT ![t] = n]
        /\ changes' \in 0..MaxChanges /\ UNCHANGED <<tokens, waiters, paused, allocated, sender>>
    BY <1>0, <1>a, <1>6 DEF SetTorrentLimit, Change
  <2>2. n \in Nat /\ limit["global"] \in Nat
    BY <1>0, <1>a, ClientFacts
  <2>3. w \in Nat
    BY <1>0, <2>2, EffectiveFacts
  <2>. HIDE DEF w
  <2>4. /\ limit' \in [Bucket -> Nat] /\ limit'["global"] = limit["global"]
        /\ ownLimit' \in [Client -> Limit]
    BY <1>0, <2>1, <2>3, ClientFacts
  <2>. QED BY <1>0, <2>1, <2>4 DEF ThrottleInv, Buckets
<1>7. ASSUME NEW x \in Bucket, PauseBucket(x) \/ ResumeBucket(x) PROVE ThrottleInv'
  <2>1. /\ changes' \in 0..MaxChanges /\ paused' \subseteq Bucket
        /\ UNCHANGED <<limit, tokens, waiters, ownLimit, allocated, sender>>
    BY <1>0, <1>a, <1>7 DEF PauseBucket, ResumeBucket, Change
  <2>. QED BY <1>0, <2>1 DEF ThrottleInv, Buckets
<1>8. ASSUME NEW t \in Client, DestroyThrottler(t) PROVE ThrottleInv'
  <2>1. /\ waiters' = [waiters EXCEPT ![t] = <<>>]
        /\ sender' = [u \in Client |-> IF \E i \in DOMAIN waiters[t] : waiters[t][i].who = u
                                        THEN Granted(sender[u], t, 0) ELSE sender[u]]
        /\ changes' \in 0..MaxChanges /\ allocated' \subseteq Client
        /\ UNCHANGED <<tokens, paused, ownLimit>>
    BY <1>0, <1>a, <1>8 DEF DestroyThrottler, Change
  <2>2. Queues(waiters', sender')
    <3>1. sender' = Answered(waiters, sender, t)
      BY <2>1 DEF Answered
    <3>2. Queues([waiters EXCEPT ![t] = <<>>], Answered(waiters, sender, t))
      BY <1>0, QueueGoes
    <3>. QED BY <2>1, <3>1, <3>2
  <2>3. limit' \in [Bucket -> Nat] /\ limit'["global"] = limit["global"]
    <3>1. limit' = [x \in Bucket |-> IF x = "global" THEN limit[x]
                     ELSE Effective(ownLimit[x], Share(x, limit["global"], allocated'))]
      BY <1>8 DEF DestroyThrottler
    <3>2. \A x \in Client : ownLimit[x] \in Nat /\ limit["global"] \in Nat
      BY <1>0, <1>a, ClientFacts
    <3>3. \A x \in Client : Effective(ownLimit[x], Share(x, limit["global"], allocated')) \in Nat
      BY <2>1, <3>2, EffectiveFacts
    <3>. QED BY <1>0, <3>1, <3>3, ClientFacts
  <2>4. \A x \in Bucket : waiters'[x] # <<>> => tokens[x] = 0
    BY <1>0, <1>b, <2>1, ClientFacts
  <2>. QED BY <1>0, <2>1, <2>2, <2>3, <2>4 DEF ThrottleInv, Buckets
<1>9. CASE UNCHANGED throttleVars
  BY <1>0, <1>9 DEF throttleVars, ThrottleInv, Buckets
<1>. QED BY <1>1, <1>2, <1>3, <1>4, <1>5, <1>6, <1>7, <1>8, <1>9 DEF ThrottleNext

(* Types of the buckets, the requests that wait at them, and the senders. *)
THEOREM ThrottleTypeCorrect == ThrottleInit /\ [][ThrottleNext]_throttleVars => []ThrottleTypeOK
<1>1. ThrottleInv => ThrottleTypeOK
  BY DEF ThrottleInv, Buckets, Queues, Request, Sender, ThrottleTypeOK
<1>. QED BY <1>1, ThrottleStart, ThrottleKeeps, PTL

(* No later request is served before one that waits, and a client waits once at
   most, where its sender says, whatever limits are set and throttlers destroyed. *)
THEOREM WaitersKeepTheirTurn == ThrottleSpec => []NoOvertaking
<1>1. ThrottleInv => NoOvertaking
  <2>. SUFFICES ASSUME ThrottleInv, NEW x \in Bucket, NEW t \in Client
       PROVE  Cardinality({i \in DOMAIN waiters[x] : waiters[x][i].who = t}) =
                (IF sender[t].at = "wait_global" /\ x = "global" THEN 1
                 ELSE IF sender[t].at = "wait_own" /\ x = t THEN 1 ELSE 0)
    BY DEF ThrottleInv, NoOvertaking
  <2>. DEFINE S == {i \in DOMAIN waiters[x] : waiters[x][i].who = t}
  <2>1. Line(waiters, sender, x) /\ Present(waiters, sender, t) /\ t # "global"
    BY ClientFacts DEF ThrottleInv, Queues
  <2>2. CASE \E i \in DOMAIN waiters[x] : waiters[x][i].who = t
    <3>1. PICK i \in DOMAIN waiters[x] : waiters[x][i].who = t
      BY <2>2
    <3>2. S = {i}
      BY <2>1, <3>1 DEF Line
    <3>3. Cardinality(S) = 1
      BY <3>2, FS_Singleton
    <3>4. sender[t].at = Waits(x) /\ (x = "global" \/ x = t)
      BY <2>1, <3>1 DEF Line
    <3>. HIDE DEF S
    <3>. QED BY <2>1, <3>3, <3>4 DEF Waits, S
  <2>3. CASE ~\E i \in DOMAIN waiters[x] : waiters[x][i].who = t
    <3>1. S = {}
      BY <2>3
    <3>2. Cardinality(S) = 0
      BY <3>1, FS_EmptySet
    <3>3. ~(sender[t].at = "wait_global" /\ x = "global") /\ ~(sender[t].at = "wait_own" /\ x = t)
      BY <2>1, <2>3 DEF Present
    <3>. HIDE DEF S
    <3>. QED BY <3>2, <3>3 DEF S
  <2>. QED BY <2>2, <2>3
<1>. QED BY <1>1, ThrottleStart, ThrottleKeeps, PTL DEF ThrottleSpec
-----------------------------------------------------------------------------
(* The functions from a part of A to B. *)
Maps(A, B) == UNION {[K -> B] : K \in SUBSET A}
Places == Maps(Key, 1..MaxRuns)
RunMaps == Maps(1..MaxRuns, Run)
UState == [choked : SUBSET UPeer, queue : Seq(Key), active : Places, runs : RunMaps]

(* What a choke has to reach: the run i of r is neither cancelled nor a second one. *)
Clear(r, i) == ~r[i].cancelled /\ ~r[i].second
(* With the peers P, the choked ones ch, the queue q, the places a and the runs r. *)
OpenQueue(P, ch, q) ==
  q \in Seq(Key) /\ Len(q) <= MaxWaiting /\ \A n \in DOMAIN q : q[n][1] \in P \ ch
RightPlaces(a, r) ==
  /\ a \in Places /\ r \in RunMaps
  /\ IsFiniteSet(DOMAIN a) /\ Cardinality(DOMAIN a) <= MaxUploads
  /\ \A k \in DOMAIN a : a[k] \in DOMAIN r /\ r[a[k]].key = k
OpenRuns(P, ch, a, r) ==
  \A i \in DOMAIN r : Clear(r, i) =>
    /\ r[i].key[1] \in P \ ch
    /\ r[i].key \in DOMAIN a /\ a[r[i].key] = i
    /\ \A j \in DOMAIN r : r[j].key = r[i].key => j = i
Sound(P, ch, q, a, r) ==
  ch \subseteq P /\ P \subseteq UPeer /\ OpenQueue(P, ch, q) /\ RightPlaces(a, r) /\ OpenRuns(P, ch, a, r)
UStates(P) == {s \in UState : Sound(P, s.choked, s.queue, s.active, s.runs)}

UploadInv ==
  /\ peers \in Seq(UPeer) /\ \A i, j \in DOMAIN peers : peers[i] = peers[j] => i = j
  /\ Sound(ToSet(peers), choked, uploadQueue, activeUploads, runs)
  /\ optimistic \subseteq UPeer /\ superSeeding \in BOOLEAN /\ sentPieces \subseteq UPiece
-----------------------------------------------------------------------------
(* A function with one more pair, and with some pairs less. *)
LEMMA MapFacts ==
  ASSUME NEW A, NEW B, NEW f \in Maps(A, B)
  PROVE  /\ f \in [DOMAIN f -> B] /\ DOMAIN f \subseteq A
         /\ \A x \in A, v \in B : With(f, x, v) \in Maps(A, B)
         /\ \A S : Without(f, S) \in Maps(A, B)
<1>1. PICK K \in SUBSET A : f \in [K -> B]
  BY DEF Maps
<1>2. f \in [DOMAIN f -> B] /\ DOMAIN f \in SUBSET A
  BY <1>1
<1>3. ASSUME NEW x \in A, NEW v \in B PROVE With(f, x, v) \in Maps(A, B)
  <2>1. DOMAIN f \union {x} \in SUBSET A
    BY <1>2
  <2>2. With(f, x, v) \in [DOMAIN f \union {x} -> B]
    BY <1>2 DEF With
  <2>. QED BY <2>1, <2>2, Zenon DEF Maps
<1>4. ASSUME NEW S PROVE Without(f, S) \in Maps(A, B)
  <2>1. DOMAIN f \ S \in SUBSET A
    BY <1>2
  <2>2. Without(f, S) \in [DOMAIN f \ S -> B]
    BY <1>2 DEF Without
  <2>. QED BY <2>1, <2>2, Zenon DEF Maps
<1>. QED BY <1>2, <1>3, <1>4

(* A request that is started takes a free place and a free number. *)
LEMMA RunStarts ==
  ASSUME NEW P, NEW ch, NEW q, NEW a, NEW r, Sound(P, ch, q, a, r), NEW k \in Key, k[1] \in P \ ch,
         k \notin DOMAIN a, Cardinality(DOMAIN a) < MaxUploads, NEW i \in 1..MaxRuns, i \notin DOMAIN r,
         NEW run \in Run, run.key = k, run.second = (\E j \in DOMAIN r : r[j].key = k)
  PROVE  Sound(P, ch, q, With(a, k, i), With(r, i, run))
<1>. DEFINE b == With(a, k, i)
            s == With(r, i, run)
<1>1. a \in Places /\ r \in RunMaps /\ IsFiniteSet(DOMAIN a)
  BY DEF Sound, RightPlaces
<1>2. b \in Places /\ s \in RunMaps
  BY <1>1, MapFacts DEF Places, RunMaps
<1>3. /\ DOMAIN b = DOMAIN a \union {k} /\ b[k] = i /\ \A x \in DOMAIN a : b[x] = a[x]
      /\ DOMAIN s = DOMAIN r \union {i} /\ s[i] = run /\ \A x \in DOMAIN r : s[x] = r[x]
  BY DEF With
<1>4. IsFiniteSet(DOMAIN b) /\ Cardinality(DOMAIN b) <= MaxUploads
  <2>1. MaxUploads \in Nat /\ Cardinality(DOMAIN a) \in Nat
    BY <1>1, UploadAssumption, FS_CardinalityType
  <2>2. IsFiniteSet(DOMAIN b) /\ Cardinality(DOMAIN b) = Cardinality(DOMAIN a) + 1
    BY <1>1, <1>3, FS_AddElement
  <2>. QED BY <2>1, <2>2
<1>. HIDE DEF b, s
<1>5. ASSUME NEW x \in DOMAIN b PROVE b[x] \in DOMAIN s /\ s[b[x]].key = x
  <2>1. CASE x = k
    BY <1>3, <2>1
  <2>2. CASE x # k
    <3>1. x \in DOMAIN a /\ b[x] = a[x]
      BY <1>3, <2>2
    <3>2. a[x] \in DOMAIN r /\ r[a[x]].key = x
      BY <3>1 DEF Sound, RightPlaces
    <3>. QED BY <1>3, <3>1, <3>2
  <2>. QED BY <2>1, <2>2
<1>6. RightPlaces(b, s)
  BY <1>2, <1>4, <1>5 DEF RightPlaces
<1>7. ASSUME NEW n \in DOMAIN s, Clear(s, n)
      PROVE  /\ s[n].key[1] \in P \ ch /\ s[n].key \in DOMAIN b /\ b[s[n].key] = n
             /\ \A j \in DOMAIN s : s[j].key = s[n].key => j = n
  <2>1. CASE n = i
    <3>1. \A j \in DOMAIN r : r[j].key # k
      BY <1>3, <1>7, <2>1 DEF Clear
    <3>. QED BY <1>3, <2>1, <3>1
  <2>2. CASE n # i
    <3>1. n \in DOMAIN r /\ s[n] = r[n]
      BY <1>3, <2>2
    <3>2. Clear(r, n)
      BY <1>7, <3>1 DEF Clear
    <3>3. /\ r[n].key[1] \in P \ ch /\ r[n].key \in DOMAIN a /\ a[r[n].key] = n
          /\ \A j \in DOMAIN r : r[j].key = r[n].key => j = n
      BY <3>1, <3>2 DEF Sound, OpenRuns
    <3>. QED BY <1>3, <3>1, <3>3
  <2>. QED BY <2>1, <2>2
<1>. QED BY <1>6, <1>7 DEF Sound, OpenRuns, b, s

(* A run that ends frees its key, and leaves every clear run its own. *)
LEMMA RunEnds ==
  ASSUME NEW P, NEW ch, NEW q, NEW a, NEW r, Sound(P, ch, q, a, r), NEW i \in DOMAIN r
  PROVE  Sound(P, ch, q, Without(a, {r[i].key}), Without(r, {i}))
<1>. DEFINE b == Without(a, {r[i].key})
            s == Without(r, {i})
<1>1. a \in Places /\ r \in RunMaps /\ IsFiniteSet(DOMAIN a) /\ Cardinality(DOMAIN a) <= MaxUploads
  BY DEF Sound, RightPlaces
<1>2. b \in Places /\ s \in RunMaps
  BY <1>1, MapFacts DEF Places, RunMaps
<1>3. /\ DOMAIN b = DOMAIN a \ {r[i].key} /\ \A x \in DOMAIN b : b[x] = a[x]
      /\ DOMAIN s = DOMAIN r \ {i} /\ \A x \in DOMAIN s : s[x] = r[x]
  BY DEF Without
<1>. HIDE DEF b, s
<1>4. IsFiniteSet(DOMAIN b) /\ Cardinality(DOMAIN b) <= MaxUploads
  <2>1. /\ IsFiniteSet(DOMAIN b) /\ Cardinality(DOMAIN b) \in Nat /\ Cardinality(DOMAIN a) \in Nat
        /\ Cardinality(DOMAIN b) <= Cardinality(DOMAIN a)
    BY <1>1, <1>3, CountPart
  <2>. QED BY <1>1, <2>1, UploadAssumption
<1>5. ASSUME NEW x \in DOMAIN b PROVE b[x] \in DOMAIN s /\ s[b[x]].key = x
  <2>1. x \in DOMAIN a /\ b[x] = a[x] /\ x # r[i].key
    BY <1>3
  <2>2. a[x] \in DOMAIN r /\ r[a[x]].key = x
    BY <2>1 DEF Sound, RightPlaces
  <2>. QED BY <1>3, <2>1, <2>2
<1>6. RightPlaces(b, s)
  BY <1>2, <1>4, <1>5 DEF RightPlaces
<1>7. ASSUME NEW n \in DOMAIN s, Clear(s, n)
      PROVE  /\ s[n].key[1] \in P \ ch /\ s[n].key \in DOMAIN b /\ b[s[n].key] = n
             /\ \A j \in DOMAIN s : s[j].key = s[n].key => j = n
  <2>1. n \in DOMAIN r /\ n # i /\ s[n] = r[n]
    BY <1>3
  <2>2. Clear(r, n)
    BY <1>7, <2>1 DEF Clear
  <2>3. /\ r[n].key[1] \in P \ ch /\ r[n].key \in DOMAIN a /\ a[r[n].key] = n
        /\ \A j \in DOMAIN r : r[j].key = r[n].key => j = n
    BY <2>1, <2>2 DEF Sound, OpenRuns
  <2>4. r[n].key # r[i].key
    BY <2>1, <2>3
  <2>. QED BY <1>3, <2>1, <2>3, <2>4
<1>. QED BY <1>6, <1>7 DEF Sound, OpenRuns, b, s

(* Other peers, fewer requests and places, and cancelled runs, as long as every
   clear run keeps its peer and its place. *)
LEMMA Lessens ==
  ASSUME NEW P, NEW ch, NEW q, NEW a, NEW r, Sound(P, ch, q, a, r),
         NEW O, O \subseteq UPeer, NEW dh, dh \subseteq O,
         NEW p, OpenQueue(O, dh, p),
         NEW b \in Places, DOMAIN b \subseteq DOMAIN a, \A k \in DOMAIN b : b[k] = a[k],
         NEW s \in RunMaps, DOMAIN s = DOMAIN r, \A i \in DOMAIN r : s[i].key = r[i].key,
         \A i \in DOMAIN r : Clear(s, i) =>
           Clear(r, i) /\ r[i].key[1] \in O \ dh /\ r[i].key \in DOMAIN b
  PROVE  Sound(O, dh, p, b, s)
<1>1. IsFiniteSet(DOMAIN a) /\ Cardinality(DOMAIN a) <= MaxUploads /\ MaxUploads \in Nat
  BY UploadAssumption DEF Sound, RightPlaces
<1>2. IsFiniteSet(DOMAIN b) /\ Cardinality(DOMAIN b) <= MaxUploads
  <2>1. /\ IsFiniteSet(DOMAIN b) /\ Cardinality(DOMAIN b) \in Nat /\ Cardinality(DOMAIN a) \in Nat
        /\ Cardinality(DOMAIN b) <= Cardinality(DOMAIN a)
    BY <1>1, CountPart
  <2>. QED BY <1>1, <2>1
<1>3. ASSUME NEW k \in DOMAIN b PROVE b[k] \in DOMAIN s /\ s[b[k]].key = k
  <2>1. a[k] \in DOMAIN r /\ r[a[k]].key = k
    BY DEF Sound, RightPlaces
  <2>. QED BY <2>1
<1>4. RightPlaces(b, s)
  BY <1>2, <1>3 DEF RightPlaces
<1>5. ASSUME NEW i \in DOMAIN s, Clear(s, i)
      PROVE  /\ s[i].key[1] \in O \ dh /\ s[i].key \in DOMAIN b /\ b[s[i].key] = i
             /\ \A j \in DOMAIN s : s[j].key = s[i].key => j = i
  <2>1. /\ r[i].key \in DOMAIN a /\ a[r[i].key] = i
        /\ \A j \in DOMAIN r : r[j].key = r[i].key => j = i
    BY <1>5 DEF Sound, OpenRuns
  <2>2. r[i].key[1] \in O \ dh /\ r[i].key \in DOMAIN b /\ s[i].key = r[i].key
    BY <1>5
  <2>. QED BY <2>1, <2>2
<1>. QED BY <1>4, <1>5 DEF Sound, OpenRuns

(* The parts of a state of the manager, and the whole of its parts. *)
LEMMA UStateFacts ==
  ASSUME NEW P, NEW s \in UStates(P)
  PROVE  /\ s \in UState /\ Sound(P, s.choked, s.queue, s.active, s.runs)
         /\ s.choked \subseteq P /\ s.queue \in Seq(Key) /\ s.active \in Places /\ s.runs \in RunMaps
         /\ DOMAIN s.active \subseteq Key /\ DOMAIN s.runs \subseteq 1..MaxRuns
         /\ \A i \in DOMAIN s.runs : s.runs[i] \in Run
<1>1. s \in UState /\ Sound(P, s.choked, s.queue, s.active, s.runs)
  BY DEF UStates
<1>2. s.choked \subseteq P /\ s.queue \in Seq(Key) /\ s.active \in Places /\ s.runs \in RunMaps
  BY <1>1 DEF Sound, OpenQueue, RightPlaces
<1>3. DOMAIN s.active \subseteq Key
  BY <1>2, MapFacts DEF Places
<1>4. DOMAIN s.runs \subseteq 1..MaxRuns /\ s.runs \in [DOMAIN s.runs -> Run]
  BY <1>2, MapFacts DEF RunMaps
<1>. QED BY <1>1, <1>2, <1>3, <1>4

(* _startUpload keeps what holds of a state. *)
LEMMA StartKeeps ==
  ASSUME NEW P, NEW s \in UStates(P), NEW k \in Key, k[1] \in P \ s.choked,
         Cardinality(DOMAIN s.active) < MaxUploads, FreeRuns(s) # {}
  PROVE  StartUpload(s, k) \in UStates(P)
<1>1. CASE k \in DOMAIN s.active
  BY <1>1 DEF StartUpload
<1>2. CASE k \notin DOMAIN s.active
  <2>. DEFINE i == CHOOSE n \in FreeRuns(s) : \A m \in FreeRuns(s) : n <= m
              new == \E j \in DOMAIN s.runs : s.runs[j].key = k
              run == [key |-> k, phase |-> "read", cancelled |-> FALSE, second |-> new]
              b == With(s.active, k, i)
              w == With(s.runs, i, run)
              t == [s EXCEPT !.active = b, !.runs = w]
  <2>1. StartUpload(s, k) = t
    BY <1>2 DEF StartUpload
  <2>2. i \in 1..MaxRuns /\ i \notin DOMAIN s.runs
    <3>1. FreeRuns(s) \in SUBSET Nat
      BY DEF FreeRuns
    <3>2. \E n \in FreeRuns(s) : \A m \in FreeRuns(s) : n <= m
      BY <3>1, LeastNumber
    <3>3. i \in FreeRuns(s)
      BY <3>2
    <3>. QED BY <3>3 DEF FreeRuns
  <2>. HIDE DEF i
  <2>3. run \in Run /\ run.key = k /\ run.second = new
    <3>1. new \in BOOLEAN
      OBVIOUS
    <3>. HIDE DEF new
    <3>. QED BY <3>1 DEF Run
  <2>. HIDE DEF run
  <2>4. Sound(P, s.choked, s.queue, b, w)
    BY <1>2, <2>2, <2>3, RunStarts, UStateFacts
  <2>5. b \in Places /\ w \in RunMaps
    BY <2>4 DEF Sound, RightPlaces
  <2>6. s \in UState
    BY UStateFacts
  <2>. HIDE DEF b, w
  <2>7. t \in UState /\ t.choked = s.choked /\ t.queue = s.queue /\ t.active = b /\ t.runs = w
    BY <2>5, <2>6 DEF UState
  <2>. HIDE DEF t
  <2>8. t \in UStates(P)
    BY <2>4, <2>7 DEF UStates
  <2>. QED BY <2>1, <2>8
<1>. QED BY <1>1, <1>2

(* A part of a queue, or one for other peers, in a state. *)
LEMMA OtherQueue ==
  ASSUME NEW P, NEW s \in UStates(P), NEW q, OpenQueue(P, s.choked, q)
  PROVE  [s EXCEPT !.queue = q] \in UStates(P)
<1>. DEFINE t == [s EXCEPT !.queue = q]
<1>1. s \in UState /\ Sound(P, s.choked, s.queue, s.active, s.runs) /\ q \in Seq(Key)
  BY UStateFacts DEF OpenQueue
<1>2. t \in UState /\ t.choked = s.choked /\ t.queue = q /\ t.active = s.active /\ t.runs = s.runs
  BY <1>1 DEF UState
<1>. HIDE DEF t
<1>3. Sound(P, s.choked, q, s.active, s.runs)
  BY <1>1 DEF Sound
<1>4. t \in UStates(P)
  BY <1>2, <1>3 DEF UStates
<1>. QED BY <1>4 DEF t

(* The first request of the queue, and the others. *)
LEMMA QueueHead ==
  ASSUME NEW P, NEW ch, NEW q, OpenQueue(P, ch, q), q # <<>>
  PROVE  Head(q) \in Key /\ OpenQueue(P, ch, Tail(q))
<1>1. /\ q \in Seq(Key) /\ Len(q) \in Nat /\ Len(q) <= MaxWaiting /\ MaxWaiting \in Nat
      /\ Len(q) # 0 /\ DOMAIN q = 1..Len(q)
  BY UploadAssumption, EmptySeq DEF OpenQueue
<1>2. Tail(q) \in Seq(Key) /\ Len(Tail(q)) = Len(q) - 1 /\ DOMAIN Tail(q) = 1..Len(q) - 1
      /\ \A n \in 1..Len(q) - 1 : n + 1 \in DOMAIN q /\ Tail(q)[n] = q[n + 1]
  BY <1>1
<1>3. Head(q) \in Key
  BY <1>1
<1>4. \A n \in DOMAIN Tail(q) : Tail(q)[n][1] \in P \ ch
  BY <1>2 DEF OpenQueue
<1>5. Len(Tail(q)) <= MaxWaiting
  BY <1>1, <1>2
<1>. QED BY <1>2, <1>3, <1>4, <1>5 DEF OpenQueue

(* One turn of _processQueue keeps what holds of a state. *)
LEMMA ShiftKeeps ==
  ASSUME NEW s \in UStates(ToSet(peers))
  PROVE  Shift(s) \in UStates(ToSet(peers))
<1>. DEFINE stop == s.queue = <<>> \/ Cardinality(DOMAIN s.active) >= MaxUploads \/ FreeRuns(s) = {}
            k == Head(s.queue)
            rest == [s EXCEPT !.queue = Tail(s.queue)]
<1>1. CASE stop
  BY <1>1 DEF Shift
<1>2. CASE ~stop
  <2>1. s \in UState /\ OpenQueue(ToSet(peers), s.choked, s.queue)
        /\ IsFiniteSet(DOMAIN s.active)
    BY UStateFacts DEF Sound, RightPlaces
  <2>2. k \in Key /\ OpenQueue(ToSet(peers), s.choked, Tail(s.queue))
    BY <1>2, <2>1, QueueHead
  <2>3. rest \in UStates(ToSet(peers))
    BY <2>2, OtherQueue
  <2>4. rest.choked = s.choked /\ rest.active = s.active /\ rest.runs = s.runs
    BY <2>1 DEF UState
  <2>5. Shift(s) = IF k[1] \in ToSet(peers) \ s.choked THEN StartUpload(rest, k) ELSE rest
    BY <1>2 DEF Shift
  <2>6. Cardinality(DOMAIN s.active) < MaxUploads
    BY <1>2, <2>1, FS_CardinalityType, UploadAssumption
  <2>7. FreeRuns(rest) # {}
    BY <1>2, <2>4 DEF FreeRuns
  <2>. HIDE DEF rest, k
  <2>8. CASE k[1] \in ToSet(peers) \ s.choked
    <3>1. StartUpload(rest, k) \in UStates(ToSet(peers))
      BY <2>2, <2>3, <2>4, <2>6, <2>7, <2>8, StartKeeps
    <3>. QED BY <2>5, <2>8, <3>1
  <2>9. CASE ~(k[1] \in ToSet(peers) \ s.choked)
    BY <2>3, <2>5, <2>9
  <2>. QED BY <2>8, <2>9
<1>. QED BY <1>1, <1>2

(* _processQueue keeps what holds of a state. *)
LEMMA ServeQueueKeeps ==
  ASSUME NEW s \in UStates(ToSet(peers))
  PROVE  ServeQueue(s) \in UStates(ToSet(peers))
<1>. DEFINE N == Len(s.queue)
            D == UStates(ToSet(peers))
            step == [n \in 1..N |-> [d \in D |-> Shift(d)]]
            served == CHOOSE f : f = [n \in 0..N |-> IF n = 0 THEN s ELSE Shift(f[n - 1])]
<1>1. N \in Nat /\ s \in D
  <2>1. s.queue \in Seq(Key)
    BY UStateFacts
  <2>. QED BY <2>1
<1>2. ServeQueue(s) = served[N]
  BY DEF ServeQueue
<1>3. \A d \in D : Shift(d) \in D
  BY ShiftKeeps
<1>. HIDE DEF N, D
<1>4. step \in Steps(N, D) /\ \A n \in 1..N, d \in D : step[n][d] = Shift(d)
  BY <1>3 DEF Steps
<1>. HIDE DEF step, served
<1>5. PICK f \in [0..N -> D] : f[0] = s /\ \A n \in 1..N : f[n] = step[n][f[n - 1]]
  <2>1. Repeats(N, D, s, step) # {}
    BY <1>1, <1>4, Iterates
  <2>. QED BY <2>1 DEF Repeats
<1>6. f = [n \in 0..N |-> IF n = 0 THEN s ELSE Shift(f[n - 1])]
  <2>1. ASSUME NEW n \in 1..N PROVE f[n] = Shift(f[n - 1])
    <3>1. n - 1 \in 0..N
      BY <1>1
    <3>2. f[n - 1] \in D
      BY <1>5, <3>1
    <3>3. f[n] = step[n][f[n - 1]]
      BY <1>5
    <3>. QED BY <1>4, <3>2, <3>3
  <2>. QED BY <1>1, <1>5, <2>1
<1>7. served = [n \in 0..N |-> IF n = 0 THEN s ELSE Shift(served[n - 1])]
  BY <1>6 DEF served
<1>. DEFINE U == {n \in 0..N : served[n] \in D}
<1>8. 0 \in U
  BY <1>1, <1>7
<1>9. \A i \in 0..N : i \in U /\ i < N => i + 1 \in U
  <2>. SUFFICES ASSUME NEW i \in 0..N, i \in U, i < N PROVE i + 1 \in U
    OBVIOUS
  <2>1. i + 1 \in 0..N /\ served[i + 1] = Shift(served[i])
    BY <1>1, <1>7
  <2>. QED BY <1>3, <2>1
<1>. HIDE DEF U
<1>10. 0..N \subseteq U
  BY <1>1, <1>8, <1>9, UpTo
<1>. QED BY <1>1, <1>2, <1>10 DEF U, D

Marks(r, C) == [i \in DOMAIN r |-> IF i \in C THEN [r[i] EXCEPT !.cancelled = TRUE] ELSE r[i]]
(* The runs r with those of C cancelled are runs of the same blocks. *)
LEMMA MarksFacts ==
  ASSUME NEW r \in RunMaps, NEW C
  PROVE  /\ Marks(r, C) \in RunMaps /\ DOMAIN Marks(r, C) = DOMAIN r
         /\ \A i \in DOMAIN r : Marks(r, C)[i].key = r[i].key
         /\ \A i \in DOMAIN r : Clear(Marks(r, C), i) => i \notin C /\ Clear(r, i)
<1>1. r \in [DOMAIN r -> Run] /\ DOMAIN r \in SUBSET (1..MaxRuns)
  BY MapFacts DEF RunMaps
<1>2. ASSUME NEW i \in DOMAIN r
      PROVE  /\ Marks(r, C)[i] \in Run /\ Marks(r, C)[i].key = r[i].key
             /\ Clear(Marks(r, C), i) => i \notin C /\ Clear(r, i)
  <2>1. CASE i \in C
    <3>. DEFINE w == [r[i] EXCEPT !.cancelled = TRUE]
    <3>1. Marks(r, C)[i] = w
      BY <2>1 DEF Marks
    <3>2. r[i] \in Run
      BY <1>1
    <3>3. w \in Run /\ w.key = r[i].key /\ w.cancelled = TRUE
      BY <3>2 DEF Run
    <3>. HIDE DEF w
    <3>. QED BY <3>1, <3>3 DEF Clear
  <2>2. CASE i \notin C
    <3>1. Marks(r, C)[i] = r[i] /\ r[i] \in Run
      BY <1>1, <2>2 DEF Marks
    <3>. QED BY <2>2, <3>1 DEF Clear
  <2>. QED BY <2>1, <2>2
<1>3. DOMAIN Marks(r, C) = DOMAIN r /\ Marks(r, C) = [i \in DOMAIN r |-> Marks(r, C)[i]]
  BY DEF Marks
<1>4. Marks(r, C) \in [DOMAIN r -> Run]
  BY <1>2, <1>3
<1>5. Marks(r, C) \in RunMaps
  BY <1>1, <1>4, Zenon DEF RunMaps, Maps
<1>. QED BY <1>2, <1>3, <1>5

(* What a filter leaves of the queue. *)
LEMMA QueueDropped ==
  ASSUME NEW P, NEW ch, NEW q, OpenQueue(P, ch, q), NEW S
  PROVE  /\ Dropping(q, S) \in Seq(Key) /\ Len(Dropping(q, S)) <= MaxWaiting
         /\ \A n \in DOMAIN Dropping(q, S) :
              Dropping(q, S)[n] \in Key \ S /\ Dropping(q, S)[n][1] \in P \ ch
<1>1. q \in Seq(Key) /\ Len(q) <= MaxWaiting /\ Len(q) \in Nat /\ MaxWaiting \in Nat /\ DOMAIN q = 1..Len(q)
  BY UploadAssumption DEF OpenQueue
<1>2. Dropping(q, S) \in Seq(Key) /\ KeptOf(q, S, Len(q), Dropping(q, S))
  BY <1>1, DroppingFacts
<1>3. Len(Dropping(q, S)) <= MaxWaiting
  <2>1. Len(Dropping(q, S)) \in Nat /\ Len(Dropping(q, S)) <= Len(q)
    BY <1>2 DEF KeptOf
  <2>. QED BY <1>1, <2>1
<1>4. ASSUME NEW n \in DOMAIN Dropping(q, S)
      PROVE  Dropping(q, S)[n] \in Key \ S /\ Dropping(q, S)[n][1] \in P \ ch
  <2>1. PICK j \in 1..Len(q) : Dropping(q, S)[n] = q[j] /\ q[j] \notin S
    BY <1>2 DEF KeptOf
  <2>2. j \in DOMAIN q /\ q[j] \in Key
    BY <1>1
  <2>3. q[j][1] \in P \ ch
    BY <2>2 DEF OpenQueue
  <2>. QED BY <2>1, <2>2, <2>3
<1>. QED BY <1>2, <1>3, <1>4

(* A request outside the ones of p is of another peer. *)
LEMMA OfPeersFacts ==
  ASSUME NEW k \in Key, NEW p
  PROVE  k \in OfPeers({p}) <=> k[1] = p
BY DEF Key, OfPeers

(* chokePeer keeps what holds of a state. *)
LEMMA ChokedKeeps ==
  ASSUME NEW P, NEW s \in UStates(P), NEW p \in P
  PROVE  Choked(s, p) \in UStates(P)
<1>1. CASE p \in s.choked
  BY <1>1 DEF Choked
<1>2. CASE p \notin s.choked
  <2>. DEFINE C == {i \in DOMAIN s.runs : /\ s.runs[i].key[1] = p /\ s.runs[i].key \in DOMAIN s.active
                                          /\ s.active[s.runs[i].key] = i}
              dh == s.choked \union {p}
              q == Dropping(s.queue, OfPeers({p}))
              w == Marks(s.runs, C)
              t == [s EXCEPT !.choked = dh, !.queue = q, !.runs = w]
  <2>1. Choked(s, p) = t
    <3>1. w = [i \in DOMAIN s.runs |->
                IF s.runs[i].key[1] = p /\ s.runs[i].key \in DOMAIN s.active
                   /\ s.active[s.runs[i].key] = i
                THEN [s.runs[i] EXCEPT !.cancelled = TRUE] ELSE s.runs[i]]
      BY DEF Marks
    <3>. QED BY <1>2, <3>1, Zenon DEF Choked
  <2>2. /\ s \in UState /\ Sound(P, s.choked, s.queue, s.active, s.runs) /\ s.runs \in RunMaps
        /\ s.active \in Places /\ OpenQueue(P, s.choked, s.queue) /\ P \subseteq UPeer /\ s.choked \subseteq P
        /\ OpenRuns(P, s.choked, s.active, s.runs)
    BY UStateFacts DEF Sound
  <2>3. OpenQueue(P, dh, q)
    <3>1. /\ q \in Seq(Key) /\ Len(q) <= MaxWaiting
          /\ \A n \in DOMAIN q : q[n] \in Key \ OfPeers({p}) /\ q[n][1] \in P \ s.choked
      BY <2>2, QueueDropped
    <3>. HIDE DEF q
    <3>2. \A n \in DOMAIN q : q[n][1] # p
      BY <3>1, OfPeersFacts
    <3>. QED BY <3>1, <3>2 DEF OpenQueue
  <2>. HIDE DEF q
  <2>4. /\ w \in RunMaps /\ DOMAIN w = DOMAIN s.runs
        /\ \A i \in DOMAIN s.runs : w[i].key = s.runs[i].key
        /\ \A i \in DOMAIN s.runs : Clear(w, i) => i \notin C /\ Clear(s.runs, i)
    BY <2>2, MarksFacts
  <2>. HIDE DEF w
  <2>5. ASSUME NEW i \in DOMAIN s.runs, Clear(w, i)
        PROVE  Clear(s.runs, i) /\ s.runs[i].key[1] \in P \ dh /\ s.runs[i].key \in DOMAIN s.active
    <3>1. Clear(s.runs, i) /\ i \notin C
      BY <2>4, <2>5
    <3>2. /\ s.runs[i].key[1] \in P \ s.choked /\ s.runs[i].key \in DOMAIN s.active
          /\ s.active[s.runs[i].key] = i
      BY <2>2, <3>1 DEF OpenRuns
    <3>. QED BY <3>1, <3>2
  <2>. HIDE DEF C
  <2>6. dh \subseteq P /\ dh \subseteq UPeer
    BY <2>2
  <2>. HIDE DEF dh
  <2>7. Sound(P, dh, q, s.active, w)
    BY <2>2, <2>3, <2>4, <2>5, <2>6, Lessens
  <2>8. t \in UState /\ t.choked = dh /\ t.queue = q /\ t.active = s.active /\ t.runs = w
    <3>1. q \in Seq(Key)
      BY <2>3 DEF OpenQueue
    <3>. QED BY <2>2, <2>4, <2>6, <3>1 DEF UState
  <2>. HIDE DEF t
  <2>9. t \in UStates(P)
    BY <2>7, <2>8 DEF UStates
  <2>. QED BY <2>1, <2>9
<1>. QED BY <1>1, <1>2

(* unchokePeer keeps what holds of a state. *)
LEMMA UnchokedKeeps ==
  ASSUME NEW s \in UStates(ToSet(peers)), NEW p \in ToSet(peers)
  PROVE  Unchoked(s, p) \in UStates(ToSet(peers))
<1>. DEFINE P == ToSet(peers)
            dh == s.choked \ {p}
            t == [s EXCEPT !.choked = dh]
<1>1. CASE p \notin s.choked
  BY <1>1 DEF Unchoked
<1>2. CASE p \in s.choked
  <2>1. Unchoked(s, p) = ServeQueue(t)
    BY <1>2 DEF Unchoked
  <2>2. /\ s \in UState /\ Sound(P, s.choked, s.queue, s.active, s.runs) /\ s.runs \in RunMaps
        /\ s.active \in Places /\ OpenQueue(P, s.choked, s.queue) /\ P \subseteq UPeer /\ s.choked \subseteq P
        /\ OpenRuns(P, s.choked, s.active, s.runs)
    BY UStateFacts DEF Sound
  <2>. HIDE DEF P
  <2>3. dh \subseteq P /\ dh \subseteq UPeer /\ dh \subseteq s.choked
    BY <2>2
  <2>. HIDE DEF dh
  <2>4. OpenQueue(P, dh, s.queue)
    BY <2>2, <2>3 DEF OpenQueue
  <2>5. OpenRuns(P, dh, s.active, s.runs)
    BY <2>2, <2>3 DEF OpenRuns
  <2>6. Sound(P, dh, s.queue, s.active, s.runs)
    BY <2>2, <2>3, <2>4, <2>5 DEF Sound
  <2>7. t \in UState /\ t.choked = dh /\ t.queue = s.queue /\ t.active = s.active /\ t.runs = s.runs
    BY <2>2, <2>3 DEF UState
  <2>. HIDE DEF t
  <2>8. t \in UStates(P)
    BY <2>6, <2>7 DEF UStates
  <2>. QED BY <2>1, <2>8, ServeQueueKeeps DEF P
<1>. QED BY <1>1, <1>2

(* runChokingAlgorithm keeps what holds of a state, one peer after the other. *)
LEMMA JudgedKeeps ==
  ASSUME NEW s \in UStates(ToSet(peers)), NEW good, peers \in Seq(UPeer)
  PROVE  Judged(s, good) \in UStates(ToSet(peers))
<1>. DEFINE N == Len(peers)
            D == UStates(ToSet(peers))
            J(d, n) == IF peers[n] \in good THEN Unchoked(d, peers[n]) ELSE Choked(d, peers[n])
            step == [n \in 1..N |-> [d \in D |-> J(d, n)]]
            judged == CHOOSE f : f = [n \in 0..N |-> IF n = 0 THEN s
                        ELSE IF peers[n] \in good THEN Unchoked(f[n - 1], peers[n])
                        ELSE Choked(f[n - 1], peers[n])]
<1>1. N \in Nat /\ s \in D
  OBVIOUS
<1>2. Judged(s, good) = judged[N]
  BY DEF Judged
<1>3. \A n \in 1..N, d \in D : J(d, n) \in D
  <2>. TAKE n \in 1..N, d \in D
  <2>1. peers[n] \in ToSet(peers)
    BY DEF ToSet
  <2>2. Unchoked(d, peers[n]) \in D /\ Choked(d, peers[n]) \in D
    BY <2>1, UnchokedKeeps, ChokedKeeps
  <2>. HIDE DEF D
  <2>. QED BY <2>2
<1>. HIDE DEF N, D
<1>4. step \in Steps(N, D) /\ \A n \in 1..N, d \in D : step[n][d] = J(d, n)
  <2>. HIDE DEF J
  <2>. QED BY <1>3 DEF Steps
<1>. HIDE DEF step, judged
<1>5. PICK f \in [0..N -> D] : f[0] = s /\ \A n \in 1..N : f[n] = step[n][f[n - 1]]
  <2>1. Repeats(N, D, s, step) # {}
    BY <1>1, <1>4, Iterates
  <2>. QED BY <2>1 DEF Repeats
<1>6. f = [n \in 0..N |-> IF n = 0 THEN s ELSE J(f[n - 1], n)]
  <2>1. \A n \in 1..N : n - 1 \in 0..N /\ f[n] = J(f[n - 1], n)
    <3>. HIDE DEF J
    <3>. QED BY <1>1, <1>4, <1>5
  <2>. HIDE DEF J
  <2>. QED BY <1>1, <1>5, <2>1
<1>7. judged = [n \in 0..N |-> IF n = 0 THEN s ELSE J(judged[n - 1], n)]
  BY <1>6 DEF judged
<1>. HIDE DEF J
<1>. DEFINE U == {n \in 0..N : judged[n] \in D}
<1>8. 0 \in U
  BY <1>1, <1>7
<1>9. \A i \in 0..N : i \in U /\ i < N => i + 1 \in U
  <2>. SUFFICES ASSUME NEW i \in 0..N, i \in U, i < N PROVE i + 1 \in U
    OBVIOUS
  <2>1. i + 1 \in 1..N /\ judged[i + 1] = J(judged[i], i + 1)
    BY <1>1, <1>7
  <2>. QED BY <1>3, <2>1
<1>. HIDE DEF U
<1>10. 0..N \subseteq U
  BY <1>1, <1>8, <1>9, UpTo
<1>. QED BY <1>1, <1>2, <1>10 DEF U, D

(* Who is cancelled by its key: every clear run of the key. *)
LEMMA CancelledFacts ==
  ASSUME NEW P, Sound(P, choked, uploadQueue, activeUploads, runs), NEW S
  PROVE  /\ Cancelled(runs, S) \in RunMaps /\ DOMAIN Cancelled(runs, S) = DOMAIN runs
         /\ \A i \in DOMAIN runs : Cancelled(runs, S)[i].key = runs[i].key
         /\ \A i \in DOMAIN runs : Clear(Cancelled(runs, S), i) =>
              /\ Clear(runs, i) /\ runs[i].key[1] \in P \ choked
              /\ runs[i].key \in DOMAIN activeUploads /\ runs[i].key \notin S
<1>. DEFINE C == {i \in DOMAIN runs : runs[i].key \in S /\ i \in {activeUploads[k] :
                     k \in S \intersect DOMAIN activeUploads}}
<1>1. Cancelled(runs, S) = Marks(runs, C)
  BY DEF Cancelled, Marks
<1>2. runs \in RunMaps
  BY DEF Sound, RightPlaces
<1>3. /\ Marks(runs, C) \in RunMaps /\ DOMAIN Marks(runs, C) = DOMAIN runs
      /\ \A i \in DOMAIN runs : Marks(runs, C)[i].key = runs[i].key
      /\ \A i \in DOMAIN runs : Clear(Marks(runs, C), i) => i \notin C /\ Clear(runs, i)
  BY <1>2, MarksFacts
<1>4. ASSUME NEW i \in DOMAIN runs, Clear(runs, i), i \notin C
      PROVE  /\ runs[i].key[1] \in P \ choked
             /\ runs[i].key \in DOMAIN activeUploads /\ runs[i].key \notin S
  <2>1. /\ runs[i].key[1] \in P \ choked /\ runs[i].key \in DOMAIN activeUploads
        /\ activeUploads[runs[i].key] = i
    BY <1>4 DEF Sound, OpenRuns
  <2>. QED BY <1>4, <2>1
<1>. HIDE DEF C
<1>. QED BY <1>1, <1>3, <1>4

(* Nobody is there yet. *)
LEMMA UploadStart == UploadInit => UploadInv
<1>. SUFFICES ASSUME UploadInit PROVE UploadInv
  OBVIOUS
<1>1. /\ peers = <<>> /\ choked = {} /\ uploadQueue = <<>> /\ activeUploads = [k \in {} |-> 0]
      /\ runs = [i \in {} |-> 0] /\ optimistic = {} /\ superSeeding = FALSE /\ sentPieces = {}
  BY DEF UploadInit
<1>2. ToSet(peers) = {} /\ peers \in Seq(UPeer) /\ DOMAIN peers = {} /\ uploadQueue \in Seq(Key)
      /\ DOMAIN uploadQueue = {} /\ Len(uploadQueue) = 0
  BY <1>1 DEF ToSet
<1>3. /\ DOMAIN activeUploads = {} /\ activeUploads \in [{} -> 1..MaxRuns]
      /\ DOMAIN runs = {} /\ runs \in [{} -> Run]
  BY <1>1
<1>4. activeUploads \in Places /\ runs \in RunMaps
  <2>1. {} \in SUBSET Key /\ {} \in SUBSET (1..MaxRuns)
    OBVIOUS
  <2>2. activeUploads \in Places
    BY <1>3, <2>1, Zenon DEF Places, Maps
  <2>3. runs \in RunMaps
    BY <1>3, <2>1, Zenon DEF RunMaps, Maps
  <2>. QED BY <2>2, <2>3
<1>5. IsFiniteSet(DOMAIN activeUploads) /\ Cardinality(DOMAIN activeUploads) <= MaxUploads
  BY <1>3, FS_EmptySet, UploadAssumption
<1>6. RightPlaces(activeUploads, runs)
  BY <1>3, <1>4, <1>5 DEF RightPlaces
<1>7. OpenQueue({}, choked, uploadQueue) /\ OpenRuns({}, choked, activeUploads, runs)
  BY <1>2, <1>3, UploadAssumption DEF OpenQueue, OpenRuns
<1>. QED BY <1>1, <1>2, <1>6, <1>7 DEF UploadInv, Sound

(* The end of a run, with what the queue does then. *)
LEMMA EndKeeps ==
  ASSUME Sound(ToSet(peers), choked, uploadQueue, activeUploads, runs), NEW i \in DOMAIN runs, UploadEnds(i)
  PROVE  Sound(ToSet(peers), choked', uploadQueue', activeUploads', runs')
<1>. DEFINE P == ToSet(peers)
            b == Without(activeUploads, {runs[i].key})
            w == Without(runs, {i})
            t == [Now EXCEPT !.active = b, !.runs = w]
            u == ServeQueue(t)
<1>1. choked' = u.choked /\ uploadQueue' = u.queue /\ activeUploads' = u.active /\ runs' = u.runs
  BY DEF UploadEnds, UPut, Now
<1>2. Sound(P, choked, uploadQueue, b, w)
  BY RunEnds
<1>3. b \in Places /\ w \in RunMaps /\ uploadQueue \in Seq(Key) /\ choked \subseteq UPeer
  BY <1>2 DEF Sound, RightPlaces, OpenQueue
<1>. HIDE DEF b, w
<1>4. t \in UState /\ t.choked = choked /\ t.queue = uploadQueue /\ t.active = b /\ t.runs = w
  BY <1>3 DEF UState, Now
<1>. HIDE DEF t
<1>5. t \in UStates(P)
  BY <1>2, <1>4 DEF UStates
<1>6. u \in UStates(P)
  BY <1>5, ServeQueueKeeps
<1>. HIDE DEF u
<1>7. Sound(P, u.choked, u.queue, u.active, u.runs)
  BY <1>6 DEF UStates
<1>. QED BY <1>1, <1>7

(* Every step of the manager keeps what holds of its state. *)
LEMMA UploadKeeps == UploadInv /\ [UploadNext]_uploadVars => UploadInv'
<1>. SUFFICES ASSUME UploadInv, [UploadNext]_uploadVars PROVE UploadInv'
  OBVIOUS
<1>. DEFINE P == ToSet(peers)
<1>0. /\ peers \in Seq(UPeer) /\ \A i, j \in DOMAIN peers : peers[i] = peers[j] => i = j
      /\ Sound(P, choked, uploadQueue, activeUploads, runs)
      /\ optimistic \subseteq UPeer /\ superSeeding \in BOOLEAN /\ sentPieces \subseteq UPiece
  BY DEF UploadInv
<1>a. /\ P \subseteq UPeer /\ choked \subseteq P /\ OpenQueue(P, choked, uploadQueue)
      /\ activeUploads \in Places /\ runs \in RunMaps /\ uploadQueue \in Seq(Key)
      /\ runs \in [DOMAIN runs -> Run] /\ DOMAIN runs \subseteq 1..MaxRuns
      /\ OpenRuns(P, choked, activeUploads, runs)
  <2>1. /\ P \subseteq UPeer /\ choked \subseteq P /\ OpenQueue(P, choked, uploadQueue)
        /\ activeUploads \in Places /\ runs \in RunMaps /\ uploadQueue \in Seq(Key)
        /\ OpenRuns(P, choked, activeUploads, runs)
    BY <1>0 DEF Sound, OpenQueue, RightPlaces
  <2>. QED BY <2>1, MapFacts DEF RunMaps
<1>b. Now \in UStates(P) /\ Now.choked = choked /\ Now.queue = uploadQueue
      /\ Now.active = activeUploads /\ Now.runs = runs
  <2>. HIDE DEF P
  <2>1. Now \in UState /\ Now.choked = choked /\ Now.queue = uploadQueue
        /\ Now.active = activeUploads /\ Now.runs = runs
    BY <1>a DEF UState, Now
  <2>. QED BY <1>0, <2>1 DEF UStates
<1>c. ASSUME NEW t \in UStates(P), UPut(t) PROVE Sound(P, choked', uploadQueue', activeUploads', runs')
  <2>1. choked' = t.choked /\ uploadQueue' = t.queue /\ activeUploads' = t.active /\ runs' = t.runs
    BY <1>c DEF UPut
  <2>. QED BY <2>1 DEF UStates
<1>1. ASSUME NEW p \in UPeer, NewPeer(p) PROVE UploadInv'
  <2>1. /\ p \notin P /\ peers' = Append(peers, p) /\ choked' = choked \union {p}
        /\ UNCHANGED <<uploadQueue, activeUploads, runs, optimistic, superSeeding, sentPieces>>
    BY <1>1 DEF NewPeer
  <2>2. /\ peers' \in Seq(UPeer) /\ Len(peers) \in Nat /\ DOMAIN peers = 1..Len(peers)
        /\ DOMAIN peers' = 1..Len(peers) + 1 /\ peers'[Len(peers) + 1] = p
        /\ \A i \in DOMAIN peers : peers'[i] = peers[i]
    BY <1>0, <2>1
  <2>3. ToSet(peers') = P \union {p}
    <3>1. ToSet(peers') = {peers'[i] : i \in 1..Len(peers) + 1} /\ P = {peers[i] : i \in 1..Len(peers)}
      BY <2>2 DEF ToSet
    <3>2. \A i \in 1..Len(peers) + 1 : i \in DOMAIN peers \/ i = Len(peers) + 1
      BY <2>2
    <3>3. \A i \in 1..Len(peers) : i \in 1..Len(peers) + 1
      BY <2>2
    <3>4. Len(peers) + 1 \in 1..Len(peers) + 1
      BY <2>2
    <3>. HIDE DEF P
    <3>. QED BY <2>2, <3>1, <3>2, <3>3, <3>4
  <2>4. ASSUME NEW i \in DOMAIN peers', NEW j \in DOMAIN peers', peers'[i] = peers'[j] PROVE i = j
    <3>1. \A n \in DOMAIN peers : peers[n] # p
      BY <2>1 DEF ToSet
    <3>2. \A n \in DOMAIN peers' : n \in DOMAIN peers \/ n = Len(peers) + 1
      BY <2>2
    <3>. QED BY <1>0, <2>2, <2>4, <3>1, <3>2
  <2>5. Sound(P \union {p}, choked \union {p}, uploadQueue, activeUploads, runs)
    <3>. HIDE DEF P
    <3>1. OpenQueue(P \union {p}, choked \union {p}, uploadQueue)
      BY <1>a, <2>1 DEF OpenQueue
    <3>2. OpenRuns(P \union {p}, choked \union {p}, activeUploads, runs)
      BY <1>a, <2>1 DEF OpenRuns
    <3>. QED BY <1>0, <1>a, <3>1, <3>2 DEF Sound
  <2>. HIDE DEF P
  <2>. QED BY <1>0, <2>1, <2>2, <2>3, <2>4, <2>5 DEF UploadInv
<1>2. ASSUME NEW p \in UPeer, RotateOptimisticUnchoke(p) PROVE UploadInv'
  BY <1>0, <1>2 DEF RotateOptimisticUnchoke, UploadInv
<1>3. ASSUME NEW p \in UPeer, RemovePeer(p) PROVE UploadInv'
  <2>. DEFINE q == Dropping(uploadQueue, OfPeers({p}))
              b == Without(activeUploads, OfPeers({p}))
              w == Cancelled(runs, OfPeers({p}))
  <2>1. /\ peers' = Dropping(peers, {p}) /\ choked' = choked \ {p} /\ uploadQueue' = q
        /\ activeUploads' = b /\ runs' = w
        /\ optimistic' = optimistic \ {p} /\ UNCHANGED <<superSeeding, sentPieces>>
    BY <1>3 DEF RemovePeer, UPut
  <2>2. /\ peers' \in Seq(UPeer) /\ ToSet(peers') = P \ {p}
        /\ \A i, j \in DOMAIN peers' : peers'[i] = peers'[j] => i = j
    <3>1. Dropping(peers, {p}) \in Seq(UPeer) /\ KeptOf(peers, {p}, Len(peers), Dropping(peers, {p}))
      BY <1>0, DroppingFacts
    <3>2. ToSet(Dropping(peers, {p})) = P \ {p}
      BY <1>0, DroppingSet
    <3>. QED BY <1>0, <2>1, <3>1, <3>2 DEF KeptOf
  <2>. HIDE DEF P
  <2>3. OpenQueue(P \ {p}, choked \ {p}, q)
    <3>1. /\ q \in Seq(Key) /\ Len(q) <= MaxWaiting
          /\ \A n \in DOMAIN q : q[n] \in Key \ OfPeers({p}) /\ q[n][1] \in P \ choked
      BY <1>a, QueueDropped
    <3>. HIDE DEF q
    <3>2. \A n \in DOMAIN q : q[n][1] # p
      BY <3>1, OfPeersFacts
    <3>. QED BY <3>1, <3>2 DEF OpenQueue
  <2>4. b \in Places /\ DOMAIN b = DOMAIN activeUploads \ OfPeers({p})
        /\ \A k \in DOMAIN b : b[k] = activeUploads[k]
    <3>1. b \in Places
      BY <1>a, MapFacts DEF Places
    <3>. QED BY <3>1 DEF Without
  <2>5. /\ w \in RunMaps /\ DOMAIN w = DOMAIN runs /\ \A i \in DOMAIN runs : w[i].key = runs[i].key
        /\ \A i \in DOMAIN runs : Clear(w, i) =>
              /\ Clear(runs, i) /\ runs[i].key[1] \in P \ choked
              /\ runs[i].key \in DOMAIN activeUploads /\ runs[i].key \notin OfPeers({p})
    BY <1>0, CancelledFacts
  <2>. HIDE DEF q, b, w
  <2>6. ASSUME NEW i \in DOMAIN runs, Clear(w, i)
        PROVE  Clear(runs, i) /\ runs[i].key[1] \in (P \ {p}) \ (choked \ {p}) /\ runs[i].key \in DOMAIN b
    <3>1. runs[i].key \in Key
      <4>1. runs[i] \in Run
        BY <1>a
      <4>. QED BY <4>1 DEF Run
    <3>2. /\ Clear(runs, i) /\ runs[i].key[1] \in P \ choked
          /\ runs[i].key \in DOMAIN activeUploads /\ runs[i].key \notin OfPeers({p})
      BY <2>5, <2>6
    <3>3. runs[i].key[1] # p
      BY <3>1, <3>2, OfPeersFacts
    <3>. QED BY <2>4, <3>2, <3>3
  <2>7. P \ {p} \subseteq UPeer /\ choked \ {p} \subseteq P \ {p}
    BY <1>a
  <2>8. Sound(P \ {p}, choked \ {p}, q, b, w)
    <3>. DEFINE O == P \ {p}
                dh == choked \ {p}
    <3>1. O \subseteq UPeer /\ dh \subseteq O /\ OpenQueue(O, dh, q)
      BY <2>3, <2>7
    <3>2. \A i \in DOMAIN runs : Clear(w, i) => Clear(runs, i) /\ runs[i].key[1] \in O \ dh /\ runs[i].key \in DOMAIN b
      BY <2>6
    <3>. HIDE DEF O, dh
    <3>3. b \in Places /\ DOMAIN b \subseteq DOMAIN activeUploads /\ \A k \in DOMAIN b : b[k] = activeUploads[k]
      BY <2>4
    <3>4. w \in RunMaps /\ DOMAIN w = DOMAIN runs /\ \A i \in DOMAIN runs : w[i].key = runs[i].key
      BY <2>5
    <3>5. Sound(O, dh, q, b, w)
      BY <1>0, <3>1, <3>2, <3>3, <3>4, Lessens
    <3>. QED BY <3>5 DEF O, dh
  <2>. QED BY <1>0, <2>1, <2>2, <2>8 DEF UploadInv
<1>4. ASSUME NEW p \in UPeer, NEW x \in UPiece, HandleRequest(p, x) PROVE UploadInv'
  <2>. DEFINE k == <<p, x>>
  <2>1. /\ p \in P \ choked /\ UNCHANGED <<peers, optimistic, superSeeding, sentPieces>>
        /\ k \in Key /\ k[1] = p
    BY <1>4 DEF HandleRequest, Key
  <2>2. CASE Cardinality(DOMAIN activeUploads) < MaxUploads
    <3>1. FreeRuns(Now) # {} /\ UPut(StartUpload(Now, k))
      BY <1>4, <2>2 DEF HandleRequest
    <3>. HIDE DEF P, k
    <3>2. StartUpload(Now, k) \in UStates(P)
      BY <1>b, <2>1, <2>2, <3>1, StartKeeps
    <3>3. Sound(P, choked', uploadQueue', activeUploads', runs')
      BY <1>c, <3>1, <3>2
    <3>. QED BY <1>0, <2>1, <3>3 DEF UploadInv, P
  <2>3. CASE ~(Cardinality(DOMAIN activeUploads) < MaxUploads)
    <3>. DEFINE q == Append(uploadQueue, k)
                t == [Now EXCEPT !.queue = q]
    <3>1. Len(uploadQueue) < MaxWaiting /\ UPut([Now EXCEPT !.queue = Append(Now.queue, k)])
      BY <1>4, <2>3 DEF HandleRequest
    <3>2. UPut(t)
      BY <1>b, <3>1
    <3>. HIDE DEF P, k
    <3>3. OpenQueue(P, choked, q)
      <4>1. /\ q \in Seq(Key) /\ Len(uploadQueue) \in Nat /\ MaxWaiting \in Nat
            /\ Len(q) = Len(uploadQueue) + 1 /\ DOMAIN q = 1..Len(uploadQueue) + 1
            /\ DOMAIN uploadQueue = 1..Len(uploadQueue)
            /\ q[Len(uploadQueue) + 1] = k /\ \A n \in DOMAIN uploadQueue : q[n] = uploadQueue[n]
        BY <1>a, <2>1, UploadAssumption
      <4>. HIDE DEF q
      <4>2. \A n \in DOMAIN q : n \in DOMAIN uploadQueue \/ n = Len(uploadQueue) + 1
        BY <4>1
      <4>3. \A n \in DOMAIN q : q[n][1] \in P \ choked
        BY <1>a, <2>1, <4>1, <4>2 DEF OpenQueue
      <4>4. Len(q) <= MaxWaiting
        BY <3>1, <4>1
      <4>. QED BY <4>1, <4>3, <4>4 DEF OpenQueue
    <3>. HIDE DEF q
    <3>4. t \in UStates(P)
      BY <1>b, <3>3, OtherQueue
    <3>. HIDE DEF t
    <3>5. Sound(P, choked', uploadQueue', activeUploads', runs')
      BY <1>c, <3>2, <3>4
    <3>. QED BY <1>0, <2>1, <3>5 DEF UploadInv, P
  <2>. QED BY <2>2, <2>3
<1>5. ASSUME NEW k \in Key, CancelRequest(k) PROVE UploadInv'
  <2>. DEFINE q == Dropping(uploadQueue, {k})
              w == Cancelled(runs, {k})
              t == [Now EXCEPT !.queue = q, !.runs = w]
  <2>1. UPut(t) /\ UNCHANGED <<peers, optimistic, superSeeding, sentPieces>>
    BY <1>5, <1>b, Zenon DEF CancelRequest
  <2>. HIDE DEF P
  <2>2. OpenQueue(P, choked, q)
    <3>1. q \in Seq(Key) /\ Len(q) <= MaxWaiting /\ \A n \in DOMAIN q : q[n][1] \in P \ choked
      BY <1>a, QueueDropped
    <3>. QED BY <3>1 DEF OpenQueue
  <2>3. /\ w \in RunMaps /\ DOMAIN w = DOMAIN runs /\ \A i \in DOMAIN runs : w[i].key = runs[i].key
        /\ \A i \in DOMAIN runs : Clear(w, i) =>
              /\ Clear(runs, i) /\ runs[i].key[1] \in P \ choked /\ runs[i].key \in DOMAIN activeUploads
    BY <1>0, CancelledFacts
  <2>. HIDE DEF q, w
  <2>4. Sound(P, choked, q, activeUploads, w)
    BY <1>0, <1>a, <2>2, <2>3, Lessens
  <2>5. t \in UState /\ t.choked = choked /\ t.queue = q /\ t.active = activeUploads /\ t.runs = w
    <3>1. q \in Seq(Key) /\ Now \in UState
      BY <1>b, <2>2 DEF OpenQueue, UStates
    <3>. QED BY <1>b, <2>3, <3>1 DEF UState
  <2>. HIDE DEF t
  <2>6. t \in UStates(P)
    BY <2>4, <2>5 DEF UStates
  <2>7. Sound(P, choked', uploadQueue', activeUploads', runs')
    BY <1>c, <2>1, <2>6
  <2>. QED BY <1>0, <2>1, <2>7 DEF UploadInv, P
<1>6. ASSUME NEW i \in 1..MaxRuns, SendEnds(i) PROVE UploadInv'
  <2>1. /\ i \in DOMAIN runs /\ UploadEnds(i) /\ UNCHANGED <<peers, optimistic, superSeeding>>
        /\ sentPieces' = IF superSeeding THEN sentPieces \union {runs[i].key[2]} ELSE sentPieces
    BY <1>6 DEF SendEnds
  <2>2. Sound(ToSet(peers), choked', uploadQueue', activeUploads', runs')
    BY <1>0, <2>1, EndKeeps
  <2>3. sentPieces' \subseteq UPiece
    <3>1. runs[i] \in Run
      BY <1>a, <2>1
    <3>2. runs[i].key[2] \in UPiece
      BY <3>1 DEF Run, Key
    <3>. QED BY <1>0, <2>1, <3>2
  <2>. QED BY <1>0, <2>1, <2>2, <2>3 DEF UploadInv
<1>7. ASSUME NEW i \in 1..MaxRuns, NEW ok \in BOOLEAN, ReadEnds(i, ok) PROVE UploadInv'
  <2>1. i \in DOMAIN runs /\ UNCHANGED <<peers, optimistic, superSeeding, sentPieces>>
    BY <1>7 DEF ReadEnds
  <2>2. CASE ok /\ ~runs[i].cancelled
    <3>. DEFINE w == [runs EXCEPT ![i].phase = "send"]
                t == [Now EXCEPT !.runs = w]
    <3>1. UPut([Now EXCEPT !.runs[i].phase = "send"])
      BY <1>7, <2>2 DEF ReadEnds
    <3>2. UPut(t)
      BY <1>b, <3>1
    <3>. HIDE DEF P
    <3>3. /\ w \in RunMaps /\ DOMAIN w = DOMAIN runs /\ \A j \in DOMAIN runs : w[j].key = runs[j].key
          /\ \A j \in DOMAIN runs : Clear(w, j) => Clear(runs, j)
      <4>. DEFINE e == [runs[i] EXCEPT !.phase = "send"]
      <4>1. runs[i] \in Run
        BY <1>a, <2>1
      <4>2. /\ e \in Run /\ e.key = runs[i].key /\ e.cancelled = runs[i].cancelled
            /\ e.second = runs[i].second
        BY <4>1 DEF Run
      <4>3. w = [runs EXCEPT ![i] = e]
        BY Zenon
      <4>. HIDE DEF e, w
      <4>4. /\ w \in [DOMAIN runs -> Run] /\ DOMAIN w = DOMAIN runs /\ w[i] = e
            /\ \A j \in DOMAIN runs : j # i => w[j] = runs[j]
        BY <1>a, <2>1, <4>2, <4>3
      <4>5. w \in RunMaps
        BY <1>a, <4>4, Zenon DEF RunMaps, Maps
      <4>6. \A j \in DOMAIN runs : w[j].key = runs[j].key /\ (Clear(w, j) => Clear(runs, j))
        BY <4>2, <4>4 DEF Clear
      <4>. QED BY <4>4, <4>5, <4>6
    <3>. HIDE DEF w
    <3>4. Sound(P, choked, uploadQueue, activeUploads, w)
      <4>1. \A j \in DOMAIN runs : Clear(w, j) =>
              Clear(runs, j) /\ runs[j].key[1] \in P \ choked /\ runs[j].key \in DOMAIN activeUploads
        BY <1>a, <3>3 DEF OpenRuns
      <4>. QED BY <1>0, <1>a, <3>3, <4>1, Lessens
    <3>5. t \in UState /\ t.choked = choked /\ t.queue = uploadQueue /\ t.active = activeUploads /\ t.runs = w
      <4>1. Now \in UState
        BY <1>b DEF UStates
      <4>. QED BY <1>b, <3>3, <4>1 DEF UState
    <3>. HIDE DEF t
    <3>6. t \in UStates(P)
      BY <3>4, <3>5 DEF UStates
    <3>7. Sound(P, choked', uploadQueue', activeUploads', runs')
      BY <1>c, <3>2, <3>6
    <3>. QED BY <1>0, <2>1, <3>7 DEF UploadInv, P
  <2>3. CASE ~(ok /\ ~runs[i].cancelled)
    <3>1. UploadEnds(i)
      BY <1>7, <2>3 DEF ReadEnds
    <3>2. Sound(ToSet(peers), choked', uploadQueue', activeUploads', runs')
      BY <1>0, <2>1, <3>1, EndKeeps
    <3>. QED BY <1>0, <2>1, <3>2 DEF UploadInv
  <2>. QED BY <2>2, <2>3
<1>8. ASSUME NEW top \in SUBSET UPeer, NEW lucky \in UPeer, RunChokingAlgorithm(top, lucky) PROVE UploadInv'
  <2>1. /\ UPut(Judged(Now, top \union {lucky})) /\ optimistic' = {lucky}
        /\ UNCHANGED <<peers, superSeeding, sentPieces>>
    BY <1>8 DEF RunChokingAlgorithm
  <2>2. Judged(Now, top \union {lucky}) \in UStates(P)
    BY <1>0, <1>b, JudgedKeeps
  <2>. HIDE DEF P
  <2>3. Sound(P, choked', uploadQueue', activeUploads', runs')
    BY <1>c, <2>1, <2>2
  <2>. QED BY <1>0, <2>1, <2>3 DEF UploadInv, P
<1>9. ASSUME NEW on \in BOOLEAN, SetSuperSeeding(on) PROVE UploadInv'
  BY <1>0, <1>9 DEF SetSuperSeeding, UploadInv
<1>10. ASSUME NEW x \in UPiece, OnPieceDistributed(x) PROVE UploadInv'
  BY <1>0, <1>10 DEF OnPieceDistributed, UploadInv
<1>11. CASE UploadDestroy
  <2>. DEFINE b == Without(activeUploads, Key)
              w == Cancelled(runs, Key)
  <2>1. /\ peers' = <<>> /\ choked' = {} /\ uploadQueue' = <<>> /\ activeUploads' = b /\ runs' = w
        /\ sentPieces' = {} /\ UNCHANGED <<optimistic, superSeeding>>
    BY <1>11 DEF UploadDestroy, UPut
  <2>2. peers' \in Seq(UPeer) /\ DOMAIN peers' = {} /\ ToSet(peers') = {}
    BY <2>1 DEF ToSet
  <2>. HIDE DEF P
  <2>3. OpenQueue({}, {}, <<>>)
    BY UploadAssumption DEF OpenQueue
  <2>4. b \in Places /\ DOMAIN b = DOMAIN activeUploads \ Key /\ \A k \in DOMAIN b : b[k] = activeUploads[k]
    <3>1. b \in Places
      BY <1>a, MapFacts DEF Places
    <3>. QED BY <3>1 DEF Without
  <2>5. /\ w \in RunMaps /\ DOMAIN w = DOMAIN runs /\ \A i \in DOMAIN runs : w[i].key = runs[i].key
        /\ \A i \in DOMAIN runs : Clear(w, i) => runs[i].key \notin Key
    BY <1>0, CancelledFacts
  <2>. HIDE DEF b, w
  <2>6. ASSUME NEW i \in DOMAIN runs, Clear(w, i) PROVE FALSE
    <3>1. runs[i] \in Run
      BY <1>a
    <3>. QED BY <2>5, <2>6, <3>1 DEF Run
  <2>7. Sound({}, {}, <<>>, b, w)
    <3>. DEFINE O == {}
    <3>1. O \subseteq UPeer /\ OpenQueue(O, O, <<>>) /\ O \subseteq O
      BY <2>3
    <3>. HIDE DEF O
    <3>2. \A i \in DOMAIN runs : Clear(w, i) =>
            Clear(runs, i) /\ runs[i].key[1] \in O \ O /\ runs[i].key \in DOMAIN b
      BY <2>6
    <3>3. Sound(O, O, <<>>, b, w)
      BY <1>0, <2>4, <2>5, <3>1, <3>2, Lessens
    <3>. QED BY <3>3 DEF O
  <2>. QED BY <1>0, <2>1, <2>2, <2>7 DEF UploadInv
<1>12. CASE UNCHANGED uploadVars
  BY <1>0, <1>12 DEF uploadVars, UploadInv
<1>. QED BY <1>1, <1>2, <1>3, <1>4, <1>5, <1>6, <1>7, <1>8, <1>9, <1>10, <1>11, <1>12 DEF UploadNext

(* Types of the peers, the queue, the places and the runs, and their bounds. *)
THEOREM UploadTypeCorrect == UploadInit /\ [][UploadNext]_uploadVars => []UploadTypeOK
<1>1. ASSUME UploadInv PROVE UploadTypeOK
  <2>1. /\ peers \in Seq(UPeer) /\ IsInjective(peers) /\ choked \subseteq ToSet(peers)
        /\ optimistic \subseteq UPeer /\ superSeeding \in BOOLEAN /\ sentPieces \subseteq UPiece
    BY <1>1 DEF UploadInv, IsInjective, Sound
  <2>2. uploadQueue \in Seq(Key) /\ Len(uploadQueue) <= MaxWaiting
    BY <1>1 DEF UploadInv, Sound, OpenQueue
  <2>3. activeUploads \in Places /\ runs \in RunMaps /\ Cardinality(DOMAIN activeUploads) <= MaxUploads
        /\ \A k \in DOMAIN activeUploads : runs[activeUploads[k]].key = k
    BY <1>1 DEF UploadInv, Sound, RightPlaces
  <2>4. DOMAIN activeUploads \subseteq Key
    BY <2>3, MapFacts DEF Places
  <2>5. runs \in [DOMAIN runs -> Run] /\ DOMAIN runs \subseteq 1..MaxRuns
    BY <2>3, MapFacts DEF RunMaps
  <2>. QED BY <2>1, <2>2, <2>3, <2>4, <2>5 DEF UploadTypeOK
<1>. QED BY <1>1, UploadStart, UploadKeeps, PTL

(* Whatever of a choked or removed peer waits or runs has been dropped or cancelled,
   but for a second run of a key. *)
THEOREM ChokeIsHeard == UploadSpec => []ChokeReachesAll
<1>1. ASSUME UploadInv PROVE ChokeReachesAll
  BY <1>1 DEF UploadInv, Sound, OpenQueue, OpenRuns, Clear, ChokeReachesAll
<1>. QED BY <1>1, UploadStart, UploadKeeps, PTL DEF UploadSpec
-----------------------------------------------------------------------------
(* The requests pend, the active pieces act, the blocks rec that are there and the
   counted pieces fin: who is asked for is missing and belongs to an active piece,
   and no counted piece is active. *)
Links(act, pend, rec, fin) ==
  /\ \A i \in DOMAIN pend : /\ pend[i].block \in BlocksOf(pend[i].piece)
                            /\ <<pend[i].piece, pend[i].block>> \notin rec
                            /\ pend[i].piece \in ToSet(act)
  /\ \A p \in fin : p \notin ToSet(act)
Whole(rec, p) == \A b \in BlocksOf(p) : <<p, b>> \in rec
Having(C, p) == {w \in C : p \in BitfieldOf[w]}
Supply(C, avail) ==
  /\ IsFiniteSet(C) /\ avail \in [DPiece -> Nat]
  /\ \A p \in DPiece : Cardinality(Having(C, p)) <= avail[p]
Asking == [act : Seq(DPiece), pend : Seq(Ask), wire : SUBSET Ask, down : BOOLEAN]
Asks == {r \in Asking : Links(r.act, r.pend, received, finished)}

PeersOK ==
  /\ connected \in Seq(DPeer) /\ \A i, j \in DOMAIN connected : connected[i] = connected[j] => i = j
  /\ unchoked \subseteq ToSet(connected) /\ announced \in [DPeer -> SUBSET DPiece]
  /\ described \subseteq ToSet(connected) /\ Supply(described, availability)
AsksOK ==
  /\ activePieces \in Seq(DPiece) /\ pending \in Seq(Ask) /\ wire \subseteq Ask
  /\ Links(activePieces, pending, received, finished)
DataOK ==
  /\ received \subseteq Blocks /\ spoilt \subseteq DPiece
  /\ writing \subseteq finished \union revoked
  /\ finished \subseteq DPiece /\ onDisk \subseteq DPiece
  /\ initial \subseteq DPiece /\ revoked \subseteq DPiece
  /\ \A p \in writing : Whole(received, p)
  /\ down \in BOOLEAN
ModesOK ==
  /\ skipped \subseteq DPiece /\ running \in BOOLEAN /\ halted \in BOOLEAN /\ isDone \in BOOLEAN
  /\ reports \in 0..2 /\ trouble \in 0..MaxTrouble
DownloadInv == PeersOK /\ AsksOK /\ DataOK /\ ModesOK
-----------------------------------------------------------------------------
(* The blocks of a piece. *)
LEMMA BlockFacts ==
  ASSUME NEW p \in DPiece
  PROVE  /\ BlocksOf(p) \subseteq 1..BlocksPerPiece /\ BlocksOf(p) \in SUBSET Nat
         /\ \A b : <<p, b>> \in Blocks <=> b \in BlocksOf(p)
<1>1. BlocksPerPiece \in Nat /\ BlocksInLast \in Nat /\ BlocksInLast <= BlocksPerPiece
  BY DownloadAssumption
<1>2. BlocksOf(p) \subseteq 1..BlocksPerPiece
  BY <1>1 DEF BlocksOf
<1>3. ASSUME NEW b PROVE <<p, b>> \in Blocks <=> b \in BlocksOf(p)
  <2>. HIDE DEF BlocksOf
  <2>. QED BY DEF Blocks
<1>. QED BY <1>1, <1>2, <1>3

(* A block that is asked for first is a missing one. *)
LEMMA NextMissingFacts ==
  ASSUME NEW p \in DPiece, Missing(p) # {}
  PROVE  /\ NextMissing(p) \in BlocksOf(p) /\ NextMissing(p) \in 1..BlocksPerPiece
         /\ <<p, NextMissing(p)>> \notin received
<1>1. Missing(p) \in SUBSET Nat
  BY BlockFacts DEF Missing
<1>2. \E b \in Missing(p) : \A c \in Missing(p) : b <= c
  BY <1>1, LeastNumber
<1>3. NextMissing(p) \in Missing(p)
  BY <1>2 DEF NextMissing
<1>. QED BY <1>3, BlockFacts DEF Missing

(* selectNextPiece finds a piece when one is needed. *)
LEMMA RarestFacts ==
  ASSUME NEW act, Needed(act) # {}, availability \in [DPiece -> Nat]
  PROVE  Rarest(act) \in DPiece /\ Rarest(act) \notin finished
<1>. DEFINE N == Needed(act)
            A == {availability[p] : p \in N}
<1>1. \A p \in N : p \in DPiece /\ p \notin finished /\ p \in Nat
  BY DownloadAssumption DEF Needed, DPiece
<1>. HIDE DEF N
<1>2. A \in SUBSET Nat /\ A # {}
  BY <1>1 DEF N
<1>3. PICK a \in A : \A x \in A : a <= x
  BY <1>2, LeastNumber
<1>. DEFINE M == {p \in N : availability[p] = a}
<1>4. M \in SUBSET Nat /\ M # {}
  BY <1>1, <1>3
<1>5. PICK m \in M : \A p \in M : m <= p
  BY <1>4, LeastNumber
<1>6. \A q \in N : availability[m] < availability[q] \/ (availability[m] = availability[q] /\ m <= q)
  <2>. TAKE q \in N
  <2>1. availability[q] \in A /\ a <= availability[q] /\ availability[q] \in Nat /\ a \in Nat
    BY <1>1, <1>2, <1>3
  <2>2. availability[m] = a
    OBVIOUS
  <2>3. CASE availability[q] = a
    BY <1>5, <2>2, <2>3
  <2>4. CASE availability[q] # a
    BY <2>1, <2>2, <2>4
  <2>. QED BY <2>3, <2>4
<1>7. m \in N
  OBVIOUS
<1>8. Rarest(act) \in N
  BY <1>6, <1>7 DEF Rarest, N
<1>. QED BY <1>1, <1>8

(* The parts of a state of the two Maps. *)
LEMMA AsksFacts ==
  ASSUME NEW r \in Asks
  PROVE  /\ r \in Asking /\ r.act \in Seq(DPiece) /\ r.pend \in Seq(Ask) /\ r.wire \subseteq Ask
         /\ r.down \in BOOLEAN
         /\ Links(r.act, r.pend, received, finished)
BY DEF Asks, Asking

(* Asking for a piece that is not counted keeps the links. *)
LEMMA AskForKeeps ==
  ASSUME NEW r \in Asks, NEW w \in DPeer, NEW p \in DPiece, p \notin finished
  PROVE  AskFor(r, w, p) \in Asks
<1>. DEFINE act == IF p \in ToSet(r.act) THEN r.act ELSE Append(r.act, p)
<1>1. r \in Asking /\ r.act \in Seq(DPiece) /\ r.pend \in Seq(Ask) /\ r.wire \subseteq Ask
      /\ r.down \in BOOLEAN /\ Links(r.act, r.pend, received, finished)
  BY AsksFacts
<1>2. act \in Seq(DPiece) /\ p \in ToSet(act) /\ ToSet(r.act) \subseteq ToSet(act)
      /\ \A q \in ToSet(act) : q \in ToSet(r.act) \/ q = p
  <2>1. CASE p \in ToSet(r.act)
    BY <1>1, <2>1
  <2>2. CASE p \notin ToSet(r.act)
    <3>. DEFINE s == r.act
                t == Append(s, p)
    <3>1. /\ t \in Seq(DPiece) /\ Len(s) \in Nat /\ DOMAIN s = 1..Len(s) /\ DOMAIN t = 1..Len(s) + 1
          /\ t[Len(s) + 1] = p /\ \A i \in DOMAIN s : t[i] = s[i]
      BY <1>1
    <3>2. act = t
      BY <2>2
    <3>. HIDE DEF s, t
    <3>3. \A i \in DOMAIN t : i \in DOMAIN s \/ i = Len(s) + 1
      BY <3>1
    <3>4. Len(s) + 1 \in DOMAIN t /\ \A i \in DOMAIN s : i \in DOMAIN t
      BY <3>1
    <3>5. p \in ToSet(t) /\ ToSet(s) \subseteq ToSet(t) /\ \A q \in ToSet(t) : q \in ToSet(s) \/ q = p
      BY <3>1, <3>3, <3>4 DEF ToSet
    <3>. QED BY <3>1, <3>2, <3>5 DEF s
  <2>. QED BY <2>1, <2>2
<1>. HIDE DEF act
<1>3. Links(act, r.pend, received, finished)
  BY <1>1, <1>2 DEF Links
<1>4. CASE Missing(p) = {} \/ Pending(p, NextMissing(p), r.pend)
  <2>. DEFINE t == [r EXCEPT !.act = act]
  <2>1. AskFor(r, w, p) = t
    BY <1>4 DEF AskFor, act
  <2>2. t \in Asking /\ t.act = act /\ t.pend = r.pend /\ t.wire = r.wire
    BY <1>1, <1>2 DEF Asking
  <2>. HIDE DEF t
  <2>3. t \in Asks
    BY <1>3, <2>2 DEF Asks
  <2>. QED BY <2>1, <2>3
<1>5. CASE ~(Missing(p) = {} \/ Pending(p, NextMissing(p), r.pend))
  <2>. DEFINE ask == [who |-> w, piece |-> p, block |-> NextMissing(p)]
              q == Append(r.pend, ask)
              x == r.wire \union {ask}
              t == [act |-> act, pend |-> q, wire |-> x, down |-> r.down]
  <2>1. AskFor(r, w, p) = t
    BY <1>5 DEF AskFor, act
  <2>2. /\ NextMissing(p) \in BlocksOf(p) /\ NextMissing(p) \in 1..BlocksPerPiece
        /\ <<p, NextMissing(p)>> \notin received
    BY <1>5, NextMissingFacts
  <2>3. ask \in Ask /\ ask.piece = p /\ ask.block = NextMissing(p)
    BY <2>2 DEF Ask
  <2>. HIDE DEF ask
  <2>4. /\ q \in Seq(Ask) /\ Len(r.pend) \in Nat /\ DOMAIN r.pend = 1..Len(r.pend)
        /\ DOMAIN q = 1..Len(r.pend) + 1 /\ q[Len(r.pend) + 1] = ask
        /\ \A i \in DOMAIN r.pend : q[i] = r.pend[i]
    BY <1>1, <2>3
  <2>5. x \subseteq Ask
    BY <1>1, <2>3
  <2>. HIDE DEF q, x
  <2>6. \A i \in DOMAIN q : i \in DOMAIN r.pend \/ i = Len(r.pend) + 1
    BY <2>4
  <2>7. Links(act, q, received, finished)
    BY <1>2, <1>3, <2>2, <2>3, <2>4, <2>6 DEF Links
  <2>8. t \in Asking /\ t.act = act /\ t.pend = q /\ t.wire = x
    BY <1>1, <1>2, <2>4, <2>5 DEF Asking
  <2>. HIDE DEF t
  <2>9. t \in Asks
    BY <2>7, <2>8 DEF Asks
  <2>. QED BY <2>1, <2>9
<1>. QED BY <1>4, <1>5

(* _requestNextBlockForPeer keeps the links. *)
LEMMA AskNextKeeps ==
  ASSUME NEW r \in Asks, NEW w \in DPeer, availability \in [DPiece -> Nat]
  PROVE  AskNext(r, w) \in Asks
<1>. DEFINE useless == {p \in DPiece : p \notin BitfieldOf[w] \/ Missing(p) = {}}
            mine == Dropping(r.act, useless)
<1>1. r.act \in Seq(DPiece) /\ DOMAIN r.act = 1..Len(r.act) /\ Links(r.act, r.pend, received, finished)
  BY AsksFacts
<1>2. mine \in Seq(DPiece) /\ KeptOf(r.act, useless, Len(r.act), mine)
  <2>. HIDE DEF useless
  <2>. QED BY <1>1, DroppingFacts
<1>3. AskNext(r, w) = IF r.act # <<>> /\ w \notin described THEN [r EXCEPT !.down = TRUE]
                      ELSE IF mine # <<>> THEN AskFor(r, w, Head(mine))
                      ELSE IF Needed(r.act) # {} THEN AskFor(r, w, Rarest(r.act)) ELSE r
  BY DEF AskNext
<1>. HIDE DEF mine, useless
<1>0. CASE r.act # <<>> /\ w \notin described
  <2>. DEFINE t == [r EXCEPT !.down = TRUE]
  <2>1. t \in Asking /\ t.act = r.act /\ t.pend = r.pend
    BY AsksFacts DEF Asking
  <2>2. AskNext(r, w) = t
    BY <1>0, <1>3
  <2>. HIDE DEF t
  <2>. QED BY <1>1, <2>1, <2>2 DEF Asks
<1>4. CASE mine # <<>> /\ ~(r.act # <<>> /\ w \notin described)
  <2>1. Head(mine) = mine[1] /\ 1 \in DOMAIN mine /\ Head(mine) \in DPiece
    BY <1>2, <1>4
  <2>2. PICK j \in 1..Len(r.act) : mine[1] = r.act[j]
    BY <1>2, <2>1 DEF KeptOf
  <2>3. Head(mine) \in ToSet(r.act)
    BY <1>1, <2>1, <2>2 DEF ToSet
  <2>4. Head(mine) \notin finished
    BY <1>1, <2>3 DEF Links
  <2>. QED BY <1>3, <1>4, <2>1, <2>4, AskForKeeps
<1>5. CASE mine = <<>> /\ Needed(r.act) # {} /\ ~(r.act # <<>> /\ w \notin described)
  <2>1. Rarest(r.act) \in DPiece /\ Rarest(r.act) \notin finished
    BY <1>5, RarestFacts
  <2>. QED BY <1>3, <1>5, <2>1, AskForKeeps
<1>6. CASE mine = <<>> /\ Needed(r.act) = {} /\ ~(r.act # <<>> /\ w \notin described)
  BY <1>3, <1>6
<1>. QED BY <1>0, <1>4, <1>5, <1>6

(* A round of _requestBlocksForPeer keeps the links. *)
LEMMA AskOnceKeeps ==
  ASSUME NEW r \in Asks, NEW w \in DPeer, availability \in [DPiece -> Nat]
  PROVE  AskOnce(r, w) \in Asks
<1>. DEFINE v == IF MayAsk(r, w) THEN AskNext(r, w) ELSE r
<1>1. AskOnce(r, w) = Only({v})
  BY DEF AskOnce
<1>2. v \in Asks
  BY AskNextKeeps
<1>. HIDE DEF v
<1>3. Only({v}) = v
  BY DEF Only
<1>. QED BY <1>1, <1>2, <1>3

(* _requestBlocksForPeer keeps the links, for one peer and for all. *)
LEMMA AskPeerKeeps ==
  ASSUME NEW r \in Asks, NEW w \in DPeer, availability \in [DPiece -> Nat]
  PROVE  AskPeer(r, w) \in Asks
<1>. DEFINE step == [n \in 1..MaxActive |-> [d \in Asks |-> AskOnce(d, w)]]
            asked == CHOOSE f : f = [n \in 0..MaxActive |-> IF n = 0 THEN r ELSE AskOnce(f[n - 1], w)]
<1>1. MaxActive \in Nat
  BY DownloadAssumption
<1>2. AskPeer(r, w) = asked[MaxActive]
  BY DEF AskPeer
<1>3. \A d \in Asks : AskOnce(d, w) \in Asks
  BY AskOnceKeeps
<1>4. step \in Steps(MaxActive, Asks) /\ \A n \in 1..MaxActive, d \in Asks : step[n][d] = AskOnce(d, w)
  BY <1>3 DEF Steps
<1>. HIDE DEF step, asked
<1>5. PICK f \in [0..MaxActive -> Asks] : f[0] = r /\ \A n \in 1..MaxActive : f[n] = step[n][f[n - 1]]
  <2>1. Repeats(MaxActive, Asks, r, step) # {}
    BY <1>1, <1>4, Iterates
  <2>. QED BY <2>1 DEF Repeats
<1>6. f = [n \in 0..MaxActive |-> IF n = 0 THEN r ELSE AskOnce(f[n - 1], w)]
  <2>1. \A n \in 1..MaxActive : n - 1 \in 0..MaxActive /\ f[n] = AskOnce(f[n - 1], w)
    BY <1>1, <1>4, <1>5
  <2>. QED BY <1>1, <1>5, <2>1
<1>7. asked = [n \in 0..MaxActive |-> IF n = 0 THEN r ELSE AskOnce(asked[n - 1], w)]
  BY <1>6 DEF asked
<1>. DEFINE U == {n \in 0..MaxActive : asked[n] \in Asks}
<1>8. 0 \in U
  BY <1>1, <1>7
<1>9. \A i \in 0..MaxActive : i \in U /\ i < MaxActive => i + 1 \in U
  <2>. SUFFICES ASSUME NEW i \in 0..MaxActive, i \in U, i < MaxActive PROVE i + 1 \in U
    OBVIOUS
  <2>1. i + 1 \in 0..MaxActive /\ asked[i + 1] = AskOnce(asked[i], w)
    BY <1>1, <1>7
  <2>. QED BY <1>3, <2>1
<1>. HIDE DEF U
<1>10. 0..MaxActive \subseteq U
  BY <1>1, <1>8, <1>9, UpTo
<1>. QED BY <1>1, <1>2, <1>10 DEF U

(* requestBlocks keeps the links. *)
LEMMA AskAllKeeps ==
  ASSUME NEW r \in Asks, connected \in Seq(DPeer), availability \in [DPiece -> Nat]
  PROVE  AskAll(r) \in Asks
<1>. DEFINE N == Len(connected)
            step == [n \in 1..N |-> [d \in Asks |-> AskPeer(d, connected[n])]]
            asked == CHOOSE f : f = [n \in 0..N |-> IF n = 0 THEN r ELSE AskPeer(f[n - 1], connected[n])]
<1>1. N \in Nat /\ \A n \in 1..N : connected[n] \in DPeer
  OBVIOUS
<1>2. AskAll(r) = asked[N]
  BY DEF AskAll
<1>. HIDE DEF N
<1>3. \A n \in 1..N, d \in Asks : AskPeer(d, connected[n]) \in Asks
  BY <1>1, AskPeerKeeps
<1>4. step \in Steps(N, Asks) /\ \A n \in 1..N, d \in Asks : step[n][d] = AskPeer(d, connected[n])
  BY <1>3 DEF Steps
<1>. HIDE DEF step, asked
<1>5. PICK f \in [0..N -> Asks] : f[0] = r /\ \A n \in 1..N : f[n] = step[n][f[n - 1]]
  <2>1. Repeats(N, Asks, r, step) # {}
    BY <1>1, <1>4, Iterates
  <2>. QED BY <2>1 DEF Repeats
<1>6. f = [n \in 0..N |-> IF n = 0 THEN r ELSE AskPeer(f[n - 1], connected[n])]
  <2>1. \A n \in 1..N : n - 1 \in 0..N /\ f[n] = AskPeer(f[n - 1], connected[n])
    BY <1>1, <1>4, <1>5
  <2>. QED BY <1>1, <1>5, <2>1
<1>7. asked = [n \in 0..N |-> IF n = 0 THEN r ELSE AskPeer(asked[n - 1], connected[n])]
  BY <1>6 DEF asked
<1>. DEFINE U == {n \in 0..N : asked[n] \in Asks}
<1>8. 0 \in U
  BY <1>1, <1>7
<1>9. \A i \in 0..N : i \in U /\ i < N => i + 1 \in U
  <2>. SUFFICES ASSUME NEW i \in 0..N, i \in U, i < N PROVE i + 1 \in U
    OBVIOUS
  <2>1. i + 1 \in 1..N /\ asked[i + 1] = AskPeer(asked[i], connected[i + 1])
    BY <1>1, <1>7
  <2>. QED BY <1>3, <2>1
<1>. HIDE DEF U
<1>10. 0..N \subseteq U
  BY <1>1, <1>8, <1>9, UpTo
<1>. QED BY <1>1, <1>2, <1>10 DEF U

(* A peer says what it has, goes, or announces a piece. *)
LEMMA SupplyFacts ==
  ASSUME NEW C, NEW avail, Supply(C, avail), NEW w \in DPeer
  PROVE  /\ w \notin C => Supply(C \union {w},
              [p \in DPiece |-> avail[p] + IF p \in BitfieldOf[w] THEN 1 ELSE 0])
         /\ w \in C => Supply(C \ {w},
              [p \in DPiece |-> avail[p] - IF p \in BitfieldOf[w] THEN 1 ELSE 0])
         /\ \A p \in DPiece : Supply(C, [avail EXCEPT ![p] = @ + 1])
<1>1. /\ IsFiniteSet(C) /\ avail \in [DPiece -> Nat]
      /\ \A p \in DPiece : Cardinality(Having(C, p)) <= avail[p] /\ avail[p] \in Nat
  BY DEF Supply
<1>2. ASSUME NEW p \in DPiece
      PROVE  IsFiniteSet(Having(C, p)) /\ Cardinality(Having(C, p)) \in Nat
  <2>1. Having(C, p) \subseteq C
    BY DEF Having
  <2>. QED BY <1>1, <2>1, CountPart
<1>3. ASSUME w \notin C
      PROVE  Supply(C \union {w}, [p \in DPiece |-> avail[p] + IF p \in BitfieldOf[w] THEN 1 ELSE 0])
  <2>. DEFINE new == [p \in DPiece |-> avail[p] + IF p \in BitfieldOf[w] THEN 1 ELSE 0]
              D == C \union {w}
  <2>1. IsFiniteSet(D)
    BY <1>1, FS_AddElement
  <2>2. new \in [DPiece -> Nat]
    BY <1>1
  <2>3. ASSUME NEW p \in DPiece PROVE Cardinality(Having(D, p)) <= new[p]
    <3>1. CASE p \in BitfieldOf[w]
      <4>1. Having(D, p) \subseteq Having(C, p) \union {w}
        BY DEF Having
      <4>2. new[p] = avail[p] + 1
        BY <3>1
      <4>. HIDE DEF new, D
      <4>3. /\ Cardinality(Having(D, p)) \in Nat
            /\ Cardinality(Having(D, p)) <= Cardinality(Having(C, p)) + 1
        BY <1>2, <4>1, CountMore
      <4>. QED BY <1>1, <1>2, <4>2, <4>3
    <3>2. CASE p \notin BitfieldOf[w]
      <4>1. Having(D, p) = Having(C, p)
        BY <3>2 DEF Having
      <4>2. new[p] = avail[p]
        BY <1>1, <3>2
      <4>. QED BY <1>1, <4>1, <4>2
    <3>. QED BY <3>1, <3>2
  <2>. QED BY <2>1, <2>2, <2>3 DEF Supply
<1>4. ASSUME w \in C
      PROVE  Supply(C \ {w}, [p \in DPiece |-> avail[p] - IF p \in BitfieldOf[w] THEN 1 ELSE 0])
  <2>. DEFINE new == [p \in DPiece |-> avail[p] - IF p \in BitfieldOf[w] THEN 1 ELSE 0]
              D == C \ {w}
  <2>1. IsFiniteSet(D)
    BY <1>1, CountPart
  <2>2. ASSUME NEW p \in DPiece PROVE new[p] \in Nat /\ Cardinality(Having(D, p)) <= new[p]
    <3>1. CASE p \in BitfieldOf[w]
      <4>1. Having(D, p) \subseteq Having(C, p) \ {w} /\ w \in Having(C, p)
        BY <1>4, <3>1 DEF Having
      <4>2. new[p] = avail[p] - 1
        BY <3>1
      <4>3. IsFiniteSet(Having(D, p)) /\ Cardinality(Having(D, p)) \in Nat
        <5>1. Having(D, p) \subseteq D
          BY DEF Having
        <5>. HIDE DEF D
        <5>. QED BY <2>1, <5>1, CountPart
      <4>. HIDE DEF new, D
      <4>4. Cardinality(Having(D, p)) + 1 <= Cardinality(Having(C, p))
        BY <1>2, <4>1, CountLess
      <4>. QED BY <1>1, <1>2, <4>2, <4>3, <4>4
    <3>2. CASE p \notin BitfieldOf[w]
      <4>1. Having(D, p) = Having(C, p)
        BY <3>2 DEF Having
      <4>2. new[p] = avail[p]
        BY <1>1, <3>2
      <4>. QED BY <1>1, <4>1, <4>2
    <3>. QED BY <3>1, <3>2
  <2>3. new \in [DPiece -> Nat]
    BY <2>2
  <2>. QED BY <2>1, <2>2, <2>3 DEF Supply
<1>5. ASSUME NEW p \in DPiece PROVE Supply(C, [avail EXCEPT ![p] = @ + 1])
  <2>. DEFINE new == [avail EXCEPT ![p] = @ + 1]
  <2>1. new \in [DPiece -> Nat] /\ \A q \in DPiece : new[q] \in Nat /\ avail[q] <= new[q]
    BY <1>1
  <2>. HIDE DEF new
  <2>2. \A q \in DPiece : Cardinality(Having(C, q)) <= new[q]
    BY <1>1, <1>2, <2>1
  <2>3. Supply(C, new)
    BY <1>1, <2>1, <2>2 DEF Supply
  <2>. QED BY <2>3 DEF new
<1>. QED BY <1>3, <1>4, <1>5

(* What is asked for outside S is still missing and of an active piece. *)
StillAsked(S, act, rec, dact, drec) ==
  \A e \in Ask : (/\ e \notin S /\ e.block \in BlocksOf(e.piece)
                  /\ <<e.piece, e.block>> \notin rec /\ e.piece \in ToSet(act))
                 => (<<e.piece, e.block>> \notin drec /\ e.piece \in ToSet(dact))
NoneActive(fin, act) == \A p \in fin : p \notin ToSet(act)

(* Requests are dropped, pieces taken off the active ones and blocks changed, as long
   as what is left still asks for missing blocks of active pieces. *)
LEMMA LinksLess ==
  ASSUME NEW act, NEW pend \in Seq(Ask), NEW rec, NEW fin, Links(act, pend, rec, fin),
         NEW S, NEW dact, NEW drec, NEW dfin,
         StillAsked(S, act, rec, dact, drec), NoneActive(dfin, dact)
  PROVE  Dropping(pend, S) \in Seq(Ask) /\ Links(dact, Dropping(pend, S), drec, dfin)
<1>. DEFINE q == Dropping(pend, S)
<1>1. q \in Seq(Ask) /\ KeptOf(pend, S, Len(pend), q) /\ DOMAIN pend = 1..Len(pend)
  BY DroppingFacts
<1>. HIDE DEF q
<1>2. ASSUME NEW i \in DOMAIN q
      PROVE  /\ q[i].block \in BlocksOf(q[i].piece) /\ <<q[i].piece, q[i].block>> \notin drec
             /\ q[i].piece \in ToSet(dact)
  <2>1. PICK j \in 1..Len(pend) : q[i] = pend[j] /\ pend[j] \notin S
    BY <1>1 DEF KeptOf
  <2>2. pend[j] \in Ask
    BY <1>1
  <2>3. /\ pend[j].block \in BlocksOf(pend[j].piece) /\ <<pend[j].piece, pend[j].block>> \notin rec
        /\ pend[j].piece \in ToSet(act)
    BY <1>1, <2>1 DEF Links
  <2>. QED BY <2>1, <2>2, <2>3 DEF StillAsked
<1>3. Links(dact, q, drec, dfin)
  BY <1>2 DEF Links, NoneActive
<1>. QED BY <1>1, <1>3 DEF q

(* cancelPeerRequests drops requests, and no block: what is asked for is missing. *)
LEMMA CancelKeeps ==
  ASSUME NEW w, AsksOK, CancelPeerRequests(w)
  PROVE  /\ received' = received /\ pending' \in Seq(Ask)
         /\ Links(activePieces, pending', received, finished)
<1>1. pending' = Dropping(pending, AsksOf(w))
      /\ received' = received \ {<<pending[i].piece, pending[i].block>> :
                                   i \in {j \in DOMAIN pending : pending[j].who = w}}
  BY DEF CancelPeerRequests
<1>2. /\ pending \in Seq(Ask) /\ Links(activePieces, pending, received, finished)
      /\ \A i \in DOMAIN pending : <<pending[i].piece, pending[i].block>> \notin received
      /\ \A p \in finished : p \notin ToSet(activePieces)
  BY DEF AsksOK, Links
<1>3. received' = received
  BY <1>1, <1>2
<1>4. pending' \in Seq(Ask) /\ Links(activePieces, pending', received, finished)
  <2>. DEFINE S == AsksOf(w)
  <2>1. StillAsked(S, activePieces, received, activePieces, received) /\ NoneActive(finished, activePieces)
    BY <1>2 DEF StillAsked, NoneActive
  <2>. HIDE DEF S
  <2>2. Dropping(pending, S) \in Seq(Ask) /\ Links(activePieces, Dropping(pending, S), received, finished)
    BY <1>2, <2>1, LinksLess
  <2>. QED BY <1>1, <2>2 DEF S
<1>. QED BY <1>3, <1>4

(* Nothing is asked for yet. *)
LEMMA DownloadStart == DownloadInit => DownloadInv
<1>. SUFFICES ASSUME DownloadInit PROVE DownloadInv
  OBVIOUS
<1>1. PeersOK
  <2>1. connected = <<>> /\ unchoked = {} /\ described = {} /\ announced = [w \in DPeer |-> {}]
        /\ availability = [p \in DPiece |-> 0]
    BY DEF DownloadInit
  <2>2. connected \in Seq(DPeer) /\ DOMAIN connected = {} /\ ToSet(connected) = {}
    BY <2>1 DEF ToSet
  <2>3. Supply({}, availability)
    <3>1. \A p \in DPiece : Having({}, p) = {} /\ availability[p] = 0
      BY <2>1 DEF Having
    <3>2. Cardinality({}) = 0 /\ IsFiniteSet({})
      BY FS_EmptySet
    <3>3. availability \in [DPiece -> Nat]
      BY <2>1
    <3>4. \A p \in DPiece : Cardinality(Having({}, p)) <= availability[p]
      BY <3>1, <3>2
    <3>. QED BY <3>2, <3>3, <3>4 DEF Supply
  <2>4. announced \in [DPeer -> SUBSET DPiece]
    BY <2>1
  <2>. QED BY <2>1, <2>2, <2>3, <2>4 DEF PeersOK
<1>2. AsksOK
  <2>1. activePieces = <<>> /\ pending = <<>> /\ wire = {}
    BY DEF DownloadInit
  <2>2. activePieces \in Seq(DPiece) /\ pending \in Seq(Ask) /\ DOMAIN pending = {} /\ ToSet(activePieces) = {}
    BY <2>1 DEF ToSet
  <2>. QED BY <2>1, <2>2 DEF AsksOK, Links
<1>3. DataOK
  BY DEF DownloadInit, DataOK
<1>4. ModesOK
  <2>1. skipped = {} /\ running = FALSE /\ halted = FALSE /\ isDone = FALSE /\ reports = 0 /\ trouble = 0
    BY DEF DownloadInit
  <2>2. reports \in 0..2 /\ trouble \in 0..MaxTrouble
    BY <2>1, DownloadAssumption
  <2>3. skipped \subseteq DPiece /\ running \in BOOLEAN /\ halted \in BOOLEAN /\ isDone \in BOOLEAN
    BY <2>1, Zenon
  <2>. QED BY <2>2, <2>3, Zenon DEF ModesOK
<1>. QED BY <1>1, <1>2, <1>3, <1>4 DEF DownloadInv

(* A trouble is within the bound. *)
LEMMA TroubleFacts ==
  ASSUME trouble \in 0..MaxTrouble, NEW n \in Nat, Trouble(n)
  PROVE  trouble' \in 0..MaxTrouble
BY DownloadAssumption DEF Trouble

(* _markComplete and the reports that are counted up to two. *)
LEMMA ReportFacts ==
  ASSUME reports \in 0..2
  PROVE  Report(1) \in 0..2
BY DEF Report

(* An array without one of its elements. *)
LEMMA DropOne ==
  ASSUME NEW T, NEW s \in Seq(T), NEW x
  PROVE  /\ Dropping(s, {x}) \in Seq(T) /\ ToSet(Dropping(s, {x})) = ToSet(s) \ {x}
         /\ (\A i, j \in DOMAIN s : s[i] = s[j] => i = j)
              => \A i, j \in DOMAIN Dropping(s, {x}) : Dropping(s, {x})[i] = Dropping(s, {x})[j] => i = j
<1>1. Dropping(s, {x}) \in Seq(T) /\ KeptOf(s, {x}, Len(s), Dropping(s, {x}))
  BY DroppingFacts
<1>2. ToSet(Dropping(s, {x})) = ToSet(s) \ {x}
  BY DroppingSet
<1>. QED BY <1>1, <1>2 DEF KeptOf

(* An answer: dropped, one block more, a whole piece, or a bad one. *)
LEMMA AnswerKeeps ==
  ASSUME AsksOK, DataOK, NEW w \in DPeer, NEW p \in DPiece, NEW b \in 1..BlocksPerPiece,
         NEW good \in BOOLEAN, PieceMessage(w, p, b, good)
  PROVE  AsksOK' /\ DataOK'
<1>. DEFINE ask == [who |-> w, piece |-> p, block |-> b]
            rest == Dropping(pending, AsksFor(p, {b}))
            whole == Missing(p) \ {b} = {}
            bad == ~good \/ p \in spoilt
<1>0. /\ activePieces \in Seq(DPiece) /\ pending \in Seq(Ask) /\ wire \subseteq Ask
      /\ Links(activePieces, pending, received, finished)
      /\ wire' = wire \ {ask} /\ wire' \subseteq Ask
      /\ UNCHANGED otherVars
  BY DEF AsksOK, PieceMessage
<1>a. /\ received \subseteq Blocks /\ spoilt \subseteq DPiece
      /\ writing \subseteq finished \union revoked
      /\ finished \subseteq DPiece /\ onDisk \subseteq DPiece
      /\ initial \subseteq DPiece /\ revoked \subseteq DPiece
      /\ \A q \in writing : Whole(received, q)
      /\ initial' = initial /\ revoked' = revoked /\ down' = down /\ down \in BOOLEAN
  BY <1>0 DEF DataOK, otherVars
<1>b. NoneActive(finished, activePieces)
  BY <1>0 DEF Links, NoneActive
<1>1. CASE ~Pending(p, b, pending)
  <2>1. UNCHANGED <<activePieces, pending, dataVars>>
    BY <1>1 DEF PieceMessage
  <2>2. UNCHANGED <<received, spoilt, finished, writing, onDisk>>
    BY <2>1 DEF dataVars
  <2>3. AsksOK'
    BY <1>0, <2>1, <2>2 DEF AsksOK
  <2>. QED BY <1>a, <2>2, <2>3 DEF DataOK
<1>2. CASE Pending(p, b, pending)
  <2>1. b \in BlocksOf(p) /\ <<p, b>> \notin received /\ <<p, b>> \in Blocks
    <3>1. PICK i \in DOMAIN pending : pending[i].piece = p /\ pending[i].block = b
      BY <1>2 DEF Pending
    <3>2. b \in BlocksOf(p) /\ <<p, b>> \notin received
      BY <1>0, <3>1 DEF Links
    <3>. QED BY <3>2, BlockFacts
  <2>2. p \notin writing
    BY <1>a, <2>1 DEF Whole
  <2>3. \A e \in Ask : e \in AsksFor(p, {b}) <=> e.piece = p /\ e.block = b
    BY DEF AsksFor
  <2>4. CASE ~whole
    <3>1. /\ pending' = rest /\ received' = received \union {<<p, b>>}
          /\ spoilt' = spoilt \union (IF bad THEN {p} ELSE {})
          /\ UNCHANGED <<activePieces, finished, writing, onDisk>>
      BY <1>2, <2>4 DEF PieceMessage
    <3>2. StillAsked(AsksFor(p, {b}), activePieces, received, activePieces, received')
      BY <2>3, <3>1 DEF StillAsked
    <3>3. rest \in Seq(Ask) /\ Links(activePieces, rest, received', finished)
      <4>. DEFINE S == AsksFor(p, {b})
                  drec == received'
      <4>1. StillAsked(S, activePieces, received, activePieces, drec)
        BY <3>2
      <4>. HIDE DEF S, drec
      <4>2. Dropping(pending, S) \in Seq(Ask) /\ Links(activePieces, Dropping(pending, S), drec, finished)
        BY <1>0, <1>b, <4>1, LinksLess
      <4>. QED BY <4>2 DEF S, drec
    <3>. HIDE DEF rest
    <3>4. AsksOK'
      BY <1>0, <3>1, <3>3 DEF AsksOK
    <3>5. \A q \in writing : Whole(received', q)
      BY <1>a, <3>1 DEF Whole
    <3>6. received' \subseteq Blocks /\ spoilt' \subseteq DPiece
      BY <1>a, <2>1, <3>1
    <3>. QED BY <1>a, <3>1, <3>4, <3>5, <3>6 DEF DataOK
  <2>5. CASE whole /\ ~bad
    <3>. DEFINE dact == Dropping(activePieces, {p})
                dfin == finished \union {p}
                drec == received \union {<<p, b>>}
                S == AsksFor(p, {b})
    <3>1. /\ pending' = rest /\ received' = drec /\ finished' = dfin
          /\ activePieces' = dact /\ writing' = writing \union {p}
          /\ UNCHANGED <<spoilt, onDisk>>
      BY <1>2, <2>5 DEF PieceMessage
    <3>2. dact \in Seq(DPiece) /\ ToSet(dact) = ToSet(activePieces) \ {p}
      BY <1>0, DropOne
    <3>. HIDE DEF dact
    <3>3. NoneActive(dfin, dact)
      BY <1>b, <3>2 DEF NoneActive
    <3>4. StillAsked(S, activePieces, received, dact, drec)
      <4>. SUFFICES ASSUME NEW e \in Ask, e \notin S, e.block \in BlocksOf(e.piece),
                           <<e.piece, e.block>> \notin received, e.piece \in ToSet(activePieces)
                    PROVE  <<e.piece, e.block>> \notin drec /\ e.piece \in ToSet(dact)
        BY DEF StillAsked
      <4>1. e.piece # p
        <5>. SUFFICES ASSUME e.piece = p PROVE FALSE
          OBVIOUS
        <5>1. e.block # b
          BY <2>3
        <5>2. e.block \in Missing(p)
          BY DEF Missing
        <5>. QED BY <2>5, <5>1, <5>2
      <4>2. <<e.piece, e.block>> # <<p, b>>
        BY <4>1
      <4>. QED BY <3>2, <4>1, <4>2
    <3>. HIDE DEF drec, dfin, S
    <3>5. Dropping(pending, S) \in Seq(Ask) /\ Links(dact, Dropping(pending, S), drec, dfin)
      BY <1>0, <3>3, <3>4, LinksLess
    <3>6. AsksOK'
      BY <1>0, <3>1, <3>2, <3>5 DEF AsksOK, S
    <3>7. \A q \in writing \union {p} : Whole(drec, q)
      <4>1. \A q \in writing : Whole(drec, q)
        BY <1>a DEF Whole, drec
      <4>2. Whole(drec, p)
        BY <2>5 DEF Whole, drec, Missing
      <4>. QED BY <4>1, <4>2
    <3>8. drec \subseteq Blocks /\ dfin \subseteq DPiece /\ writing \union {p} \subseteq dfin \union revoked
      BY <1>a, <2>1 DEF drec, dfin
    <3>. QED BY <1>a, <3>1, <3>6, <3>7, <3>8 DEF DataOK
  <2>6. CASE whole /\ bad
    <3>. DEFINE dact == Dropping(activePieces, {p})
                drec == received \ ({p} \X BlocksOf(p))
                S == AsksFor(p, BlocksOf(p))
    <3>1. /\ pending' = Dropping(pending, S) /\ received' = drec /\ spoilt' = spoilt \ {p}
          /\ activePieces' = dact
          /\ UNCHANGED <<finished, writing, onDisk>>
      BY <1>2, <2>6 DEF PieceMessage
    <3>2. dact \in Seq(DPiece) /\ ToSet(dact) = ToSet(activePieces) \ {p}
      BY <1>0, DropOne
    <3>. HIDE DEF dact
    <3>3. NoneActive(finished, dact)
      BY <1>b, <3>2 DEF NoneActive
    <3>4. StillAsked(S, activePieces, received, dact, drec)
      BY <3>2 DEF StillAsked, AsksFor
    <3>5. \A q \in writing : Whole(drec, q)
      <4>. SUFFICES ASSUME NEW q \in writing, NEW c \in BlocksOf(q) PROVE <<q, c>> \in drec
        BY DEF Whole
      <4>1. <<q, c>> \in received /\ q # p
        BY <1>a, <2>2 DEF Whole
      <4>. QED BY <4>1
    <3>6. drec \subseteq Blocks /\ spoilt \ {p} \subseteq DPiece
      BY <1>a
    <3>. HIDE DEF drec, S
    <3>7. Dropping(pending, S) \in Seq(Ask) /\ Links(dact, Dropping(pending, S), drec, finished)
      BY <1>0, <3>3, <3>4, LinksLess
    <3>8. AsksOK'
      BY <1>0, <3>1, <3>2, <3>7 DEF AsksOK
    <3>. QED BY <1>a, <3>1, <3>5, <3>6, <3>8 DEF DataOK
  <2>. QED BY <2>4, <2>5, <2>6
<1>. QED BY <1>1, <1>2

(* Every step of the manager keeps what holds of its state. *)
LEMMA DownloadKeeps == DownloadInv /\ [DownloadNext]_downloadVars => DownloadInv'
<1>. SUFFICES ASSUME DownloadInv, [DownloadNext]_downloadVars PROVE DownloadInv'
  OBVIOUS
<1>0. PeersOK /\ AsksOK /\ DataOK /\ ModesOK
  BY DEF DownloadInv
<1>p. /\ connected \in Seq(DPeer) /\ \A i, j \in DOMAIN connected : connected[i] = connected[j] => i = j
      /\ unchoked \subseteq ToSet(connected) /\ announced \in [DPeer -> SUBSET DPiece]
      /\ described \subseteq ToSet(connected) /\ Supply(described, availability) /\ availability \in [DPiece -> Nat]
  BY <1>0 DEF PeersOK, Supply
<1>a. /\ activePieces \in Seq(DPiece) /\ pending \in Seq(Ask) /\ wire \subseteq Ask
      /\ Links(activePieces, pending, received, finished)
  BY <1>0 DEF AsksOK
<1>m. /\ skipped \subseteq DPiece /\ running \in BOOLEAN /\ halted \in BOOLEAN /\ isDone \in BOOLEAN
      /\ reports \in 0..2 /\ trouble \in 0..MaxTrouble
  BY <1>0 DEF ModesOK
<1>q. ASSUME UNCHANGED peerVars PROVE PeersOK'
  BY <1>p, <1>q DEF PeersOK, peerVars
<1>r. ASSUME UNCHANGED requestVars, received' = received, finished' = finished PROVE AsksOK'
  BY <1>a, <1>r DEF AsksOK, requestVars
<1>d. ASSUME UNCHANGED <<dataVars, otherVars>> PROVE DataOK'
  BY <1>0, <1>d DEF DataOK, dataVars, otherVars
<1>n. ASSUME UNCHANGED modeVars, trouble' \in 0..MaxTrouble PROVE ModesOK'
  BY <1>m, <1>n DEF ModesOK, modeVars
<1>t. ASSUME Trouble(1) PROVE trouble' \in 0..MaxTrouble
  BY <1>m, <1>t, TroubleFacts
<1>1. CASE RequestBlocks
  <2>. DEFINE r == [act |-> activePieces, pend |-> pending, wire |-> wire, down |-> down]
              s == AskAll(r)
  <2>1. /\ activePieces' = s.act /\ pending' = s.pend /\ wire' = s.wire /\ down' = s.down
        /\ UNCHANGED <<peerVars, dataVars, modeVars, initial, revoked, trouble>>
    BY <1>1 DEF RequestBlocks
  <2>2. r \in Asks
    <3>1. r \in Asking /\ r.act = activePieces /\ r.pend = pending
      BY <1>0, <1>a DEF Asking, DataOK
    <3>. HIDE DEF r
    <3>. QED BY <1>a, <3>1 DEF Asks
  <2>. HIDE DEF r
  <2>3. s \in Asks
    BY <1>p, <2>2, AskAllKeeps
  <2>. HIDE DEF s
  <2>4. /\ s.act \in Seq(DPiece) /\ s.pend \in Seq(Ask) /\ s.wire \subseteq Ask
        /\ s.down \in BOOLEAN
        /\ Links(s.act, s.pend, received, finished)
    BY <2>3, AsksFacts
  <2>5. AsksOK'
    BY <2>1, <2>4 DEF AsksOK, dataVars
  <2>6. DataOK'
    BY <1>0, <2>1, <2>4 DEF DataOK, dataVars
  <2>. QED BY <1>q, <1>n, <1>m, <2>1, <2>5, <2>6 DEF DownloadInv
<1>2. CASE StartDownload \/ PauseDownload \/ ResumeDownload \/ StopDownload
  <2>1. /\ UNCHANGED <<peerVars, requestVars, dataVars, skipped, isDone, reports, otherVars, trouble>>
        /\ running' \in {running, TRUE, FALSE} /\ halted' \in {halted, TRUE, FALSE}
    BY <1>2 DEF StartDownload, PauseDownload, ResumeDownload, StopDownload
  <2>2. running' \in BOOLEAN /\ halted' \in BOOLEAN
    BY <1>m, <2>1, Zenon
  <2>3. received' = received /\ finished' = finished
    BY <2>1 DEF dataVars
  <2>4. ModesOK'
    BY <1>m, <2>1, <2>2, Zenon DEF ModesOK
  <2>. QED BY <1>q, <1>r, <1>d, <2>1, <2>3, <2>4 DEF DownloadInv
<1>3. CASE ApplyVerificationResults
  <2>1. /\ finished' = finished \intersect onDisk
        /\ revoked' = revoked \union (finished \ onDisk)
        /\ UNCHANGED <<peerVars, requestVars, received, spoilt, writing, onDisk, modeVars, initial, down, trouble>>
    BY <1>3 DEF ApplyVerificationResults
  <2>2. AsksOK'
    BY <1>a, <2>1 DEF AsksOK, Links, requestVars
  <2>3. DataOK'
    BY <1>0, <2>1 DEF DataOK
  <2>. QED BY <1>q, <1>n, <1>m, <2>1, <2>2, <2>3 DEF DownloadInv
<1>4. CASE ClearSkippedPieces
  <2>1. /\ skipped' = {} /\ UNCHANGED <<peerVars, requestVars, dataVars, running, halted, isDone, reports,
                 otherVars, trouble>>
    BY <1>4 DEF ClearSkippedPieces
  <2>2. received' = received /\ finished' = finished
    BY <2>1 DEF dataVars
  <2>3. ModesOK'
    BY <1>m, <2>1, Zenon DEF ModesOK
  <2>. QED BY <1>q, <1>r, <1>d, <2>1, <2>2, <2>3 DEF DownloadInv
<1>5. ASSUME NEW w \in DPeer, PeerConnected(w) PROVE DownloadInv'
  <2>1. /\ w \notin ToSet(connected) /\ connected' = Append(connected, w)
        /\ UNCHANGED <<unchoked, described, announced, availability, requestVars, dataVars, modeVars, otherVars, trouble>>
    BY <1>5 DEF PeerConnected
  <2>. DEFINE c == connected
              C == ToSet(connected)
  <2>2. /\ connected' \in Seq(DPeer) /\ Len(c) \in Nat /\ DOMAIN c = 1..Len(c)
        /\ DOMAIN connected' = 1..Len(c) + 1 /\ connected'[Len(c) + 1] = w
        /\ \A i \in DOMAIN c : connected'[i] = c[i]
    BY <1>p, <2>1
  <2>3. \A i \in DOMAIN connected' : i \in DOMAIN c \/ i = Len(c) + 1
    BY <2>2
  <2>4. ToSet(connected') = C \union {w}
    <3>1. \A x \in C \union {w} : \E i \in DOMAIN connected' : connected'[i] = x
      <4>1. Len(c) + 1 \in DOMAIN connected' /\ \A i \in DOMAIN c : i \in DOMAIN connected'
        BY <2>2
      <4>. QED BY <2>2, <4>1 DEF ToSet
    <3>2. \A i \in DOMAIN connected' : connected'[i] \in C \union {w}
      BY <2>2, <2>3 DEF ToSet
    <3>3. \A x : x \in ToSet(connected') <=> \E i \in DOMAIN connected' : connected'[i] = x
      BY DEF ToSet
    <3>. HIDE DEF C
    <3>. QED BY <3>1, <3>2, <3>3
  <2>5. ASSUME NEW i \in DOMAIN connected', NEW j \in DOMAIN connected', connected'[i] = connected'[j]
        PROVE  i = j
    <3>1. \A n \in DOMAIN c : c[n] # w
      BY <2>1 DEF ToSet
    <3>. QED BY <1>p, <2>2, <2>3, <2>5, <3>1
  <2>. HIDE DEF C
  <2>7. PeersOK'
    BY <1>p, <2>1, <2>2, <2>4, <2>5 DEF PeersOK, C
  <2>. QED BY <1>r, <1>d, <1>n, <1>m, <2>1, <2>7 DEF DownloadInv, dataVars
<1>15. ASSUME NEW w \in DPeer, BitfieldMessage(w) PROVE DownloadInv'
  <2>. DEFINE new == [p \in DPiece |-> availability[p] + IF p \in BitfieldOf[w] THEN 1 ELSE 0]
  <2>1. /\ w \in ToSet(connected) /\ w \notin described /\ described' = described \union {w}
        /\ availability' = new
        /\ UNCHANGED <<connected, unchoked, announced, requestVars, dataVars, modeVars, otherVars, trouble>>
    BY <1>15 DEF BitfieldMessage
  <2>2. Supply(described \union {w}, new)
    <3>1. w \notin described /\ Supply(described, availability)
      BY <1>p, <2>1
    <3>. QED BY <3>1, SupplyFacts
  <2>. HIDE DEF new
  <2>3. PeersOK'
    BY <1>p, <2>1, <2>2 DEF PeersOK
  <2>. QED BY <1>r, <1>d, <1>n, <1>m, <2>1, <2>3 DEF DownloadInv, dataVars
<1>6. ASSUME NEW w \in DPeer, NEW p \in DPiece, HaveMessage(w, p) PROVE DownloadInv'
  <2>1. /\ announced' = [announced EXCEPT ![w] = @ \union {p}]
        /\ availability' = [availability EXCEPT ![p] = @ + 1]
        /\ UNCHANGED <<connected, unchoked, described, requestVars, dataVars, modeVars, otherVars, trouble>>
    BY <1>6 DEF HaveMessage
  <2>2. Supply(described, availability')
    BY <1>p, <2>1, SupplyFacts
  <2>3. announced' \in [DPeer -> SUBSET DPiece]
    BY <1>p, <2>1
  <2>4. PeersOK'
    BY <1>p, <2>1, <2>2, <2>3 DEF PeersOK
  <2>. QED BY <1>r, <1>d, <1>n, <1>m, <2>1, <2>4 DEF DownloadInv, dataVars
<1>7. ASSUME NEW w \in DPeer, Unchoke(w) PROVE DownloadInv'
  <2>1. /\ w \in ToSet(connected) /\ unchoked' = unchoked \union {w}
        /\ UNCHANGED <<connected, described, announced, availability, requestVars, dataVars, modeVars,
                 otherVars, trouble>>
    BY <1>7 DEF Unchoke
  <2>2. PeersOK'
    BY <1>p, <2>1 DEF PeersOK
  <2>. QED BY <1>r, <1>d, <1>n, <1>m, <2>1, <2>2 DEF DownloadInv, dataVars
<1>8. ASSUME NEW w \in DPeer, Choke(w) PROVE DownloadInv'
  <2>1. /\ Trouble(1) /\ unchoked' = unchoked \ {w} /\ CancelPeerRequests(w)
        /\ UNCHANGED <<connected, described, announced, availability, activePieces, wire, spoilt,
                 finished, writing, onDisk, modeVars, otherVars>>
    BY <1>8 DEF Choke
  <2>2. /\ received' = received /\ pending' \in Seq(Ask)
        /\ Links(activePieces, pending', received, finished)
    BY <1>0, <2>1, CancelKeeps
  <2>3. PeersOK'
    BY <1>p, <2>1 DEF PeersOK
  <2>4. AsksOK'
    BY <1>a, <2>1, <2>2 DEF AsksOK
  <2>. QED BY <1>d, <1>n, <1>t, <2>1, <2>2, <2>3, <2>4 DEF DownloadInv, dataVars
<1>9. ASSUME NEW w \in DPeer, PeerDisconnected(w) PROVE DownloadInv'
  <2>1. /\ w \in ToSet(connected) /\ Trouble(1) /\ connected' = Dropping(connected, {w})
        /\ unchoked' = unchoked \ {w} /\ described' = described \ {w}
        /\ availability' = [p \in DPiece |->
             availability[p] - IF w \in described /\ p \in BitfieldOf[w] THEN 1 ELSE 0]
        /\ CancelPeerRequests(w) /\ wire' = {r \in wire : r.who # w}
        /\ UNCHANGED <<announced, activePieces, spoilt, finished, writing, onDisk, modeVars, otherVars>>
    BY <1>9 DEF PeerDisconnected
  <2>2. /\ received' = received /\ pending' \in Seq(Ask)
        /\ Links(activePieces, pending', received, finished)
    BY <1>0, <2>1, CancelKeeps
  <2>3. /\ connected' \in Seq(DPeer) /\ ToSet(connected') = ToSet(connected) \ {w}
        /\ \A i, j \in DOMAIN connected' : connected'[i] = connected'[j] => i = j
    <3>. DEFINE x == {w}
    <3>1. connected' = Dropping(connected, x)
      BY <2>1
    <3>2. /\ Dropping(connected, x) \in Seq(DPeer)
          /\ ToSet(Dropping(connected, x)) = ToSet(connected) \ {w}
      BY <1>p, DropOne
    <3>3. \A i, j \in DOMAIN Dropping(connected, x) :
             Dropping(connected, x)[i] = Dropping(connected, x)[j] => i = j
      BY <1>p, DropOne
    <3>. HIDE DEF x
    <3>. QED BY <3>1, <3>2, <3>3
  <2>4. Supply(described \ {w}, availability')
    <3>. DEFINE less == [p \in DPiece |-> availability[p] - IF p \in BitfieldOf[w] THEN 1 ELSE 0]
    <3>1. CASE w \in described
      <4>1. Supply(described \ {w}, less)
        BY <1>p, <3>1, SupplyFacts
      <4>2. availability' = less
        BY <2>1, <3>1
      <4>. HIDE DEF less
      <4>. QED BY <4>1, <4>2
    <3>2. CASE w \notin described
      <4>1. described \ {w} = described
        BY <3>2
      <4>2. availability' = availability
        BY <1>p, <2>1, <3>2
      <4>. QED BY <1>p, <4>1, <4>2
    <3>. QED BY <3>1, <3>2
  <2>5. PeersOK'
    BY <1>p, <2>1, <2>3, <2>4 DEF PeersOK
  <2>6. wire' \subseteq Ask
    BY <1>a, <2>1
  <2>7. AsksOK'
    BY <1>a, <2>1, <2>2, <2>6 DEF AsksOK
  <2>. QED BY <1>d, <1>n, <1>t, <2>1, <2>2, <2>5, <2>7 DEF DownloadInv, dataVars
<1>10. ASSUME NEW r \in wire, NEW good \in BOOLEAN, PieceMessage(r.who, r.piece, r.block, good)
       PROVE  DownloadInv'
  <2>. DEFINE w == r.who
              p == r.piece
              b == r.block
  <2>1. w \in DPeer /\ p \in DPiece /\ b \in 1..BlocksPerPiece
    <3>1. r \in Ask
      BY <1>a
    <3>. QED BY <3>1 DEF Ask
  <2>2. PieceMessage(w, p, b, good)
    BY <1>10
  <2>. HIDE DEF w, p, b
  <2>3. AsksOK' /\ DataOK'
    BY <1>0, <2>1, <2>2, AnswerKeeps
  <2>4. /\ Trouble(IF good THEN 0 ELSE 1) /\ UNCHANGED <<peerVars, modeVars, otherVars>>
    BY <2>2 DEF PieceMessage
  <2>5. trouble' \in 0..MaxTrouble
    <3>. DEFINE n == IF good THEN 0 ELSE 1
    <3>1. n \in Nat
      OBVIOUS
    <3>. HIDE DEF n
    <3>2. Trouble(n)
      BY <2>4 DEF n
    <3>. QED BY <1>m, <3>1, <3>2, TroubleFacts
  <2>. QED BY <1>q, <1>n, <2>3, <2>4, <2>5 DEF DownloadInv
<1>11. ASSUME NEW p \in writing, NEW ok \in BOOLEAN, WriteEnds(p, ok) PROVE DownloadInv'
  <2>1. /\ Trouble(IF ok THEN 0 ELSE 1) /\ writing' = writing \ {p}
        /\ onDisk' = IF ok THEN onDisk \union {p} ELSE onDisk
        /\ UNCHANGED <<peerVars, requestVars, received, spoilt, finished, skipped, otherVars>>
    BY <1>11 DEF WriteEnds
  <2>2. \/ isDone' = TRUE /\ running' = FALSE /\ halted' = TRUE /\ reports' = Report(1)
        \/ UNCHANGED <<isDone, running, halted, reports>>
    BY <1>11 DEF WriteEnds
  <2>3. trouble' \in 0..MaxTrouble
    <3>. DEFINE n == IF ok THEN 0 ELSE 1
    <3>1. n \in Nat
      OBVIOUS
    <3>. HIDE DEF n
    <3>2. Trouble(n)
      BY <2>1 DEF n
    <3>. QED BY <1>m, <3>1, <3>2, TroubleFacts
  <2>4. isDone' \in BOOLEAN /\ running' \in BOOLEAN /\ halted' \in BOOLEAN
    BY <1>m, <2>2, Zenon
  <2>5. reports' \in 0..2
    BY <1>m, <2>2, ReportFacts
  <2>6. ModesOK'
    BY <1>m, <2>1, <2>3, <2>4, <2>5, Zenon DEF ModesOK
  <2>7. onDisk' \subseteq DPiece
    <3>1. p \in DPiece /\ onDisk \subseteq DPiece
      BY <1>0 DEF DataOK
    <3>. QED BY <2>1, <3>1
  <2>8. DataOK'
    BY <1>0, <2>1, <2>7 DEF DataOK, otherVars
  <2>. QED BY <1>q, <1>r, <2>1, <2>6, <2>8 DEF DownloadInv
<1>12. ASSUME NEW n \in DOMAIN pending, HandleRequestTimeout(n) PROVE DownloadInv'
  <2>. DEFINE L == {i \in 1..n : CanAnswer(pending[i])}
              q == SubSeq(pending, n + 1, Len(pending))
  <2>1. /\ Trouble(Cardinality(L)) /\ pending' = q
        /\ received' = received \ {<<pending[i].piece, pending[i].block>> : i \in 1..n}
        /\ UNCHANGED <<peerVars, activePieces, wire, spoilt, finished, writing, onDisk,
                 modeVars, otherVars>>
    BY <1>12 DEF HandleRequestTimeout
  <2>2. n \in Nat /\ Len(pending) \in Nat /\ DOMAIN pending = 1..Len(pending) /\ n <= Len(pending) /\ 1 <= n
    BY <1>a
  <2>3. trouble' \in 0..MaxTrouble
    <3>1. IsFiniteSet(1..n) /\ L \subseteq 1..n
      BY <2>2, FS_Interval
    <3>. HIDE DEF L
    <3>2. Cardinality(L) \in Nat
      BY <3>1, CountPart
    <3>. QED BY <1>m, <2>1, <3>2, TroubleFacts
  <2>4. received' = received
    <3>1. ASSUME NEW i \in 1..n PROVE <<pending[i].piece, pending[i].block>> \notin received
      <4>1. i \in DOMAIN pending
        BY <2>2
      <4>2. \A j \in DOMAIN pending : <<pending[j].piece, pending[j].block>> \notin received
        BY <1>a DEF Links
      <4>. QED BY <4>1, <4>2
    <3>. DEFINE lost == {<<pending[i].piece, pending[i].block>> : i \in 1..n}
    <3>2. received' = received \ lost /\ \A x \in lost : x \notin received
      BY <2>1, <3>1
    <3>. HIDE DEF lost
    <3>. QED BY <3>2
  <2>5. /\ q \in Seq(Ask) /\ DOMAIN q = 1..Len(pending) - n
        /\ \A i \in 1..Len(pending) - n : i + n \in DOMAIN pending /\ q[i] = pending[i + n]
    <3>. DEFINE l == Len(pending)
    <3>1. ASSUME NEW i \in n + 1..l PROVE pending[i] \in Ask
      <4>1. i \in DOMAIN pending
        BY <2>2
      <4>. QED BY <1>a, <4>1
    <3>2. n + 1 \in Int /\ l \in Int
      BY <2>2
    <3>3. /\ q \in Seq(Ask) /\ Len(q) = IF n + 1 <= l THEN l - (n + 1) + 1 ELSE 0
          /\ \A i \in 1..l - (n + 1) + 1 : q[i] = pending[n + 1 + i - 1]
      <4>. DEFINE m == n + 1
      <4>1. m \in Int /\ l \in Int /\ \A i \in m..l : pending[i] \in Ask
        BY <3>1, <3>2
      <4>. HIDE DEF m, l
      <4>2. /\ SubSeq(pending, m, l) \in Seq(Ask)
            /\ Len(SubSeq(pending, m, l)) = IF m <= l THEN l - m + 1 ELSE 0
            /\ \A i \in 1..l - m + 1 : SubSeq(pending, m, l)[i] = pending[m + i - 1]
        BY <4>1, SubSeqProperties
      <4>. QED BY <4>2 DEF m, l
    <3>. HIDE DEF q, l
    <3>4. \A i \in 1..l - n : i + n \in 1..l /\ i \in 1..l - (n + 1) + 1 /\ n + 1 + i - 1 = i + n
      BY <2>2, <3>2
    <3>5. Len(q) = l - n /\ DOMAIN q = 1..Len(q)
      BY <2>2, <3>2, <3>3 DEF l
    <3>. QED BY <2>2, <3>3, <3>4, <3>5 DEF l
  <2>. HIDE DEF q
  <2>6. Links(activePieces, q, received, finished)
    BY <1>a, <2>5 DEF Links
  <2>7. AsksOK'
    BY <1>a, <2>1, <2>4, <2>5, <2>6 DEF AsksOK
  <2>. QED BY <1>q, <1>d, <1>n, <2>1, <2>3, <2>4, <2>7 DEF DownloadInv, dataVars
<1>13. ASSUME NEW S \in SUBSET DPiece, SetSkippedPieces(S) PROVE DownloadInv'
  <2>1. /\ Trouble(1) /\ skipped' = S
        /\ (isDone' = TRUE /\ reports' = Report(1)) \/ UNCHANGED <<isDone, reports>>
        /\ UNCHANGED <<peerVars, requestVars, dataVars, running, halted, otherVars>>
    BY <1>13 DEF SetSkippedPieces
  <2>2. isDone' \in BOOLEAN
    BY <1>m, <2>1, Zenon
  <2>3. reports' \in 0..2
    BY <1>m, <2>1, ReportFacts
  <2>4. trouble' \in 0..MaxTrouble
    BY <1>t, <2>1
  <2>5. ModesOK'
    BY <1>m, <2>1, <2>2, <2>3, <2>4, Zenon DEF ModesOK
  <2>6. received' = received /\ finished' = finished
    BY <2>1 DEF dataVars
  <2>. QED BY <1>q, <1>r, <1>d, <2>1, <2>5, <2>6 DEF DownloadInv
<1>14. CASE UNCHANGED downloadVars
  <2>1. UNCHANGED <<peerVars, requestVars, dataVars, modeVars, otherVars, trouble>>
    BY <1>14 DEF downloadVars, peerVars, requestVars, dataVars, modeVars, otherVars
  <2>2. received' = received /\ finished' = finished
    BY <2>1 DEF dataVars
  <2>. QED BY <1>q, <1>r, <1>d, <1>n, <1>m, <2>1, <2>2 DEF DownloadInv
<1>. QED
  BY <1>1, <1>2, <1>3, <1>4, <1>5, <1>6, <1>7, <1>8, <1>9, <1>10, <1>11, <1>12, <1>13, <1>14, <1>15
  DEF DownloadNext

(* Types of the peers, the requests, the pieces and the modes. *)
THEOREM DownloadTypeCorrect == DownloadInit /\ [][DownloadNext]_downloadVars => []DownloadTypeOK
<1>1. ASSUME DownloadInv PROVE DownloadTypeOK
  <2>1. /\ connected \in Seq(DPeer) /\ IsInjective(connected)
        /\ unchoked \union described \subseteq ToSet(connected)
        /\ announced \in [DPeer -> SUBSET DPiece] /\ availability \in [DPiece -> Nat]
    BY <1>1 DEF DownloadInv, PeersOK, Supply, IsInjective
  <2>2. activePieces \in Seq(DPiece) /\ pending \in Seq(Ask) /\ wire \subseteq Ask
    BY <1>1 DEF DownloadInv, AsksOK
  <2>3. /\ received \subseteq Blocks /\ spoilt \subseteq DPiece
        /\ writing \subseteq finished \union revoked
        /\ finished \subseteq DPiece /\ onDisk \subseteq DPiece
        /\ initial \subseteq DPiece /\ revoked \subseteq DPiece /\ down \in BOOLEAN
    BY <1>1 DEF DownloadInv, DataOK
  <2>4. /\ skipped \subseteq DPiece /\ {running, halted, isDone, down} \subseteq BOOLEAN
        /\ reports \in 0..2 /\ trouble \in 0..MaxTrouble
    BY <1>1, <2>3, Zenon DEF DownloadInv, ModesOK
  <2>. QED BY <2>1, <2>2, <2>3, <2>4, Zenon DEF DownloadTypeOK
<1>. QED BY <1>1, DownloadStart, DownloadKeeps, PTL

(* A late, repeated or slow answer never touches a piece that was counted, or the
   buffer its write is using. *)
THEOREM AskedIsMissing == DownloadSpec => []PendingIsMissing
<1>1. ASSUME DownloadInv PROVE PendingIsMissing
  <2>. SUFFICES ASSUME NEW i \in DOMAIN pending
                PROVE  /\ <<pending[i].piece, pending[i].block>> \notin received
                       /\ pending[i].piece \notin finished \union writing
                       /\ pending[i].piece \in ToSet(activePieces)
    BY DEF PendingIsMissing
  <2>1. /\ pending[i].block \in BlocksOf(pending[i].piece)
        /\ <<pending[i].piece, pending[i].block>> \notin received
        /\ pending[i].piece \in ToSet(activePieces) /\ pending[i].piece \notin finished
    BY <1>1 DEF DownloadInv, AsksOK, Links
  <2>2. \A p \in writing : Whole(received, p)
    BY <1>1 DEF DownloadInv, DataOK
  <2>. QED BY <2>1, <2>2 DEF Whole
<1>. QED BY <1>1, DownloadStart, DownloadKeeps, PTL DEF DownloadSpec
-----------------------------------------------------------------------------
(* A call asks somebody, and sleeps only if an attempt is left. *)
Live(c) ==
  /\ c \in Call /\ c.todo # <<>>
  /\ c.at = "inner" => c.inner < InnerRetries
  /\ c.at = "outer" => c.outer < OuterRetries
CallMap(f) == DOMAIN f \subseteq Id /\ \A i \in DOMAIN f : Live(f[i])
Busy(f, r) == Cardinality(DOMAIN f) + r
TrackersInv ==
  /\ life \in {"running", "stopping", "stopped"} /\ recoveries \in Nat
  /\ CallMap(calls)
  /\ failed \in [Tracker -> 0..ErrorAt] /\ stopsMade \in 0..MaxStopped
  /\ Busy(calls, recoveries) <= IF life = "stopping" THEN MaxCalls + 1 ELSE MaxCalls

(* The numbers of the calls are finitely many. *)
LEMMA IdFacts ==
  /\ IsFiniteSet(Id) /\ Cardinality(Id) = MaxCalls + 1
  /\ \A f : CallMap(f) => IsFiniteSet(DOMAIN f) /\ Cardinality(DOMAIN f) \in Nat
<1>1. IsFiniteSet(Id) /\ Cardinality(Id) = MaxCalls + 1
  BY FS_Interval, TrackersAssumption DEF Id
<1>. QED BY <1>1, CountPart DEF CallMap

(* An order in which the trackers are asked. *)
LEMMA AskingOrder ==
  ASSUME NEW order \in Orders
  PROVE  order \in Seq(Tracker) /\ order # <<>>
<1>1. Cardinality(Tracker) \in Nat /\ Cardinality(Tracker) # 0
  BY TrackersAssumption, FS_CardinalityType, FS_EmptySet
<1>2. order \in [1..Cardinality(Tracker) -> Tracker]
  BY DEF Orders
<1>3. order \in Seq(Tracker) /\ Len(order) = Cardinality(Tracker)
  BY <1>1, <1>2, FunctionIsSeq
<1>. QED BY <1>1, <1>3

(* A call that begins. *)
LEMMA FreshIsLive ==
  ASSUME NEW event \in {"none", "stopped"}, NEW order \in Orders, NEW n \in 0..OuterRetries
  PROVE  Live(Fresh(event, order)) /\ Live([Fresh(event, order) EXCEPT !.outer = n])
<1>1. order \in Seq(Tracker) /\ order # <<>>
  BY AskingOrder
<1>. DEFINE S == Seq(Tracker)
            F == Fresh(event, order)
            G == [F EXCEPT !.outer = n]
<1>2. Call = [event : {"none", "stopped"}, at : {"ask", "inner", "outer"}, todo : S,
              inner : 0..InnerRetries, outer : 0..OuterRetries, cut : BOOLEAN,
              innerCut : BOOLEAN, answered : BOOLEAN]
  BY DEF Call
<1>3. order \in S /\ order # <<>> /\ 0 \in 0..InnerRetries /\ 0 \in 0..OuterRetries
  BY <1>1, TrackersAssumption
<1>. HIDE DEF S
<1>4. F \in Call /\ F.todo = order /\ F.at = "ask"
  BY <1>2, <1>3 DEF Fresh
<1>. HIDE DEF F
<1>5. G \in Call /\ G.todo = order /\ G.at = "ask"
  BY <1>2, <1>4
<1>. QED BY <1>3, <1>4, <1>5 DEF Live, F

(* What is left of a list of several trackers. *)
LEMMA LongTail ==
  ASSUME NEW S, NEW s \in Seq(S), s # <<>>, Len(s) > 1
  PROVE  Tail(s) \in Seq(S) /\ Tail(s) # <<>>
<1>1. Tail(s) \in Seq(S) /\ Len(Tail(s)) = Len(s) - 1 /\ Len(s) \in Nat
  BY HeadTailProperties, LenProperties
<1>. DEFINE t == Tail(s)
<1>2. t \in Seq(S) /\ Len(t) # 0
  BY <1>1
<1>. HIDE DEF t
<1>3. t # <<>>
  BY <1>2
<1>. QED BY <1>1, <1>3 DEF t

(* A call that goes on with the next tracker, that sleeps, that wakes up, that has
   an answer, that is cancelled. *)
LEMMA StepsOfCall ==
  ASSUME NEW c, Live(c)
  PROVE  /\ Len(c.todo) > 1 =>
              Live([c EXCEPT !.todo = Tail(@), !.at = "ask", !.inner = 0, !.innerCut = FALSE])
         /\ c.outer < OuterRetries => Live([c EXCEPT !.at = "outer"])
         /\ c.inner < InnerRetries => Live([c EXCEPT !.at = "inner"])
         /\ c.at = "inner" => Live([c EXCEPT !.at = "ask", !.inner = @ + 1])
         /\ c.at = "ask" => Live([c EXCEPT !.answered = TRUE])
         /\ Live(AfterCancel(c))
<1>. DEFINE S == Seq(Tracker)
            next == [c EXCEPT !.todo = Tail(@), !.at = "ask", !.inner = 0, !.innerCut = FALSE]
            again == [c EXCEPT !.at = "ask", !.inner = @ + 1]
<1>1. Call = [event : {"none", "stopped"}, at : {"ask", "inner", "outer"}, todo : S,
              inner : 0..InnerRetries, outer : 0..OuterRetries, cut : BOOLEAN,
              innerCut : BOOLEAN, answered : BOOLEAN]
  BY DEF Call
<1>2. /\ c \in Call /\ c.todo # <<>> /\ InnerRetries \in Nat
      /\ c.at = "inner" => c.inner < InnerRetries
      /\ c.at = "outer" => c.outer < OuterRetries
  BY TrackersAssumption DEF Live
<1>3. c.todo \in S
  BY <1>1, <1>2
<1>. DEFINE t == Tail(c.todo)
<1>4. Len(c.todo) > 1 => t \in S /\ t # <<>>
  BY <1>2, <1>3, LongTail
<1>5. Len(c.todo) > 1 => Live(next) /\ next.at = "ask"
  <2>. SUFFICES ASSUME Len(c.todo) > 1 PROVE Live(next) /\ next.at = "ask"
    OBVIOUS
  <2>. DEFINE moved == [c EXCEPT !.todo = t, !.at = "ask"]
  <2>1. next = [moved EXCEPT !.inner = 0, !.innerCut = FALSE]
    BY <1>1, <1>2
  <2>. HIDE DEF S, t, next
  <2>2. moved \in Call /\ moved.todo = t /\ moved.at = "ask"
    BY <1>1, <1>2, <1>4
  <2>. HIDE DEF moved
  <2>3. 0 \in 0..InnerRetries
    BY <1>2
  <2>4. next \in Call
    BY <1>1, <2>1, <2>2, <2>3
  <2>5. next.todo = t /\ next.at = "ask"
    BY <1>1, <2>1, <2>2
  <2>. QED BY <1>4, <2>4, <2>5 DEF Live
<1>. HIDE DEF S
<1>6. c.outer < OuterRetries => Live([c EXCEPT !.at = "outer"])
  BY <1>1, <1>2 DEF Live
<1>7. c.inner < InnerRetries => Live([c EXCEPT !.at = "inner"])
  BY <1>1, <1>2 DEF Live
<1>8. c.at = "inner" => Live(again)
  <2>. SUFFICES ASSUME c.at = "inner" PROVE Live(again)
    OBVIOUS
  <2>1. c.inner + 1 \in 0..InnerRetries
    BY <1>1, <1>2
  <2>2. again \in Call /\ again.todo = c.todo /\ again.at = "ask"
    BY <1>1, <1>2, <2>1
  <2>. QED BY <1>2, <2>2 DEF Live
<1>9. c.at = "ask" => Live([c EXCEPT !.answered = TRUE])
  BY <1>1, <1>2 DEF Live
<1>10. Live(AfterCancel(c))
  <2>1. CASE c.at = "inner" /\ Len(c.todo) > 1
    <3>. DEFINE d == [c EXCEPT !.cut = TRUE, !.at = "ask", !.todo = Tail(@), !.inner = 0,
                               !.innerCut = FALSE]
    <3>1. AfterCancel(c) = d
      BY <2>1 DEF AfterCancel
    <3>2. d = [next EXCEPT !.cut = TRUE]
      BY <1>1, <1>2
    <3>. HIDE DEF d, next
    <3>3. d \in Call /\ d.todo = next.todo /\ d.at = next.at
      BY <1>1, <1>5, <2>1, <3>2 DEF Live
    <3>. QED BY <1>5, <2>1, <3>1, <3>3 DEF Live
  <2>2. CASE ~(c.at = "inner" /\ Len(c.todo) > 1)
    BY <1>1, <1>2, <2>2 DEF AfterCancel, Live
  <2>. QED BY <2>1, <2>2
<1>. QED BY <1>5, <1>6, <1>7, <1>8, <1>9, <1>10

(* One call more, if a number is free. *)
LEMMA NewCall ==
  ASSUME NEW f, CallMap(f), Cardinality(DOMAIN f) <= MaxCalls, NEW event \in {"none", "stopped"},
         Announce(event, f)
  PROVE  CallMap(calls') /\ Cardinality(DOMAIN calls') <= Cardinality(DOMAIN f) + 1
<1>1. PICK i \in {CHOOSE j \in Id \ DOMAIN f : TRUE}, order \in Orders :
        calls' = WithCall(f, i, Fresh(event, order))
  BY DEF Announce
<1>2. Id \ DOMAIN f # {}
  <2>. SUFFICES ASSUME Id \subseteq DOMAIN f PROVE FALSE
    OBVIOUS
  <2>1. DOMAIN f = Id
    BY DEF CallMap
  <2>. QED BY <2>1, IdFacts, TrackersAssumption
<1>3. i \in Id /\ i \notin DOMAIN f
  BY <1>2
<1>4. Live(Fresh(event, order))
  <2>1. 0 \in 0..OuterRetries
    BY TrackersAssumption
  <2>. QED BY <2>1, FreshIsLive
<1>5. DOMAIN calls' = DOMAIN f \union {i}
      /\ \A j \in DOMAIN calls' : calls'[j] = IF j = i THEN Fresh(event, order) ELSE f[j]
  BY <1>1 DEF WithCall
<1>6. Cardinality(DOMAIN f \union {i}) <= Cardinality(DOMAIN f) + 1
  BY IdFacts, CountMore
<1>. QED BY <1>3, <1>4, <1>5, <1>6 DEF CallMap

(* A call that goes on. *)
LEMMA SameCalls ==
  ASSUME TrackersInv, NEW i \in DOMAIN calls, NEW c, Live(c), calls' = [calls EXCEPT ![i] = c],
         life' = life, recoveries' = recoveries,
         failed' \in [Tracker -> 0..ErrorAt], stopsMade' = stopsMade
  PROVE  TrackersInv'
<1>1. DOMAIN calls' = DOMAIN calls /\ \A j \in DOMAIN calls : calls'[j] = IF j = i THEN c ELSE calls[j]
  OBVIOUS
<1>2. CallMap(calls')
  BY <1>1 DEF TrackersInv, CallMap
<1>. QED BY <1>1, <1>2 DEF TrackersInv, Busy

(* A call that ends, with a recovery timer or without. *)
LEMMA LessCalls ==
  ASSUME TrackersInv, NEW i \in DOMAIN calls, NEW c, calls' = WithoutCall(calls, i), LifeAfter(c),
         \/ recoveries' = recoveries
         \/ recoveries' = recoveries + 1 /\ life = "running",
         failed' \in [Tracker -> 0..ErrorAt], stopsMade' = stopsMade
  PROVE  TrackersInv'
<1>1. DOMAIN calls' = DOMAIN calls \ {i} /\ \A j \in DOMAIN calls' : calls'[j] = calls[j]
  BY DEF WithoutCall
<1>2. CallMap(calls')
  BY <1>1 DEF TrackersInv, CallMap
<1>3. /\ Cardinality(DOMAIN calls) \in Nat /\ Cardinality(DOMAIN calls') \in Nat
      /\ Cardinality(DOMAIN calls') + 1 <= Cardinality(DOMAIN calls)
  BY <1>1, <1>2, IdFacts, CountLess DEF TrackersInv
<1>4. recoveries' \in Nat
  BY DEF TrackersInv
<1>5. life' \in {"running", "stopping", "stopped"} /\ (life = "running" => life' = "running")
      /\ (life # "stopping" => life' # "stopping")
  BY DEF TrackersInv, LifeAfter
<1>6. Busy(calls', recoveries') <= IF life' = "stopping" THEN MaxCalls + 1 ELSE MaxCalls
  <2>1. Busy(calls, recoveries) <= IF life = "stopping" THEN MaxCalls + 1 ELSE MaxCalls
    BY DEF TrackersInv
  <2>2. MaxCalls \in Nat /\ recoveries \in Nat
    BY TrackersAssumption DEF TrackersInv
  <2>. QED BY <1>3, <1>5, <2>1, <2>2 DEF Busy
<1>. QED BY <1>2, <1>4, <1>5, <1>6 DEF TrackersInv

(* The next tracker, the next attempt, or the end of the call. *)
LEMMA NextTrackerKeeps ==
  ASSUME TrackersInv, NEW i \in DOMAIN calls, NEW c, Live(c), NextTracker(i, c),
         failed' \in [Tracker -> 0..ErrorAt], stopsMade' = stopsMade
  PROVE  TrackersInv'
<1>1. CASE Len(c.todo) > 1
  BY <1>1, StepsOfCall, SameCalls DEF NextTracker
<1>2. CASE ~(Len(c.todo) > 1) /\ c.answered
  BY <1>2, LessCalls DEF NextTracker
<1>3. CASE ~(Len(c.todo) > 1) /\ ~c.answered /\ (c.cut \/ c.outer >= Retries(c, OuterRetries))
  BY <1>3, LessCalls DEF NextTracker, Failed
<1>4. CASE ~(Len(c.todo) > 1) /\ ~c.answered /\ ~(c.cut \/ c.outer >= Retries(c, OuterRetries))
  <2>1. c.outer < OuterRetries
    BY <1>4, TrackersAssumption DEF Live, Call, Retries
  <2>. QED BY <1>4, <2>1, StepsOfCall, SameCalls DEF NextTracker
<1>. QED BY <1>1, <1>2, <1>3, <1>4

(* Nothing has been announced. *)
LEMMA TrackersStart == TrackersInit => TrackersInv
<1>. SUFFICES ASSUME TrackersInit PROVE TrackersInv
  OBVIOUS
<1>1. DOMAIN calls = {} /\ recoveries = 0
  BY DEF TrackersInit
<1>2. CallMap(calls) /\ Busy(calls, recoveries) = 0
  BY <1>1, FS_EmptySet DEF CallMap, Busy
<1>. QED BY <1>1, <1>2, TrackersAssumption DEF TrackersInit, TrackersInv

(* A tracker answers or fails. *)
LEMMA AnswersKeep ==
  ASSUME TrackersInv, NEW i \in Id, NEW b \in BOOLEAN, TrackerAnswers(i, b) \/ TrackerFails(i, b)
  PROVE  TrackersInv'
<1>1. /\ i \in DOMAIN calls /\ calls[i].at = "ask" /\ Live(calls[i])
      /\ Head(calls[i].todo) \in Tracker /\ stopsMade' = stopsMade
  <2>1. i \in DOMAIN calls /\ calls[i].at = "ask" /\ stopsMade' = stopsMade
    BY DEF TrackerAnswers, TrackerFails, Asked
  <2>2. Live(calls[i])
    BY <2>1 DEF TrackersInv, CallMap
  <2>3. calls[i].todo \in Seq(Tracker) /\ calls[i].todo # <<>>
    BY <2>2 DEF Live, Call
  <2>. QED BY <2>1, <2>2, <2>3
<1>. DEFINE t == Head(calls[i].todo)
            c == calls[i]
<1>2. ErrorAt \in Nat /\ failed \in [Tracker -> 0..ErrorAt]
  BY TrackersAssumption DEF TrackersInv
<1>3. CASE TrackerAnswers(i, b)
  <2>1. failed' \in [Tracker -> 0..ErrorAt]
    <3>1. failed' = [failed EXCEPT ![t] = 0] /\ t \in Tracker /\ 0 \in 0..ErrorAt
      BY <1>1, <1>2, <1>3 DEF TrackerAnswers
    <3>. HIDE DEF t
    <3>. QED BY <1>2, <3>1
  <2>2. CASE b
    BY <1>1, <1>3, <2>1, <2>2, LessCalls DEF TrackerAnswers
  <2>3. CASE ~b
    <3>1. NextTracker(i, [c EXCEPT !.answered = TRUE])
      BY <1>3, <2>3 DEF TrackerAnswers
    <3>2. Live([c EXCEPT !.answered = TRUE])
      BY <1>1, StepsOfCall
    <3>. HIDE DEF c
    <3>. QED BY <1>1, <2>1, <3>1, <3>2, NextTrackerKeeps
  <2>. QED BY <2>2, <2>3
<1>4. CASE TrackerFails(i, b)
  <2>1. CASE b
    <3>1. /\ calls' = [calls EXCEPT ![i] = [c EXCEPT !.at = "inner"]]
          /\ UNCHANGED <<life, recoveries, failed>>
          /\ c.inner < Retries(c, InnerRetries)
      BY <1>4, <2>1 DEF TrackerFails, MayRetry
    <3>2. c.inner < InnerRetries
      BY <1>1, <3>1, TrackersAssumption DEF Live, Call, Retries
    <3>3. Live([c EXCEPT !.at = "inner"])
      BY <1>1, <3>2, StepsOfCall
    <3>. HIDE DEF c
    <3>. QED BY <1>1, <1>2, <3>1, <3>3, SameCalls
  <2>2. CASE ~b
    <3>1. CountFailure(t) /\ NextTracker(i, c)
      BY <1>4, <2>2 DEF TrackerFails
    <3>2. failed' \in [Tracker -> 0..ErrorAt]
      <4>1. failed' = [failed EXCEPT ![t] = IF @ < ErrorAt THEN @ + 1 ELSE @] /\ t \in Tracker
        BY <1>1, <3>1 DEF CountFailure
      <4>. HIDE DEF t
      <4>. QED BY <1>2, <4>1
    <3>. HIDE DEF c
    <3>. QED BY <1>1, <3>1, <3>2, NextTrackerKeeps DEF c
  <2>. QED BY <2>1, <2>2
<1>. QED BY <1>3, <1>4

(* A call hangs. *)
LEMMA HangKeeps ==
  ASSUME TrackersInv, NEW i \in Id, ForeignDatagram(i)
  PROVE  TrackersInv'
<1>. DEFINE c == [event |-> "none"]
<1>1. /\ i \in DOMAIN calls /\ calls' = WithoutCall(calls, i)
      /\ UNCHANGED <<life, recoveries, failed, stopsMade>>
  BY DEF ForeignDatagram, Asked
<1>2. LifeAfter(c) /\ failed' \in [Tracker -> 0..ErrorAt]
  BY <1>1 DEF LifeAfter, TrackersInv
<1>. HIDE DEF c
<1>. QED BY <1>1, <1>2, LessCalls

(* A pause ends. *)
LEMMA SleepKeeps ==
  ASSUME TrackersInv, NEW i \in Id, SleepEnds(i)
  PROVE  TrackersInv'
<1>. DEFINE c == calls[i]
<1>1. /\ i \in DOMAIN calls /\ Live(c) /\ UNCHANGED <<life, recoveries, failed, stopsMade>>
      /\ failed \in [Tracker -> 0..ErrorAt]
  BY DEF SleepEnds, TrackersInv, CallMap
<1>2. CASE c.at = "inner" /\ calls' = [calls EXCEPT ![i].at = "ask", ![i].inner = @ + 1]
  <2>1. calls' = [calls EXCEPT ![i] = [c EXCEPT !.at = "ask", !.inner = @ + 1]]
    BY <1>1, <1>2
  <2>2. Live([c EXCEPT !.at = "ask", !.inner = @ + 1])
    BY <1>1, <1>2, StepsOfCall
  <2>. QED BY <1>1, <2>1, <2>2, SameCalls
<1>3. ASSUME c.at = "outer", NEW order \in Orders,
             calls' = [calls EXCEPT ![i] = [Fresh(@.event, order) EXCEPT !.outer = calls[i].outer + 1]]
      PROVE  TrackersInv'
  <2>. DEFINE d == [Fresh(c.event, order) EXCEPT !.outer = c.outer + 1]
  <2>1. c.outer + 1 \in 0..OuterRetries /\ c.event \in {"none", "stopped"}
    BY <1>1, <1>3, TrackersAssumption DEF Live, Call
  <2>2. Live(d)
    BY <2>1, FreshIsLive
  <2>3. calls' = [calls EXCEPT ![i] = d]
    BY <1>1, <1>3
  <2>. HIDE DEF d
  <2>. QED BY <1>1, <2>2, <2>3, SameCalls
<1>. QED BY <1>2, <1>3 DEF SleepEnds

(* A call begins, or all are cancelled and the last one begins. *)
LEMMA AnnouncesKeep ==
  TrackersInv /\ (StartAnnounce \/ IntervalFires \/ RecoveryFires \/ StopTorrent) => TrackersInv'
<1>. SUFFICES ASSUME TrackersInv, StartAnnounce \/ IntervalFires \/ RecoveryFires \/ StopTorrent
              PROVE  TrackersInv'
  OBVIOUS
<1>0. /\ CallMap(calls) /\ Cardinality(DOMAIN calls) \in Nat /\ recoveries \in Nat
      /\ life \in {"running", "stopping", "stopped"} /\ MaxCalls \in Nat
      /\ Cardinality(DOMAIN calls) + recoveries <= IF life = "stopping" THEN MaxCalls + 1 ELSE MaxCalls
      /\ failed \in [Tracker -> 0..ErrorAt] /\ ErrorAt \in Nat
      /\ stopsMade \in 0..MaxStopped /\ MaxStopped \in Nat
  BY IdFacts, TrackersAssumption DEF TrackersInv, Busy
<1>1. CASE StartAnnounce \/ IntervalFires
  <2>1. /\ Cardinality(DOMAIN calls) + recoveries < MaxCalls /\ Announce("none", calls)
        /\ life' \in {"running", "stopping", "stopped"} /\ life' # "stopping"
        /\ recoveries' = recoveries /\ failed' = failed /\ stopsMade' = stopsMade
    BY <1>1 DEF StartAnnounce, IntervalFires, Room
  <2>2. CallMap(calls') /\ Cardinality(DOMAIN calls') <= Cardinality(DOMAIN calls) + 1
    BY <1>0, <2>1, NewCall
  <2>3. Cardinality(DOMAIN calls') \in Nat
    BY <2>2, IdFacts
  <2>. QED BY <1>0, <2>1, <2>2, <2>3 DEF TrackersInv, Busy
<1>2. CASE RecoveryFires
  <2>1. /\ recoveries > 0 /\ recoveries' = recoveries - 1 /\ Announce("none", calls)
        /\ life' = life /\ failed' = failed /\ stopsMade' = stopsMade
    BY <1>2 DEF RecoveryFires
  <2>2. Cardinality(DOMAIN calls) <= MaxCalls
    BY <1>0, <2>1
  <2>3. CallMap(calls') /\ Cardinality(DOMAIN calls') <= Cardinality(DOMAIN calls) + 1
    BY <1>0, <2>1, <2>2, NewCall
  <2>4. Cardinality(DOMAIN calls') \in Nat
    BY <2>3, IdFacts
  <2>5. Cardinality(DOMAIN calls') + recoveries' <= Cardinality(DOMAIN calls) + recoveries
    BY <1>0, <2>1, <2>3, <2>4
  <2>. QED BY <1>0, <2>1, <2>3, <2>4, <2>5 DEF TrackersInv, Busy
<1>3. CASE StopTorrent
  <2>. DEFINE D == {j \in DOMAIN calls : ~Ends(calls[j])}
              f == [i \in D |-> AfterCancel(calls[i])]
  <2>1. /\ life = "running" /\ life' = "stopping" /\ stopsMade < MaxStopped
        /\ stopsMade' = stopsMade + 1 /\ recoveries' = recoveries /\ Announce("stopped", f)
    BY <1>3 DEF StopTorrent
  <2>2. CallMap(f)
    BY <1>0, StepsOfCall DEF CallMap
  <2>3. DOMAIN f \subseteq DOMAIN calls
    OBVIOUS
  <2>. HIDE DEF f, D
  <2>4. Cardinality(DOMAIN f) \in Nat /\ Cardinality(DOMAIN f) <= Cardinality(DOMAIN calls)
    BY <1>0, <2>3, IdFacts, CountPart
  <2>5. CallMap(calls') /\ Cardinality(DOMAIN calls') <= Cardinality(DOMAIN f) + 1
    BY <1>0, <2>1, <2>2, <2>4, NewCall
  <2>6. Cardinality(DOMAIN calls') \in Nat
    BY <2>5, IdFacts
  <2>7. Cardinality(DOMAIN calls') + recoveries' <= MaxCalls + 1
    BY <1>0, <2>1, <2>4, <2>5, <2>6
  <2>8. failed' \in [Tracker -> 0..ErrorAt]
    <3>1. \A t \in Tracker : failed[t] \in 0..ErrorAt
      BY <1>0
    <3>. QED BY <1>0, <1>3, <3>1 DEF StopTorrent
  <2>. QED BY <1>0, <2>1, <2>5, <2>7, <2>8 DEF TrackersInv, Busy
<1>. QED BY <1>1, <1>2, <1>3

(* Every step keeps the types. *)
LEMMA TrackersKeep == TrackersInv /\ [TrackersNext]_trackerVars => TrackersInv'
<1>. SUFFICES ASSUME TrackersInv, [TrackersNext]_trackerVars PROVE TrackersInv'
  OBVIOUS
<1>1. CASE UNCHANGED trackerVars
  BY <1>1 DEF trackerVars, TrackersInv, CallMap, Busy
<1>. QED BY <1>1, AnswersKeep, SleepKeeps, HangKeeps, AnnouncesKeep DEF TrackersNext

(* Types of the announces, for any trackers: however the calls are nested with their
   timers and cancelled, they never outnumber those that were let in, and the one of
   stop. *)
THEOREM TrackersTypeCorrect == TrackersInit /\ [][TrackersNext]_trackerVars => []TrackersTypeOK
<1>1. TrackersInv => TrackersTypeOK
  <2>. SUFFICES ASSUME TrackersInv PROVE TrackersTypeOK
    OBVIOUS
  <2>1. Cardinality(DOMAIN calls) \in Nat
    BY IdFacts DEF TrackersInv
  <2>2. recoveries \in 0..MaxCalls + 1
    BY <2>1, TrackersAssumption DEF TrackersInv, Busy
  <2>. QED BY <2>2 DEF TrackersInv, TrackersTypeOK, CallMap, Live
<1>. QED BY <1>1, TrackersStart, TrackersKeep, PTL
-----------------------------------------------------------------------------
(* The specification that TLC runs is, for every value of its constants, made of the
   steps of each part: a step of one part leaves the others as they are. *)
LEMMA PartsOfTransfer ==
  Spec => /\ DownloadInit /\ [][DownloadNext]_downloadVars
          /\ LifeInit /\ [][LifeNext]_lifeVars
          /\ UploadInit /\ [][UploadNext]_uploadVars
          /\ ThrottleInit /\ [][ThrottleNext]_throttleVars
          /\ TrackersInit /\ [][TrackersNext]_trackerVars
<1>1. Init => DownloadInit /\ LifeInit /\ UploadInit /\ ThrottleInit /\ TrackersInit
  BY DEF Init
<1>2. [Next]_transferVars =>
        /\ [DownloadNext]_downloadVars /\ [LifeNext]_lifeVars /\ [UploadNext]_uploadVars
        /\ [ThrottleNext]_throttleVars /\ [TrackersNext]_trackerVars
  BY DEF Next, DownloadStep, LifeStep, UploadStep, ThrottleStep, TrackersStep, transferVars
<1>. QED BY <1>1, <1>2, PTL DEF Spec

(* The types of all parts of a transfer, for any torrent, peers, clients, trackers and
   limits. *)
THEOREM TransferTypeCorrect == Spec => []TransferTypeOK
<1>1. DownloadTypeOK /\ LifeTypeOK /\ UploadTypeOK /\ ThrottleTypeOK /\ TrackersTypeOK
        => TransferTypeOK
  BY DEF TransferTypeOK
<1>. QED BY <1>1, PartsOfTransfer, DownloadTypeCorrect, LifeTypeCorrect, UploadTypeCorrect,
            ThrottleTypeCorrect, TrackersTypeCorrect, PTL

=============================================================================
