---------------------------- MODULE MC_Transfer ----------------------------
(***************************************************************************)
(* The parts of one torrent's transfer that share no state in these        *)
(* models, each on its own instance: part says which one a behaviour is    *)
(* about, and the others stay in one initial state.                        *)
(***************************************************************************)
EXTENDS Download, TorrentLife, Upload, Throttler, Trackers

MCBits == [w \in DPeer |-> IF w = "seed" THEN 1..NumPieces ELSE {}]
MCLater == [w \in DPeer |-> IF w = "seed" THEN {} ELSE {2}]

VARIABLE part

transferVars == <<part, downloadVars, lifeVars, uploadVars, throttleVars, trackerVars>>

Init ==
  /\ part \in {"download", "life", "upload", "throttle", "trackers"}
  /\ DownloadInit /\ LifeInit /\ UploadInit /\ ThrottleInit /\ TrackersInit
  /\ part # "download" => initial = {}
  /\ part # "life" => ~needsMetadata

DownloadStep ==
  /\ part = "download" /\ DownloadNext
  /\ UNCHANGED <<part, lifeVars, uploadVars, throttleVars, trackerVars>>
LifeStep ==
  /\ part = "life" /\ LifeNext
  /\ UNCHANGED <<part, downloadVars, uploadVars, throttleVars, trackerVars>>
UploadStep ==
  /\ part = "upload" /\ UploadNext
  /\ UNCHANGED <<part, downloadVars, lifeVars, throttleVars, trackerVars>>
ThrottleStep ==
  /\ part = "throttle" /\ ThrottleNext
  /\ UNCHANGED <<part, downloadVars, lifeVars, uploadVars, trackerVars>>
TrackersStep ==
  /\ part = "trackers" /\ TrackersNext
  /\ UNCHANGED <<part, downloadVars, lifeVars, uploadVars, throttleVars>>

Next == DownloadStep \/ LifeStep \/ UploadStep \/ ThrottleStep \/ TrackersStep

(* The fairness of every part, asked only where a behaviour is about that part: the
   other parts do not move. *)
DownloadFair ==
  /\ WF_downloadVars(part = "download" /\ LoopRuns)
  /\ WF_downloadVars(part = "download" /\ RequestExpires)
  /\ \A p \in DPiece : WF_downloadVars(part = "download" /\ WriteSucceeds(p))
  /\ \A w \in DPeer : WF_downloadVars(part = "download" /\ PeerAnswers(w))
LifeFair ==
  /\ \A n \in Start : /\ WF_lifeVars(part = "life" /\ StartGoesOn(n))
                      /\ WF_lifeVars(part = "life" /\ TransitionToSeeding(n))
  /\ WF_lifeVars(part = "life" /\ StopAsked)
  /\ WF_lifeVars(part = "life" /\ EndStop)
  /\ WF_lifeVars(part = "life" /\ LimitAsked)
UploadFair == \A i \in 1..MaxRuns : WF_uploadVars(part = "upload" /\ RunGoesOn(i))
ThrottleFair ==
  /\ \A x \in Bucket : WF_throttleVars(part = "throttle" /\ Refill(x))
  /\ \A t \in Client : WF_throttleVars(part = "throttle" /\ SenderGoesOn(t))
TrackersFair ==
  /\ WF_trackerVars(part = "trackers" /\ RecoveryFires)
  /\ \A i \in Id : WF_trackerVars(part = "trackers" /\ CallGoesOn(i))

Spec ==
  /\ Init /\ [][Next]_transferVars
  /\ DownloadFair /\ LifeFair /\ UploadFair /\ ThrottleFair /\ TrackersFair

(* Type invariant of all parts. *)
TransferTypeOK ==
  DownloadTypeOK /\ LifeTypeOK /\ UploadTypeOK /\ ThrottleTypeOK /\ TrackersTypeOK
=============================================================================
