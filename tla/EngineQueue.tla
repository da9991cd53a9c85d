---------------------------- MODULE EngineQueue ----------------------------
(***************************************************************************)
(* The queue manager inside a running engine.  Of its methods the server   *)
(* reaches add (engine.addTorrent), remove (engine.removeTorrent) and the  *)
(* assignment of maxConcurrent (PUT /api/settings); nothing calls          *)
(* engine.pauseTorrent, resumeTorrent, setMaxConcurrent, setPriority or    *)
(* moveInQueue.  Workers and the dispatcher pause and resume the Torrent   *)
(* itself, and startTorrent starts it, past the queue.                     *)
(*                                                                         *)
(* run is the state of each Torrent object, "starting" being every state   *)
(* between start() and downloading.  QueueManager listens for the event    *)
(* 'complete' of a Torrent; Torrent emits 'seeding:start' and 'done' when  *)
(* the last piece is there (torrent.js:896-897), so OnTorrentComplete is   *)
(* not an action of this module.                                           *)
(***************************************************************************)
EXTENDS QueueManager

VARIABLE run

engineVars == <<queueVars, run>>

EngineInit ==
  /\ QueueInit
  /\ run = [t \in Torrent |-> "none"]

(* Torrent.start: nothing for a torrent that runs. *)
Started(s) == IF s \in {"idle", "paused", "error"} THEN "starting" ELSE s
StartEntered(others) ==
  run' = [t \in Torrent |-> IF t \in Active' /\ t \notin Active
                            THEN Started(others[t]) ELSE others[t]]

AddTorrent(t, pri, startPaused) ==
  /\ run[t] = "none"
  /\ Add(t, pri, startPaused)
  /\ StartEntered([run EXCEPT ![t] = "idle"])
RemoveTorrent(t) ==
  /\ run[t] # "none"
  /\ RemoveKnown(t)
  /\ StartEntered([run EXCEPT ![t] = "none"])

(* Steps of a Torrent that the queue manager does not see. *)
Step(t, from, to) ==
  /\ run[t] \in from
  /\ run' = [run EXCEPT ![t] = to]
  /\ UNCHANGED queueVars
WorkerPause(t) == Step(t, {"downloading"}, "paused")
WorkerResume(t) == Step(t, {"paused"}, "downloading")
StartTorrent(t) == Step(t, {"idle", "paused", "error"}, "starting")
Ready(t) == Step(t, {"starting"}, "downloading")
TransitionToSeeding(t) == Step(t, {"downloading"}, "seeding")
Fail(t) == Step(t, {"starting"}, "error")

EngineNext ==
  \/ \E t \in Torrent, pri \in Priority, startPaused \in BOOLEAN :
       AddTorrent(t, pri, startPaused)
  \/ \E t \in Torrent :
       \/ RemoveTorrent(t) \/ WorkerPause(t) \/ WorkerResume(t)
       \/ StartTorrent(t) \/ Ready(t) \/ TransitionToSeeding(t) \/ Fail(t)
  \/ (\E max \in -1..MaxLimit : UpdateSettings(max)) /\ UNCHANGED run
  \/ Clock /\ UNCHANGED run

EngineSpec == EngineInit /\ [][EngineNext]_engineVars
-----------------------------------------------------------------------------
(* queueManager.js:444-467 handles the completion of a torrent by moving it out
   of its slot and starting the next one: nobody waits for a slot that belongs
   to a torrent that is complete. *)
CompletionFreesSlot ==
  queue # <<>> => \A t \in Active : run[t] # "seeding"
=============================================================================
