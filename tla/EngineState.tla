---------------------------- MODULE EngineState ----------------------------
(***************************************************************************)
(* What engine.js remembers of one infoHash: the torrents map, the queue   *)
(* manager's entry, and the entry of the state manager, which the events   *)
(* of a torrent keep writing through closures that outlive it.  addTorrent *)
(* and removeTorrent await in their middle, so calls for the same infoHash *)
(* interleave.  The torrent is Download's and TorrentLife's, the queue     *)
(* QueueManager's, the file behind the entry StateManager's.               *)
(***************************************************************************)
EXTENDS Naturals, FiniteSets

CONSTANTS EPiece,      \* pieces of the torrent
          BatchSize,   \* pieces that are written at once (10)
          MaxAdds, MaxRemovals, MaxRestarts \* bounds

ASSUME EngineAssumption ==
  /\ BatchSize \in Nat \ {0} /\ MaxAdds \in Nat \ {0}
  /\ MaxRemovals \in Nat /\ MaxRestarts \in Nat

Instance == 1..MaxAdds \* Torrent objects, in the order of the addTorrent calls
Removal == 1..MaxRemovals
NoEntry == [of |-> 0, source |-> FALSE, pieces |-> {}, exists |-> FALSE]

VARIABLES known,      \* torrents.get(infoHash), 0 for none
          queuedAs, where, \* the queue manager's torrent, 0 for none, and its map
          step,       \* how far addTorrent is, or that the torrent is destroyed
          run,        \* of the torrent
          announced,  \* pieces of its 'piece' events
          batch, batchTimer, \* pieceUpdateBatch, pieceUpdateTimer
          saved,      \* the state manager's entry; of is the torrent that addTorrent saved
          removal,    \* removeTorrent calls: what they remove and wait for
          resuming, restarts, \* initialize waits for a restored torrent
          crossed     \* see Crossing

engineVars == <<known, queuedAs, where, step, run, announced, batch, batchTimer,
                saved, removal, resuming, restarts, crossed>>
torrentVars == <<run, announced, batch, batchTimer>>
restartVars == <<resuming, restarts>>

EngineInit ==
  /\ known = 0 /\ queuedAs = 0 /\ where = "none"
  /\ step = [i \in Instance |-> "none"] /\ run = [i \in Instance |-> "idle"]
  /\ announced = [i \in Instance |-> {}] /\ batch = [i \in Instance |-> {}]
  /\ batchTimer = [i \in Instance |-> FALSE]
  /\ saved = NoEntry
  /\ removal = [c \in Removal |-> [of |-> 0, at |-> "none"]]
  /\ resuming = FALSE /\ restarts = 0 /\ crossed = FALSE

(* setTorrentState merges into the entry and makes one where there is none. *)
Touched(entry) == [entry EXCEPT !.exists = TRUE]
SavedOver(pieces) == [Touched(saved) EXCEPT !.pieces = pieces]   \* mutant
SavedWith(pieces) == [Touched(saved) EXCEPT !.pieces = @ \union pieces]

(* A step hits another torrent object than the one it was called for. *)
Crossing(unexpected) == crossed' = (crossed \/ unexpected)
BeingRemoved(i) == \E c \in Removal : removal[c].of = i /\ removal[c].at # "none"
Listening(i) == step[i] \in {"listed", "in"}
-----------------------------------------------------------------------------
(* addTorrent up to 'ready'. *)
AddTorrent(i) ==
  /\ step[i] = "none" /\ \A j \in 1..i - 1 : step[j] # "none"
  /\ step' = [step EXCEPT ![i] = "new"]
  /\ UNCHANGED <<known, queuedAs, where, torrentVars, saved, removal, restartVars, crossed>>

(* Then to the wait for Kafka: listed, with its listeners, but not yet queued. *)
TorrentReady(i) ==
  /\ step[i] = "new"
  /\ step' = [step EXCEPT ![i] = IF known = 0 THEN "listed" ELSE "refused"]
  /\ known' = IF known = 0 THEN i ELSE known
  /\ UNCHANGED <<queuedAs, where, torrentVars, saved, removal, restartVars, crossed>>

(* Queued, in a slot, waiting or paused, and saved as new, with a source when it came as a
   magnet link or a path and without when it came as a buffer; nobody looks whether the
   torrent has been removed since, and the queue keeps the one it has. *)
AddEnds(i, place, source) ==
  /\ step[i] \in {"listed", "orphan"} /\ place \in {"active", "queued", "paused"}
  /\ step' = [step EXCEPT ![i] = IF @ = "listed" THEN "in" ELSE "gone"]
  /\ IF queuedAs = 0
     THEN /\ queuedAs' = i /\ where' = place
          /\ run' = IF place = "active" THEN [run EXCEPT ![i] = "running"] ELSE run
     ELSE UNCHANGED <<queuedAs, where, run>>
  /\ saved' = [of |-> i, source |-> source, pieces |-> {}, exists |-> TRUE]
  /\ Crossing(BeingRemoved(i) \/ announced[i] # {})
  /\ UNCHANGED <<known, announced, batch, batchTimer, removal, restartVars>>
-----------------------------------------------------------------------------
(* _setupTorrentEvents.  'piece': ten pieces are written at once, fewer when the
   timer fires, and the timer is nobody's to clear. *)
PieceVerified(i, p) ==
  /\ Listening(i) /\ run[i] # "idle" /\ p \notin announced[i]
  /\ announced' = [announced EXCEPT ![i] = @ \union {p}]
  /\ LET full == Cardinality(batch[i]) + 1 >= BatchSize
     IN  /\ batch' = [batch EXCEPT ![i] = IF full THEN {} ELSE @ \union {p}]
         /\ batchTimer' = [batchTimer EXCEPT ![i] = ~full]
         /\ saved' = IF full THEN SavedWith(batch[i] \union {p}) ELSE saved
  /\ UNCHANGED <<known, queuedAs, where, step, run, removal, restartVars, crossed>>

BatchTimeout(i) ==
  /\ batchTimer[i]
  /\ saved' = SavedWith(batch[i])
  /\ batch' = [batch EXCEPT ![i] = {}] /\ batchTimer' = [batchTimer EXCEPT ![i] = FALSE]
  /\ UNCHANGED <<known, queuedAs, where, step, run, announced, removal, restartVars, crossed>>

(* 'started', 'progress' and 'done'. *)
TorrentEvent(i) ==
  /\ Listening(i) /\ run[i] # "idle"
  /\ saved' = Touched(saved)
  /\ UNCHANGED <<known, queuedAs, where, step, torrentVars, removal, restartVars, crossed>>
-----------------------------------------------------------------------------
(* pauseTorrent and resumeTorrent: nothing is saved when the queue refuses. *)
PauseTorrent ==
  /\ known # 0 /\ where = "active"
  /\ where' = "paused" /\ saved' = Touched(saved)
  /\ UNCHANGED <<known, queuedAs, step, torrentVars, removal, restartVars, crossed>>
ResumeTorrent(place) ==
  /\ known # 0 /\ where \in {"paused", "queued"} /\ place \in {"active", "queued"}
  /\ where' = place /\ saved' = Touched(saved)
  /\ run' = IF place = "active" THEN [run EXCEPT ![queuedAs] = "running"] ELSE run
  /\ UNCHANGED <<known, queuedAs, step, announced, batch, batchTimer, removal,
                 restartVars, crossed>>

(* _processQueue, when another torrent leaves its slot. *)
SlotGranted ==
  /\ where = "queued" /\ where' = "active"
  /\ run' = [run EXCEPT ![queuedAs] = "running"]
  /\ UNCHANGED <<known, queuedAs, step, announced, batch, batchTimer, saved, removal,
                 restartVars, crossed>>

(* startAll and stopAll go past the queue. *)
StartAll ==
  /\ known # 0 /\ (run[known] = "idle" \/ where = "paused")
  /\ run' = [run EXCEPT ![known] = "running"]
  /\ UNCHANGED <<known, queuedAs, where, step, announced, batch, batchTimer, saved,
                 removal, restartVars, crossed>>
StopAll ==
  /\ known # 0 /\ run[known] = "running"
  /\ run' = [run EXCEPT ![known] = "idle"]
  /\ UNCHANGED <<known, queuedAs, where, step, announced, batch, batchTimer, saved,
                 removal, restartVars, crossed>>
-----------------------------------------------------------------------------
(* removeTorrent: out of the queue, then the torrent is stopped (not when it is
   idle), forgotten and the file written, taken off the map, and destroyed. *)
At(c, i, stage) == removal' = [removal EXCEPT ![c] = [of |-> i, at |-> stage]]
RemoveKeepsPlace(c) ==                                           \* mutant
  /\ removal[c].at = "none" /\ known # 0 /\ \A d \in 1..c - 1 : removal[d].at # "none"
  /\ At(c, known, "stop")
  /\ UNCHANGED <<known, queuedAs, where, step, torrentVars, saved, restartVars, crossed>>
RemoveTorrent(c) ==
  /\ removal[c].at = "none" /\ known # 0 /\ \A d \in 1..c - 1 : removal[d].at # "none"
  /\ queuedAs' = 0 /\ where' = "none"
  /\ IF run[known] = "idle"
     THEN At(c, known, "flush") /\ saved' = NoEntry
     ELSE At(c, known, "stop") /\ UNCHANGED saved
  /\ UNCHANGED <<known, step, torrentVars, restartVars, crossed>>
TorrentStopped(c) ==
  /\ removal[c].at = "stop"
  /\ run' = [run EXCEPT ![removal[c].of] = "stopped"]
  /\ saved' = NoEntry
  /\ At(c, removal[c].of, "flush")
  /\ Crossing(known \notin {0, removal[c].of})
  /\ UNCHANGED <<known, queuedAs, where, step, announced, batch, batchTimer, restartVars>>
RemovalSaved(c) ==
  /\ removal[c].at = "flush"
  /\ known' = 0
  /\ At(c, removal[c].of, "destroy")
  /\ Crossing(known \notin {0, removal[c].of})
  /\ UNCHANGED <<queuedAs, where, step, torrentVars, saved, restartVars>>
TorrentDestroyed(c) ==
  /\ removal[c].at = "destroy"
  /\ step' = [step EXCEPT ![removal[c].of] = IF @ = "listed" THEN "orphan" ELSE "gone"]
  /\ run' = [run EXCEPT ![removal[c].of] = "stopped"]
  /\ At(c, removal[c].of, "done")
  /\ UNCHANGED <<known, queuedAs, where, announced, batch, batchTimer, saved,
                 restartVars, crossed>>
-----------------------------------------------------------------------------
(* The process dies and initialize finds the entry.  Without a source it is dropped;
   with one a Torrent is made and its 'ready' awaited, which never comes, since only
   addTorrent and start call _ensureInitialized: after 30 s the entry is deleted,
   whoever has written it since. *)
Restart ==
  /\ restarts < MaxRestarts /\ restarts' = restarts + 1
  /\ known' = 0 /\ queuedAs' = 0 /\ where' = "none"
  /\ step' = [i \in Instance |-> IF step[i] = "none" THEN "none" ELSE "gone"]
  /\ run' = [i \in Instance |-> "idle"] /\ batch' = [i \in Instance |-> {}]
  /\ batchTimer' = [i \in Instance |-> FALSE]
  /\ removal' = [c \in Removal |-> IF removal[c].at = "none" THEN removal[c]
                                   ELSE [removal[c] EXCEPT !.at = "done"]]
  /\ resuming' = saved.source
  /\ saved' = IF saved.source THEN saved ELSE NoEntry
  /\ UNCHANGED <<announced, crossed>>
ResumeTimesOut ==
  /\ resuming /\ resuming' = FALSE
  /\ saved' = NoEntry
  /\ Crossing(known # 0)
  /\ UNCHANGED <<known, queuedAs, where, step, torrentVars, removal, restarts>>

EngineNext ==
  \/ PauseTorrent \/ SlotGranted \/ StartAll \/ StopAll \/ Restart \/ ResumeTimesOut
  \/ \E place \in {"active", "queued", "paused"} :
       \/ ResumeTorrent(place)
       \/ \E i \in Instance, source \in BOOLEAN : AddEnds(i, place, source)
  \/ \E i \in Instance :
       \/ AddTorrent(i) \/ TorrentReady(i) \/ BatchTimeout(i) \/ TorrentEvent(i)
       \/ \E p \in EPiece : PieceVerified(i, p)
  \/ \E c \in Removal :
       RemoveTorrent(c) \/ TorrentStopped(c) \/ RemovalSaved(c) \/ TorrentDestroyed(c)

EngineSpec == EngineInit /\ [][EngineNext]_engineVars
-----------------------------------------------------------------------------
(* Type invariant. *)
EngineTypeOK ==
  /\ known \in {0} \union Instance /\ queuedAs \in {0} \union Instance
  /\ where \in {"none", "active", "queued", "paused"}
  /\ step \in [Instance -> {"none", "new", "refused", "listed", "in", "orphan", "gone"}]
  /\ run \in [Instance -> {"idle", "running", "stopped"}]
  /\ announced \in [Instance -> SUBSET EPiece] /\ batch \in [Instance -> SUBSET EPiece]
  /\ batchTimer \in [Instance -> BOOLEAN] /\ crossed \in BOOLEAN
  /\ saved \in [of : {0} \union Instance, source : BOOLEAN, pieces : SUBSET EPiece, exists : BOOLEAN]
  /\ removal \in [Removal -> [of : {0} \union Instance,
                              at : {"none", "stop", "flush", "destroy", "done"}]]
  /\ resuming \in BOOLEAN /\ restarts \in 0..MaxRestarts

(* A piece that the torrent announced is in the entry that was saved for it, or in a
   batch with a timer that will write it, until a removal deletes the entry.  So an entry
   that a restart finds lacks fewer pieces than are written at once, whatever timers of
   removed torrents have added to it. *)
Forgotten(i) ==
  \E c \in Removal : removal[c].of = i /\ removal[c].at \in {"flush", "destroy", "done"}
PiecesSaved ==
  ~crossed =>
    /\ known # 0 /\ step[known] = "in" /\ ~Forgotten(known) =>
         /\ saved.of = known
         /\ announced[known] \subseteq saved.pieces \union batch[known]
         /\ batch[known] # {} => batchTimer[known]
    /\ saved.of # 0 => Cardinality(announced[saved.of] \ saved.pieces) < BatchSize

(* The map, the queue, the entry and what runs are about the same torrent, while it is
   being removed too: a torrent that left the engine does not run (or is about to be
   stopped), holds no place in the queue and is not saved with a source.  Unless two calls
   crossed: a removal that was overtaken by another one and by a new torrent, a
   removal while addTorrent awaited Kafka, startAll then, or a restore that timed out
   under a torrent that was added meanwhile. *)
OneTorrent ==
  ~crossed =>
    /\ queuedAs \in {0, known}
    /\ \A i \in Instance :
         run[i] = "running" =>
           i = known \/ \E c \in Removal : removal[c] = [of |-> i, at |-> "destroy"]
    /\ saved.source /\ ~resuming => known # 0
=============================================================================
