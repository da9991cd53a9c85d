---------------------------- MODULE QueueManager ----------------------------
(***************************************************************************)
(* queueManager.js: which torrents of an engine hold one of the            *)
(* maxConcurrent download slots.  The class keeps the infoHash -> Torrent  *)
(* maps active, paused and completed and the sorted array queue; a Map     *)
(* remembers insertion order and setMaxConcurrent relies on it, so active  *)
(* is a sequence here.  Every method runs to its end without an await, so  *)
(* a method is a step.                                                     *)
(*                                                                         *)
(* The module is the class alone, under any calls: completion events are   *)
(* handled although no Torrent emits them (see README).  The limit can     *)
(* also be changed from outside, by engine.updateSettings.                 *)
(***************************************************************************)
EXTENDS Integers, SequencesExt

CONSTANTS Torrent,
          MaxLimit, \* bound: highest concurrency limit asked for
          MaxTime   \* bound: the clock, in milliseconds that make a difference

ASSUME QueueAssumption == MaxLimit \in Nat \ {0} /\ MaxTime \in Nat

VARIABLES active, paused, completed, queue,
          maxConcurrent,
          now,  \* Date.now()
          moved \* the queue was reordered by hand since it was last sorted

queueVars == <<active, paused, completed, queue, maxConcurrent, now, moved>>

Priority == 1..3                       \* low, normal, high
High == 3
Time == 0..MaxTime
Entry == [t : Torrent, pri : Priority, at : Time]

QueueInit ==
  /\ active = <<>> /\ queue = <<>> /\ paused = {} /\ completed = {}
  /\ maxConcurrent \in 1..MaxLimit
  /\ now = 0 /\ moved = FALSE

Active == ToSet(active)
Queued == {queue[i].t : i \in DOMAIN queue}
Exists(t) == t \in Active \union paused \union completed \union Queued
CanActivate == Len(active) < maxConcurrent

(* active.delete, and findIndex with splice on the queue. *)
SlotOf(t) == CHOOSE i \in DOMAIN active : active[i] = t
Freed(t) == RemoveAt(active, SlotOf(t))
PlaceOf(t) == CHOOSE i \in DOMAIN queue : queue[i].t = t
Dropped(t) == RemoveAt(queue, PlaceOf(t))

-----------------------------------------------------------------------------
(* _sortQueue: higher priority first, then earlier addedAt; Array.sort is
   stable, so equal entries keep their order. *)
Before(a, b) == a.pri > b.pri \/ (a.pri = b.pri /\ a.at < b.at)
Rank(q, i) ==
  1 + Cardinality({j \in DOMAIN q :
        Before(q[j], q[i]) \/ (~Before(q[i], q[j]) /\ j < i)})
Sorted(q) == [r \in DOMAIN q |-> q[CHOOSE i \in DOMAIN q : Rank(q, i) = r]]

(* _processQueue: the head of the queue becomes active as long as there is a
   free slot. *)
Moves(act, q, max) ==
  IF max <= Len(act) THEN 0
  ELSE IF max - Len(act) <= Len(q) THEN max - Len(act) ELSE Len(q)
ProcessQueue(act, q, max) ==
  LET n == Moves(act, q, max)
  IN  /\ active' = act \o [i \in 1..n |-> q[i].t]
      /\ queue' = SubSeq(q, n + 1, Len(q))

(* add: an unknown torrent goes to the paused ones, to a slot or to the queue. *)
Add(t, pri, startPaused) ==
  /\ ~Exists(t)
  /\ \/ /\ startPaused
        /\ paused' = paused \union {t}
        /\ UNCHANGED <<active, queue, moved>>
     \/ /\ ~startPaused /\ CanActivate
        /\ active' = Append(active, t)
        /\ UNCHANGED <<paused, queue, moved>>
     \/ /\ ~startPaused /\ ~CanActivate
        /\ queue' = Sorted(Append(queue, [t |-> t, pri |-> pri, at |-> now]))
        /\ moved' = FALSE
        /\ UNCHANGED <<active, paused>>
  /\ UNCHANGED <<completed, maxConcurrent, now>>

(* remove: from wherever the torrent is; a slot it held is used again. *)
RemoveIdleSlot(t) ==                                             \* mutant
  /\ Exists(t)
  /\ active' = IF t \in Active THEN Freed(t) ELSE active
  /\ queue' = IF t \in Queued THEN Dropped(t) ELSE queue
  /\ paused' = paused \ {t} /\ completed' = completed \ {t}
  /\ UNCHANGED <<maxConcurrent, now, moved>>
RemoveKnown(t) ==
  /\ Exists(t)
  /\ IF t \in Active
     THEN ProcessQueue(Freed(t), queue, maxConcurrent)
     ELSE /\ queue' = IF t \in Queued THEN Dropped(t) ELSE queue
          /\ UNCHANGED active
  /\ paused' = paused \ {t}
  /\ completed' = completed \ {t}
  /\ UNCHANGED <<maxConcurrent, now, moved>>

(* start on a paused torrent: a free slot, or the queue with high priority. *)
StartFullHouse(t) ==                                             \* mutant
  /\ t \in paused
  /\ paused' = paused \ {t}
  /\ active' = Append(active, t)
  /\ UNCHANGED <<completed, queue, maxConcurrent, now, moved>>
StartPaused(t) ==
  /\ t \in paused
  /\ paused' = paused \ {t}
  /\ \/ /\ CanActivate
        /\ active' = Append(active, t)
        /\ UNCHANGED <<queue, moved>>
     \/ /\ ~CanActivate
        /\ queue' = Sorted(<<[t |-> t, pri |-> High, at |-> now]>> \o queue)
        /\ moved' = FALSE
        /\ UNCHANGED active
  /\ UNCHANGED <<completed, maxConcurrent, now>>

(* start on a queued torrent: high priority, a new addedAt, then the slots. *)
Reprioritised(t, pri, at) ==
  [i \in DOMAIN queue |->
     IF queue[i].t = t THEN [t |-> t, pri |-> pri, at |-> at] ELSE queue[i]]
StartQueued(t) ==
  /\ t \in Queued
  /\ ProcessQueue(active, Sorted(Reprioritised(t, High, now)), maxConcurrent)
  /\ moved' = FALSE
  /\ UNCHANGED <<paused, completed, maxConcurrent, now>>

(* pause frees the slot and gives it to the head of the queue. *)
PauseKeepsSlot(t) ==                                             \* mutant
  /\ t \in Active
  /\ paused' = paused \union {t}
  /\ ProcessQueue(active, queue, maxConcurrent)
  /\ UNCHANGED <<completed, maxConcurrent, now, moved>>
Pause(t) ==
  /\ t \in Active
  /\ paused' = paused \union {t}
  /\ ProcessQueue(Freed(t), queue, maxConcurrent)
  /\ UNCHANGED <<completed, maxConcurrent, now, moved>>

(* setMaxConcurrent: a higher limit fills the new slots; a lower one pauses the
   torrents that became active last. *)
SetMaxConcurrent(max) ==
  /\ max >= 1
  /\ maxConcurrent' = max
  /\ IF max > maxConcurrent
     THEN ProcessQueue(active, queue, max) /\ UNCHANGED paused
     ELSE /\ IF max < maxConcurrent /\ Len(active) > max
             THEN /\ active' = SubSeq(active, 1, max)
                  /\ paused' = paused \union {active[i] : i \in (max + 1)..Len(active)}
             ELSE UNCHANGED <<active, paused>>
          /\ UNCHANGED queue
  /\ UNCHANGED <<completed, now, moved>>

(* engine.updateSettings assigns the field: no check of the sign, no processing
   of the queue, no pausing; 0 is ignored. *)
UpdateSettings(max) ==
  /\ max # 0
  /\ maxConcurrent' = max
  /\ UNCHANGED <<active, paused, completed, queue, now, moved>>

(* setPriority rejects unknown priorities and sorts when something changed. *)
SetAnyPriority(t, pri) ==                                        \* mutant
  /\ t \in Queued
  /\ queue' = Sorted([i \in DOMAIN queue |->
                        IF queue[i].t = t THEN [queue[i] EXCEPT !.pri = pri] ELSE queue[i]])
  /\ moved' = FALSE
  /\ UNCHANGED <<active, paused, completed, maxConcurrent, now>>
SetPriorityInPlace(t, pri) ==                                    \* mutant
  /\ pri \in Priority /\ t \in Queued
  /\ queue' = [i \in DOMAIN queue |->
                 IF queue[i].t = t THEN [queue[i] EXCEPT !.pri = pri] ELSE queue[i]]
  /\ UNCHANGED <<active, paused, completed, maxConcurrent, now, moved>>
SetPriority(t, pri) ==
  /\ pri \in Priority
  /\ \E i \in DOMAIN queue :
       /\ queue[i].t = t /\ queue[i].pri # pri
       /\ queue' = Sorted([queue EXCEPT ![i].pri = pri])
  /\ moved' = FALSE
  /\ UNCHANGED <<active, paused, completed, maxConcurrent, now>>

(* moveInQueue: by hand, without regard to the priorities. *)
MoveInQueue(t, position) ==
  /\ t \in Queued /\ position \in DOMAIN queue
  /\ queue' = InsertAt(Dropped(t), position, queue[PlaceOf(t)])
  /\ moved' = TRUE
  /\ UNCHANGED <<active, paused, completed, maxConcurrent, now>>

(* _onTorrentComplete, for an active torrent. *)
OnTorrentComplete(t) ==
  /\ t \in Active
  /\ completed' = completed \union {t}
  /\ ProcessQueue(Freed(t), queue, maxConcurrent)
  /\ UNCHANGED <<paused, maxConcurrent, now, moved>>

Cleanup ==
  /\ active' = <<>> /\ queue' = <<>> /\ paused' = {} /\ completed' = {}
  /\ moved' = FALSE
  /\ UNCHANGED <<maxConcurrent, now>>

(* The clock; two calls in the same millisecond get the same addedAt. *)
Clock ==
  /\ now < MaxTime
  /\ now' = now + 1
  /\ UNCHANGED <<active, paused, completed, queue, maxConcurrent, moved>>

QueueNext ==
  \/ \E t \in Torrent, pri \in Priority, startPaused \in BOOLEAN : Add(t, pri, startPaused)
  \/ \E t \in Torrent :
       \/ RemoveKnown(t) \/ StartPaused(t) \/ StartQueued(t) \/ Pause(t)
       \/ OnTorrentComplete(t)
  \/ \E t \in Torrent, pri \in 0..High : SetPriority(t, pri)
  \/ \E t \in Torrent, position \in 1..Len(queue) : MoveInQueue(t, position)
  \/ \E max \in 1..MaxLimit : SetMaxConcurrent(max)
  \/ \E max \in -1..MaxLimit : UpdateSettings(max)
  \/ Cleanup \/ Clock

QueueSpec == QueueInit /\ [][QueueNext]_queueVars
-----------------------------------------------------------------------------
(* Type invariant. *)
QueueTypeOK ==
  /\ active \in Seq(Torrent) /\ queue \in Seq(Entry)
  /\ paused \subseteq Torrent /\ completed \subseteq Torrent
  /\ maxConcurrent \in -1..MaxLimit
  /\ now \in Time /\ moved \in BOOLEAN

(* A torrent is in one place: one slot, the queue once, paused or completed.
   _exists, remove and getAll look the maps up one after the other and rely on
   it. *)
InOnePlace ==
  /\ IsInjective(active)
  /\ IsInjective([i \in DOMAIN queue |-> queue[i].t])
  /\ \A i, j \in 1..4 : i # j =>
       LET place == <<Active, paused, completed, Queued>>
       IN  place[i] \intersect place[j] = {}

(* No call takes a slot beyond the limit: after a lowered limit (which leaves
   more active torrents than slots when it comes from updateSettings) nothing is
   started until enough torrents have left. *)
NeverOverfills ==
  [][(\E t \in Torrent : t \in Active' /\ t \notin Active)
       => Len(active') <= maxConcurrent']_queueVars

(* A slot that comes free is used at once: no step takes a torrent out of its
   slot and leaves another waiting although there is room. *)
FreedSlotIsUsed ==
  [][(\E t \in Active : t \notin Active')
       => queue' = <<>> \/ Len(active') >= maxConcurrent']_queueVars

(* The head of the queue is the next to start: unless somebody moved an entry by
   hand, nobody waits behind a torrent of lower priority, or behind one of the
   same priority that asked later. *)
BestFirst ==
  ~moved => \A i, j \in DOMAIN queue : i < j => ~Before(queue[j], queue[i])
=============================================================================
