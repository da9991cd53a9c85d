--------------------------- MODULE ServiceProofs ----------------------------
(***************************************************************************)
(* Proofs about the engine's bookkeeping and the services beside it.       *)
(*                                                                         *)
(* EngineState: the engine's records of an infoHash agree, for any number  *)
(* of pieces, additions, removals and restarts, as long as no two calls    *)
(* crossed.  The order of removeTorrent carries it: a torrent leaves the   *)
(* queue first, and the entry is deleted before the map lets it go, so     *)
(* that whoever is off the map was removed by a call that is still seen.   *)
(*                                                                         *)
(* Telemetry: no accepted event vanishes, for any sizes of the buffer,     *)
(* numbers of events, batches on their way, producers and faults.  The     *)
(* argument needs to know which producer a batch belongs to (one that is   *)
(* not up yet has none on its way and nothing buffered), and that the      *)
(* offset a group comes back to is never ahead of what its member had      *)
(* handled.                                                                *)
(*                                                                         *)
(* Idempotency: retries of a request run its handler once, for any number  *)
(* of requests and of failed Redis calls.  What RunsOnce says of the key   *)
(* is what makes it inductive: whoever runs holds the key, and a kept      *)
(* answer is that of a request that was served.                            *)
(*                                                                         *)
(* The parts together: the specification of the run is each part's own, so *)
(* the types of the parts, proved beside each of them, hold of the whole.  *)
(***************************************************************************)
EXTENDS MC_Services, ContentProofs, NetworkProofs

ListedIsKnown == \A i \in Instance : Listening(i) => i = known \/ BeingRemoved(i)
OrphanWasRemoved == \A i \in Instance : step[i] = "orphan" => BeingRemoved(i)
BatchIsTimed ==
  \A i \in Instance : batch[i] \subseteq announced[i] /\ (batch[i] # {} => batchTimer[i])
QueuedHasPlace == queuedAs = 0 => where = "none"
RemovedIsUnqueued == \A i \in Instance : BeingRemoved(i) => queuedAs # i
(* A removal that has deleted the entry finds none when it empties the map. *)
DeletedFirst ==
  \A c \in Removal : removal[c].at = "flush" /\ saved.source /\ ~resuming =>
    known \notin {0, removal[c].of}

RecordsAgree == ListedIsKnown /\ RemovedIsUnqueued /\ DeletedFirst /\ OneTorrent
EngineInv == OrphanWasRemoved /\ BatchIsTimed /\ QueuedHasPlace /\ (~crossed => RecordsAgree)

(* The entry and the batches: a listening torrent's pieces are in its entry or its batch,
   a batch is never full, and the entry is that of the torrent in the map. *)
BatchIsSmall == \A i \in Instance : IsFiniteSet(batch[i]) /\ Cardinality(batch[i]) < BatchSize
EntryCovers ==
  saved.of # 0 /\ step[saved.of] = "in" =>
    announced[saved.of] \subseteq saved.pieces \union batch[saved.of]
LacksFew ==
  saved.of # 0 =>
    /\ IsFiniteSet(announced[saved.of] \ saved.pieces)
    /\ Cardinality(announced[saved.of] \ saved.pieces) < BatchSize
EntryIsKnown == known # 0 /\ step[known] = "in" /\ ~Forgotten(known) => saved.of = known
OfWasAdded == saved.of # 0 => step[saved.of] \in {"in", "gone"}
EntryInv == BatchIsSmall /\ OfWasAdded /\ (~crossed => EntryCovers /\ LacksFew /\ EntryIsKnown)

SavedEntry == [of : {0} \union Instance, source : BOOLEAN, pieces : SUBSET EPiece, exists : BOOLEAN]
Place == {"none", "active", "queued", "paused"}
-----------------------------------------------------------------------------
(* The engine starts with the types and with no torrent. *)
LEMMA EngineInitType == EngineInit => EngineTypeOK
<1> SUFFICES ASSUME EngineInit PROVE EngineTypeOK
  OBVIOUS
<1>1. restarts \in 0..MaxRestarts
  BY EngineAssumption DEF EngineInit
<1> QED BY <1>1 DEF EngineInit, EngineTypeOK, NoEntry

(* Every step of the engine keeps the types. *)
LEMMA EngineTypeStep == EngineTypeOK /\ [EngineNext]_engineVars => EngineTypeOK'
<1> SUFFICES ASSUME EngineTypeOK, [EngineNext]_engineVars PROVE EngineTypeOK'
  OBVIOUS
<1> USE DEF torrentVars, restartVars, engineVars, SavedEntry
<1>1. ASSUME NEW i \in Instance, AddTorrent(i) PROVE EngineTypeOK'
  BY <1>1 DEF AddTorrent, EngineTypeOK
<1>2. ASSUME NEW i \in Instance, TorrentReady(i) PROVE EngineTypeOK'
  BY <1>2 DEF TorrentReady, EngineTypeOK
<1>3. ASSUME NEW i \in Instance, NEW place \in Place, NEW source \in BOOLEAN,
             AddEnds(i, place, source)
      PROVE  EngineTypeOK'
  BY <1>3 DEF AddEnds, EngineTypeOK, Crossing
<1>4. ASSUME NEW i \in Instance, NEW p \in EPiece, PieceVerified(i, p) PROVE EngineTypeOK'
  <2>1. announced' \in [Instance -> SUBSET EPiece]
    BY <1>4 DEF PieceVerified, EngineTypeOK
  <2>2. batch' \in [Instance -> SUBSET EPiece]
    BY <1>4 DEF PieceVerified, EngineTypeOK
  <2>3. batchTimer' \in [Instance -> BOOLEAN]
    BY <1>4 DEF PieceVerified, EngineTypeOK
  <2>4. saved' \in SavedEntry
    BY <1>4 DEF PieceVerified, EngineTypeOK, SavedWith, Touched
  <2> QED BY <1>4, <2>1, <2>2, <2>3, <2>4 DEF PieceVerified, EngineTypeOK
<1>5. ASSUME NEW i \in Instance, BatchTimeout(i) PROVE EngineTypeOK'
  <2>1. saved' \in SavedEntry
    BY <1>5 DEF BatchTimeout, EngineTypeOK, SavedWith, Touched
  <2> QED BY <1>5, <2>1 DEF BatchTimeout, EngineTypeOK
<1>6. ASSUME NEW i \in Instance, TorrentEvent(i) PROVE EngineTypeOK'
  BY <1>6 DEF TorrentEvent, EngineTypeOK, Touched
<1>7. CASE PauseTorrent
  BY <1>7 DEF PauseTorrent, EngineTypeOK, Touched
<1>8. ASSUME NEW place \in Place, ResumeTorrent(place) PROVE EngineTypeOK'
  BY <1>8 DEF ResumeTorrent, EngineTypeOK, Touched
<1>9. CASE SlotGranted \/ StartAll \/ StopAll
  BY <1>9 DEF SlotGranted, StartAll, StopAll, EngineTypeOK
<1>10. ASSUME NEW c \in Removal, RemoveTorrent(c) PROVE EngineTypeOK'
  <2>1. saved' \in SavedEntry
    <3>1. saved' = saved \/ saved' = NoEntry
      BY <1>10 DEF RemoveTorrent, At
    <3>2. NoEntry \in SavedEntry
      BY DEF NoEntry
    <3> QED BY <3>1, <3>2 DEF EngineTypeOK
  <2>2. removal' \in [Removal -> [of : {0} \union Instance,
                                at : {"none", "stop", "flush", "destroy", "done"}]]
    BY <1>10 DEF RemoveTorrent, EngineTypeOK, At
  <2> QED BY <1>10, <2>1, <2>2 DEF RemoveTorrent, EngineTypeOK
<1>11. ASSUME NEW c \in Removal, TorrentStopped(c) PROVE EngineTypeOK'
  BY <1>11 DEF TorrentStopped, EngineTypeOK, NoEntry, At, Crossing
<1>12. ASSUME NEW c \in Removal, RemovalSaved(c) PROVE EngineTypeOK'
  BY <1>12 DEF RemovalSaved, EngineTypeOK, At, Crossing
<1>13. ASSUME NEW c \in Removal, TorrentDestroyed(c) PROVE EngineTypeOK'
  BY <1>13 DEF TorrentDestroyed, EngineTypeOK, At
<1>14. CASE Restart
  BY <1>14, EngineAssumption DEF Restart, EngineTypeOK, NoEntry
<1>15. CASE ResumeTimesOut
  BY <1>15 DEF ResumeTimesOut, EngineTypeOK, NoEntry, Crossing
<1>16. CASE UNCHANGED engineVars
  BY <1>16 DEF EngineTypeOK
<1> QED BY <1>1, <1>2, <1>3, <1>4, <1>5, <1>6, <1>7, <1>8, <1>9, <1>10, <1>11, <1>12, <1>13,
           <1>14, <1>15, <1>16 DEF EngineNext, Place

(* Every step keeps what ties the records together. *)
LEMMA AgreeStep ==
  ASSUME EngineTypeOK, EngineTypeOK', EngineInv, [EngineNext]_engineVars
  PROVE  EngineInv'
<1>0. 0 \notin Instance
  BY EngineAssumption DEF Instance
<1>a. ASSUME NEW i \in Instance, NEW place \in Place, NEW source \in BOOLEAN,
             AddEnds(i, place, source), ~crossed'
      PROVE  ~crossed /\ ~BeingRemoved(i) /\ announced[i] = {}
  BY <1>a DEF AddEnds, Crossing, EngineTypeOK
<1>b. ASSUME NEW c \in Removal, RemovalSaved(c)
      PROVE  \A i \in Instance : BeingRemoved(i)' <=> BeingRemoved(i)
  BY <1>b DEF RemovalSaved, At, BeingRemoved, EngineTypeOK
<1>c. ASSUME NEW i \in Instance, NEW place \in Place, NEW source \in BOOLEAN,
             AddEnds(i, place, source)
      PROVE  \A j \in Instance : BeingRemoved(j)' <=> BeingRemoved(j)
  BY <1>c DEF AddEnds, BeingRemoved
<1> USE <1>0 DEF engineVars, torrentVars, restartVars, EngineTypeOK, EngineInv, ListedIsKnown,
        OrphanWasRemoved, BatchIsTimed, QueuedHasPlace, RemovedIsUnqueued, DeletedFirst,
        RecordsAgree, OneTorrent, Listening, BeingRemoved, Crossing, Touched,
        SavedWith, NoEntry, At
<1>1. ASSUME NEW i \in Instance, AddTorrent(i) PROVE EngineInv'
  <2> USE <1>1 DEF AddTorrent
  <2>1. (OrphanWasRemoved /\ BatchIsTimed /\ QueuedHasPlace)'
    OBVIOUS
  <2>2. ~crossed' => (ListedIsKnown /\ RemovedIsUnqueued)'
    OBVIOUS
  <2>3. ~crossed' => DeletedFirst'
    OBVIOUS
  <2>4. OneTorrent'
    OBVIOUS
  <2> QED BY <2>1, <2>2, <2>3, <2>4
<1>2. ASSUME NEW i \in Instance, TorrentReady(i) PROVE EngineInv'
  <2> USE <1>2 DEF TorrentReady
  <2>1. (OrphanWasRemoved /\ BatchIsTimed /\ QueuedHasPlace)'
    OBVIOUS
  <2>2. ~crossed' => (ListedIsKnown /\ RemovedIsUnqueued)'
    OBVIOUS
  <2>3. ~crossed' => DeletedFirst'
    OBVIOUS
  <2>4. OneTorrent'
    OBVIOUS
  <2> QED BY <2>1, <2>2, <2>3, <2>4
<1>3. ASSUME NEW i \in Instance, NEW place \in Place, NEW source \in BOOLEAN,
             AddEnds(i, place, source)
      PROVE  EngineInv'
  <2>1. (OrphanWasRemoved /\ BatchIsTimed /\ QueuedHasPlace)'
    BY <1>3 DEF AddEnds
  <2> SUFFICES ASSUME ~crossed' PROVE RecordsAgree'
    BY <2>1
  <2>a. ~crossed /\ announced[i] = {} /\ UNCHANGED <<known, removal, resuming>>
    BY <1>3, <1>a DEF AddEnds
  <2>b. ~BeingRemoved(i) /\ i = known /\ step[i] = "listed"
    <3> HIDE DEF BeingRemoved
    <3>1. ~BeingRemoved(i)
      BY <1>3, <1>a
    <3>2. step[i] \in {"listed", "orphan"}
      BY <1>3 DEF AddEnds
    <3> QED BY <2>a, <3>1, <3>2
  <2>c. queuedAs' = (IF queuedAs = 0 THEN i ELSE queuedAs)
        /\ step' = [step EXCEPT ![i] = "in"]
    BY <1>3, <2>b DEF AddEnds
  <2>d. saved' = [of |-> i, source |-> source, pieces |-> {}, exists |-> TRUE]
    BY <1>3 DEF AddEnds
  <2>2. (ListedIsKnown /\ RemovedIsUnqueued)'
    BY <2>a, <2>b, <2>c
  <2>3. DeletedFirst'
    BY <2>a, <2>b, <2>d
  <2>4. OneTorrent'
    BY <1>3, <2>a, <2>b, <2>c DEF AddEnds
  <2> QED BY <2>1, <2>2, <2>3, <2>4
<1>4. ASSUME NEW i \in Instance, NEW p \in EPiece, PieceVerified(i, p) PROVE EngineInv'
  <2> USE <1>4 DEF PieceVerified
  <2>a. BatchIsTimed'
    <3>1. ASSUME NEW j \in Instance, j # i
          PROVE  (batch[j] \subseteq announced[j] /\ (batch[j] # {} => batchTimer[j]))'
      BY <3>1
    <3>2. (batch[i] \subseteq announced[i])'
      OBVIOUS
    <3>3. (batch[i] # {} => batchTimer[i])'
      <4>1. CASE Cardinality(batch[i]) + 1 >= BatchSize
        <5>1. batch'[i] = {}
          BY <4>1
        <5> QED BY <5>1
      <4>2. CASE ~(Cardinality(batch[i]) + 1 >= BatchSize)
        <5> HIDE DEF EngineInv, EngineTypeOK
        <5>0. batchTimer' = [batchTimer EXCEPT ![i] = ~(Cardinality(batch[i]) + 1 >= BatchSize)]
          BY Zenon
        <5>a. batchTimer \in [Instance -> BOOLEAN]
          BY Zenon DEF EngineTypeOK
        <5>1. batchTimer'[i]
          BY <4>2, <5>0, <5>a, Zenon
        <5> QED BY <5>1
      <4> QED BY <4>1, <4>2
    <3> QED BY <3>1, <3>2, <3>3
  <2>1. (OrphanWasRemoved /\ BatchIsTimed /\ QueuedHasPlace)'
    BY <2>a
  <2>2. ~crossed' => (ListedIsKnown /\ RemovedIsUnqueued)'
    OBVIOUS
  <2>3. ~crossed' => DeletedFirst'
    OBVIOUS
  <2>4. OneTorrent'
    OBVIOUS
  <2> QED BY <2>1, <2>2, <2>3, <2>4
<1>5. ASSUME NEW i \in Instance, BatchTimeout(i) PROVE EngineInv'
  <2> USE <1>5 DEF BatchTimeout
  <2>1. (OrphanWasRemoved /\ BatchIsTimed /\ QueuedHasPlace)'
    OBVIOUS
  <2>2. ~crossed' => (ListedIsKnown /\ RemovedIsUnqueued)'
    OBVIOUS
  <2>3. ~crossed' => DeletedFirst'
    OBVIOUS
  <2>4. OneTorrent'
    OBVIOUS
  <2> QED BY <2>1, <2>2, <2>3, <2>4
<1>6. ASSUME NEW i \in Instance, TorrentEvent(i) PROVE EngineInv'
  <2> USE <1>6 DEF TorrentEvent
  <2>1. (OrphanWasRemoved /\ BatchIsTimed /\ QueuedHasPlace)'
    OBVIOUS
  <2>2. ~crossed' => (ListedIsKnown /\ RemovedIsUnqueued)'
    OBVIOUS
  <2>3. ~crossed' => DeletedFirst'
    OBVIOUS
  <2>4. OneTorrent'
    OBVIOUS
  <2> QED BY <2>1, <2>2, <2>3, <2>4
<1>7. CASE PauseTorrent
  <2> USE <1>7 DEF PauseTorrent
  <2>1. (OrphanWasRemoved /\ BatchIsTimed /\ QueuedHasPlace)'
    OBVIOUS
  <2>2. ~crossed' => (ListedIsKnown /\ RemovedIsUnqueued)'
    OBVIOUS
  <2>3. ~crossed' => DeletedFirst'
    OBVIOUS
  <2>4. OneTorrent'
    OBVIOUS
  <2> QED BY <2>1, <2>2, <2>3, <2>4
<1>8. ASSUME NEW place \in Place, ResumeTorrent(place) PROVE EngineInv'
  <2> USE <1>8 DEF ResumeTorrent
  <2>1. (OrphanWasRemoved /\ BatchIsTimed /\ QueuedHasPlace)'
    OBVIOUS
  <2>2. ~crossed' => (ListedIsKnown /\ RemovedIsUnqueued)'
    OBVIOUS
  <2>3. ~crossed' => DeletedFirst'
    OBVIOUS
  <2>4. OneTorrent'
    OBVIOUS
  <2> QED BY <2>1, <2>2, <2>3, <2>4
<1>9. CASE SlotGranted
  <2> USE <1>9 DEF SlotGranted
  <2>1. (OrphanWasRemoved /\ BatchIsTimed /\ QueuedHasPlace)'
    OBVIOUS
  <2>2. ~crossed' => (ListedIsKnown /\ RemovedIsUnqueued)'
    OBVIOUS
  <2>3. ~crossed' => DeletedFirst'
    OBVIOUS
  <2>4. OneTorrent'
    OBVIOUS
  <2> QED BY <2>1, <2>2, <2>3, <2>4
<1>10. CASE StartAll
  <2> USE <1>10 DEF StartAll
  <2>1. (OrphanWasRemoved /\ BatchIsTimed /\ QueuedHasPlace)'
    OBVIOUS
  <2>2. ~crossed' => (ListedIsKnown /\ RemovedIsUnqueued)'
    OBVIOUS
  <2>3. ~crossed' => DeletedFirst'
    OBVIOUS
  <2>4. OneTorrent'
    OBVIOUS
  <2> QED BY <2>1, <2>2, <2>3, <2>4
<1>11. CASE StopAll
  <2> USE <1>11 DEF StopAll
  <2>1. (OrphanWasRemoved /\ BatchIsTimed /\ QueuedHasPlace)'
    OBVIOUS
  <2>2. ~crossed' => (ListedIsKnown /\ RemovedIsUnqueued)'
    OBVIOUS
  <2>3. ~crossed' => DeletedFirst'
    OBVIOUS
  <2>4. OneTorrent'
    OBVIOUS
  <2> QED BY <2>1, <2>2, <2>3, <2>4
<1>12. ASSUME NEW c \in Removal, RemoveTorrent(c) PROVE EngineInv'
  <2> USE <1>12 DEF RemoveTorrent
  <2>1. (OrphanWasRemoved /\ BatchIsTimed /\ QueuedHasPlace)'
    OBVIOUS
  <2>2. ~crossed' => (ListedIsKnown /\ RemovedIsUnqueued)'
    <3>. HIDE DEF EngineTypeOK, DeletedFirst, OneTorrent
    <3>1. /\ UNCHANGED <<known, step, crossed>> /\ queuedAs' = 0
          /\ \E mark \in {"flush", "stop"} :
               removal' = [removal EXCEPT ![c] = [of |-> known, at |-> mark]]
          /\ removal[c].at = "none"
      OBVIOUS
    <3>2. ASSUME NEW i \in Instance, BeingRemoved(i) PROVE BeingRemoved(i)'
      <4>1. PICK d \in Removal : removal[d].of = i /\ removal[d].at # "none"
        BY <3>2
      <4>2. d # c
        BY <3>1, <4>1
      <4>3. removal'[d] = removal[d]
        BY <3>1, <4>2
      <4>. QED BY <4>1, <4>3
    <3>. HIDE DEF BeingRemoved, RemoveTorrent
    <3>3. ~crossed' => ListedIsKnown'
      BY <3>1, <3>2
    <3>4. ~crossed' => RemovedIsUnqueued'
      BY <3>1
    <3>. QED BY <3>3, <3>4
  <2>3. ~crossed' => DeletedFirst'
    OBVIOUS
  <2>4. OneTorrent'
    OBVIOUS
  <2> QED BY <2>1, <2>2, <2>3, <2>4
<1>13. ASSUME NEW c \in Removal, TorrentStopped(c) PROVE EngineInv'
  <2> USE <1>13 DEF TorrentStopped
  <2>1. (OrphanWasRemoved /\ BatchIsTimed /\ QueuedHasPlace)'
    OBVIOUS
  <2>2. ~crossed' => (ListedIsKnown /\ RemovedIsUnqueued)'
    OBVIOUS
  <2>3. ~crossed' => DeletedFirst'
    OBVIOUS
  <2>4. OneTorrent'
    OBVIOUS
  <2> QED BY <2>1, <2>2, <2>3, <2>4
<1>14. ASSUME NEW c \in Removal, RemovalSaved(c) PROVE EngineInv'
  <2> USE <1>14 DEF RemovalSaved
  <2>a. ~crossed' => ~crossed /\ known \in {0, removal[c].of}
    OBVIOUS
  <2>b. removal[c].of \in Instance => BeingRemoved(removal[c].of)
    OBVIOUS
  <2>c. ~crossed' => queuedAs = 0
    BY <2>a, <2>b
  <2>1. (OrphanWasRemoved /\ BatchIsTimed /\ QueuedHasPlace)'
    OBVIOUS
  <2>2. ~crossed' => (ListedIsKnown /\ RemovedIsUnqueued)'
    BY <1>b, <2>a, <2>b, <2>c
  <2>3. ~crossed' => DeletedFirst'
    OBVIOUS
  <2>4. OneTorrent'
    BY <2>a, <2>c
  <2> QED BY <2>1, <2>2, <2>3, <2>4
<1>15. ASSUME NEW c \in Removal, TorrentDestroyed(c) PROVE EngineInv'
  <2> USE <1>15 DEF TorrentDestroyed
  <2>1. (OrphanWasRemoved /\ BatchIsTimed /\ QueuedHasPlace)'
    OBVIOUS
  <2>2. ~crossed' => (ListedIsKnown /\ RemovedIsUnqueued)'
    OBVIOUS
  <2>3. ~crossed' => DeletedFirst'
    OBVIOUS
  <2>4. OneTorrent'
    OBVIOUS
  <2> QED BY <2>1, <2>2, <2>3, <2>4
<1>16. CASE Restart
  <2> USE <1>16 DEF Restart
  <2>1. (OrphanWasRemoved /\ BatchIsTimed /\ QueuedHasPlace)'
    OBVIOUS
  <2>2. ~crossed' => (ListedIsKnown /\ RemovedIsUnqueued)'
    OBVIOUS
  <2>3. ~crossed' => DeletedFirst'
    OBVIOUS
  <2>4. OneTorrent'
    OBVIOUS
  <2> QED BY <2>1, <2>2, <2>3, <2>4
<1>17. CASE ResumeTimesOut
  <2> USE <1>17 DEF ResumeTimesOut
  <2>1. (OrphanWasRemoved /\ BatchIsTimed /\ QueuedHasPlace)'
    OBVIOUS
  <2>2. ~crossed' => (ListedIsKnown /\ RemovedIsUnqueued)'
    OBVIOUS
  <2>3. ~crossed' => DeletedFirst'
    OBVIOUS
  <2>4. OneTorrent'
    OBVIOUS
  <2> QED BY <2>1, <2>2, <2>3, <2>4
<1>18. CASE UNCHANGED engineVars
  BY <1>18
<1> HIDE DEF engineVars, EngineInv, EngineTypeOK
<1> QED BY <1>1, <1>2, <1>3, <1>4, <1>5, <1>6, <1>7, <1>8, <1>9, <1>10, <1>11, <1>12, <1>13,
           <1>14, <1>15, <1>16, <1>17, <1>18 DEF EngineNext, Place
-----------------------------------------------------------------------------
(* A part of a set smaller than a batch is smaller than a batch. *)
LEMMA FewerFacts ==
  ASSUME NEW S, NEW T, S \subseteq T, IsFiniteSet(T), Cardinality(T) < BatchSize, BatchSize \in Nat
  PROVE  IsFiniteSet(S) /\ Cardinality(S) < BatchSize
<1>1. IsFiniteSet(S) /\ Cardinality(S) <= Cardinality(T)
  BY FS_Subset
<1>2. Cardinality(S) \in Nat /\ Cardinality(T) \in Nat
  BY <1>1, FS_CardinalityType
<1>. QED BY <1>1, <1>2

(* Every step keeps what ties the entry to the announced pieces. *)
LEMMA EntryStep ==
  ASSUME EngineTypeOK, EngineTypeOK', EngineInv, EntryInv, [EngineNext]_engineVars
  PROVE  EntryInv'
<1>0. 0 \notin Instance /\ BatchSize \in Nat \ {0} /\ IsFiniteSet({}) /\ Cardinality({}) = 0
  BY EngineAssumption, FS_EmptySet DEF Instance
<1>1. /\ saved \in SavedEntry /\ saved' \in SavedEntry
      /\ batch \in [Instance -> SUBSET EPiece] /\ announced \in [Instance -> SUBSET EPiece]
      /\ removal \in [Removal -> [of : {0} \union Instance,
                                   at : {"none", "stop", "flush", "destroy", "done"}]]
      /\ step \in [Instance -> {"none", "new", "refused", "listed", "in", "orphan", "gone"}]
      /\ known \in {0} \union Instance
  BY DEF EngineTypeOK, SavedEntry
<1>2. /\ BatchIsSmall /\ OfWasAdded
      /\ ~crossed => EntryCovers /\ LacksFew /\ EntryIsKnown
      /\ \A i \in Instance : batch[i] \subseteq announced[i]
  BY DEF EntryInv, EngineInv, BatchIsTimed
(* Steps that leave the batches alone and do not take from the entry. *)
<1>4. ASSUME UNCHANGED <<announced, batch>>, ~crossed' => ~crossed,
             \/ saved'.of = 0
             \/ saved'.of = saved.of /\ saved.pieces \subseteq saved'.pieces,
             \A i \in Instance : step'[i] = "in" => step[i] = "in",
             \A i \in Instance : step[i] \in {"in", "gone"} => step'[i] \in {"in", "gone"}
      PROVE  BatchIsSmall' /\ OfWasAdded' /\ (~crossed' => EntryCovers' /\ LacksFew')
  <2>1. BatchIsSmall'
    BY <1>2, <1>4 DEF BatchIsSmall
  <2>2. saved'.of # 0 =>
          saved.of \in Instance /\ saved'.of = saved.of /\ saved.pieces \subseteq saved'.pieces
    BY <1>1, <1>4 DEF SavedEntry
  <2>3. OfWasAdded'
    BY <1>2, <1>4, <2>2 DEF OfWasAdded
  <2>. SUFFICES ASSUME ~crossed', saved'.of # 0 PROVE EntryCovers' /\ LacksFew'
    BY <2>1, <2>3 DEF EntryCovers, LacksFew
  <2>4. EntryCovers /\ LacksFew
    BY <1>2, <1>4
  <2>5. EntryCovers'
    <3>1. /\ saved.of \in Instance /\ saved'.of = saved.of /\ saved.pieces \subseteq saved'.pieces
          /\ announced' = announced /\ batch' = batch /\ saved.of # 0
      BY <1>4, <2>2
    <3>2. step'[saved.of] = "in" => step[saved.of] = "in"
      BY <1>4, <3>1
    <3>3. step[saved.of] = "in" => announced[saved.of] \subseteq saved.pieces \union batch[saved.of]
      BY <2>4, <3>1 DEF EntryCovers
    <3>. QED BY <3>1, <3>2, <3>3 DEF EntryCovers
  <2>6. LacksFew'
    <3>. DEFINE old == announced[saved.of] \ saved.pieces
                new == announced'[saved'.of] \ saved'.pieces
    <3>1. new \in SUBSET old /\ IsFiniteSet(old) /\ Cardinality(old) < BatchSize
      BY <1>4, <2>2, <2>4 DEF LacksFew
    <3>. HIDE DEF old
    <3>2. IsFiniteSet(new) /\ Cardinality(new) <= Cardinality(old)
      BY <3>1, FS_Subset
    <3>3. Cardinality(new) \in Nat /\ Cardinality(old) \in Nat
      BY <3>1, <3>2, FS_CardinalityType
    <3>4. Cardinality(new) < BatchSize
      BY <1>0, <3>1, <3>2, <3>3
    <3>. QED BY <3>2, <3>4 DEF LacksFew
  <2>. QED BY <2>5, <2>6
(* And those that do not change whose entry it is. *)
<1>5. ASSUME known' \in {0, known} \/ step'[known'] # "in", ~crossed' => ~crossed,
             saved'.of = saved.of,
             \A i \in Instance : step'[i] = "in" => step[i] = "in",
             \A c \in Removal : removal[c].at \in {"flush", "destroy", "done"} =>
               removal'[c].of = removal[c].of /\ removal'[c].at \in {"flush", "destroy", "done"}
      PROVE  ~crossed' => EntryIsKnown'
  BY <1>1, <1>2, <1>5 DEF EntryIsKnown, Forgotten
(* Both, for the steps that touch neither the entry's owner nor the removals. *)
<1>6. ASSUME UNCHANGED <<announced, batch, removal>>, ~crossed' => ~crossed,
             saved'.of = saved.of, saved.pieces \subseteq saved'.pieces,
             known' \in {0, known} \/ step'[known'] # "in",
             \A i \in Instance : step'[i] = "in" => step[i] = "in",
             \A i \in Instance : step[i] \in {"in", "gone"} => step'[i] \in {"in", "gone"}
      PROVE  EntryInv'
  <2>1. BatchIsSmall' /\ OfWasAdded' /\ (~crossed' => EntryCovers' /\ LacksFew')
    BY <1>4, <1>6
  <2>2. ~crossed' => EntryIsKnown'
    BY <1>5, <1>6
  <2>. QED BY <2>1, <2>2 DEF EntryInv
<1>7. ASSUME NEW i \in Instance, AddTorrent(i) \/ TorrentReady(i) PROVE EntryInv'
  <2>1. /\ step[i] \in {"none", "new"} /\ step' = [step EXCEPT ![i] = step'[i]]
        /\ step'[i] \in {"new", "listed", "refused"}
        /\ known' \in {known, i} /\ UNCHANGED <<announced, batch, saved, removal, crossed>>
    BY <1>1, <1>7 DEF AddTorrent, TorrentReady, torrentVars
  <2>. QED BY <1>1, <1>6, <2>1
<1>8. ASSUME NEW i \in Instance, NEW place \in Place, NEW source \in BOOLEAN,
             AddEnds(i, place, source)
      PROVE  EntryInv'
  <2>1. /\ step[i] \in {"listed", "orphan"}
        /\ step' = [step EXCEPT ![i] = IF @ = "listed" THEN "in" ELSE "gone"]
        /\ saved' = [of |-> i, source |-> source, pieces |-> {}, exists |-> TRUE]
        /\ UNCHANGED <<known, announced, batch, removal>>
        /\ crossed' = (crossed \/ (BeingRemoved(i) \/ announced[i] # {}))
    BY <1>8 DEF AddEnds, Crossing
  <2>2. BatchIsSmall' /\ OfWasAdded'
    BY <1>1, <1>2, <2>1 DEF BatchIsSmall, OfWasAdded
  <2>. SUFFICES ASSUME ~crossed' PROVE EntryCovers' /\ LacksFew' /\ EntryIsKnown'
    BY <2>2 DEF EntryInv
  <2>3. ~crossed /\ ~BeingRemoved(i) /\ announced[i] = {}
    BY <2>1 DEF EngineTypeOK
  <2>4. step[i] = "listed" /\ known = i
    BY <2>1, <2>3 DEF EngineInv, OrphanWasRemoved, RecordsAgree, ListedIsKnown, Listening
  <2>5. EntryCovers' /\ EntryIsKnown'
    BY <2>1, <2>3, <2>4 DEF EntryCovers, EntryIsKnown
  <2>6. announced'[saved'.of] \ saved'.pieces = {}
    BY <2>1, <2>3
  <2>. QED BY <1>0, <2>5, <2>6 DEF LacksFew
<1>9. ASSUME NEW i \in Instance, NEW p \in EPiece, PieceVerified(i, p) PROVE EntryInv'
  <2>. DEFINE full == Cardinality(batch[i]) + 1 >= BatchSize
              kept == batch[i] \union {p}
  <2>1. /\ step[i] \in {"listed", "in"}
        /\ announced' = [announced EXCEPT ![i] = @ \union {p}]
        /\ batch' = [batch EXCEPT ![i] = IF full THEN {} ELSE kept]
        /\ saved' = (IF full THEN SavedWith(kept) ELSE saved)
        /\ UNCHANGED <<known, step, removal, crossed>>
    BY <1>9 DEF PieceVerified, Listening
  <2>2. saved'.of = saved.of /\ saved'.pieces = IF full THEN saved.pieces \union kept ELSE saved.pieces
    BY <1>1, <2>1 DEF SavedWith, Touched, SavedEntry
  <2>3. ~full => IsFiniteSet(kept) /\ Cardinality(kept) < BatchSize
    <3>1. IsFiniteSet(batch[i]) /\ Cardinality(batch[i]) \in Nat
      BY <1>2, FS_CardinalityType DEF BatchIsSmall
    <3>2. IsFiniteSet(kept) /\ Cardinality(kept) \in {Cardinality(batch[i]), Cardinality(batch[i]) + 1}
      BY <3>1, FS_AddElement
    <3>. QED BY <1>0, <3>1, <3>2
  <2>. HIDE DEF full, kept
  <2>4. BatchIsSmall'
    BY <1>0, <1>1, <1>2, <2>1, <2>3 DEF BatchIsSmall
  <2>5. OfWasAdded'
    BY <1>2, <2>1, <2>2 DEF OfWasAdded
  <2>. SUFFICES ASSUME ~crossed' PROVE EntryCovers' /\ LacksFew' /\ EntryIsKnown'
    BY <2>4, <2>5 DEF EntryInv
  <2>6. EntryCovers /\ LacksFew /\ EntryIsKnown
    BY <1>2, <2>1
  <2>7. EntryIsKnown'
    BY <2>1, <2>2, <2>6 DEF EntryIsKnown, Forgotten
  <2>8. EntryCovers'
    BY <1>1, <2>1, <2>2, <2>6 DEF EntryCovers, kept
  <2>9. LacksFew'
    <3>1. CASE saved.of = i
      <4>1. step'[saved'.of] = "in" /\ saved'.of \in Instance
        BY <1>0, <1>2, <2>1, <2>2, <3>1 DEF OfWasAdded
      <4>2. announced'[saved'.of] \ saved'.pieces \subseteq batch'[saved'.of]
        BY <1>0, <2>8, <4>1 DEF EntryCovers
      <4>3. IsFiniteSet(batch'[saved'.of]) /\ Cardinality(batch'[saved'.of]) < BatchSize
        BY <2>4, <4>1 DEF BatchIsSmall
      <4>. QED BY <1>0, <4>2, <4>3, FewerFacts DEF LacksFew
    <3>2. CASE saved.of # i
      <4>1. saved.of # 0 => announced'[saved.of] = announced[saved.of]
        BY <1>1, <2>1, <3>2
      <4>2. saved.pieces \subseteq saved'.pieces
        BY <2>2
      <4>3. saved.of # 0 =>
              announced'[saved'.of] \ saved'.pieces \subseteq announced[saved.of] \ saved.pieces
        BY <2>2, <4>1, <4>2
      <4>. QED BY <1>0, <2>2, <2>6, <4>3, FewerFacts DEF LacksFew
    <3>. QED BY <3>1, <3>2
  <2>. QED BY <2>7, <2>8, <2>9
<1>10. ASSUME NEW i \in Instance, BatchTimeout(i) PROVE EntryInv'
  <2>1. /\ saved' = SavedWith(batch[i]) /\ batch' = [batch EXCEPT ![i] = {}]
        /\ UNCHANGED <<known, step, announced, removal, crossed>>
    BY <1>10 DEF BatchTimeout
  <2>2. saved'.of = saved.of /\ saved'.pieces = saved.pieces \union batch[i]
    BY <1>1, <2>1 DEF SavedWith, Touched, SavedEntry
  <2>3. BatchIsSmall' /\ OfWasAdded'
    BY <1>0, <1>1, <1>2, <2>1, <2>2 DEF BatchIsSmall, OfWasAdded
  <2>. SUFFICES ASSUME ~crossed' PROVE EntryCovers' /\ LacksFew' /\ EntryIsKnown'
    BY <2>3 DEF EntryInv
  <2>4. EntryCovers /\ LacksFew /\ EntryIsKnown
    BY <1>2, <2>1
  <2>5. EntryIsKnown'
    BY <2>1, <2>2, <2>4 DEF EntryIsKnown, Forgotten
  <2>6. EntryCovers'
    BY <1>1, <2>1, <2>2, <2>4 DEF EntryCovers
  <2>7. announced'[saved'.of] \ saved'.pieces \subseteq announced[saved.of] \ saved.pieces
    BY <2>1, <2>2
  <2>8. LacksFew'
    BY <1>0, <2>2, <2>4, <2>7, FewerFacts DEF LacksFew
  <2>. QED BY <2>5, <2>6, <2>8
<1>11. ASSUME \/ \E i \in Instance : TorrentEvent(i)
              \/ \E place \in Place : ResumeTorrent(place)
              \/ PauseTorrent \/ SlotGranted \/ StartAll \/ StopAll \/ UNCHANGED engineVars
       PROVE  EntryInv'
  <2>1. /\ UNCHANGED <<known, step, announced, batch, removal, crossed>>
        /\ saved' = saved \/ saved' = Touched(saved)
    BY <1>11 DEF TorrentEvent, ResumeTorrent, PauseTorrent, SlotGranted, StartAll, StopAll,
       engineVars, torrentVars
  <2>2. saved'.of = saved.of /\ saved'.pieces = saved.pieces
    BY <1>1, <2>1 DEF Touched, SavedEntry
  <2>. QED BY <1>6, <2>1, <2>2
<1>12. ASSUME NEW c \in Removal,
              RemoveTorrent(c) \/ TorrentStopped(c) \/ RemovalSaved(c) \/ TorrentDestroyed(c)
       PROVE  EntryInv'
  <2>1. /\ UNCHANGED <<announced, batch>> /\ (~crossed' => ~crossed)
        /\ saved' = saved \/ saved' = NoEntry
        /\ step' = step \/ TorrentDestroyed(c)
    <3>1. CASE RemoveTorrent(c)
      BY <3>1 DEF RemoveTorrent, torrentVars
    <3>2. CASE TorrentStopped(c)
      BY <3>2 DEF TorrentStopped, Crossing
    <3>3. CASE RemovalSaved(c)
      BY <3>3 DEF RemovalSaved, Crossing, torrentVars
    <3>4. CASE TorrentDestroyed(c)
      BY <3>4 DEF TorrentDestroyed
    <3>. QED BY <1>12, <3>1, <3>2, <3>3, <3>4
  <2>5. \A i \in Instance : step'[i] = step[i] \/ (step'[i] = "orphan" /\ step[i] = "listed")
                           \/ step'[i] = "gone"
    <3>1. ASSUME TorrentDestroyed(c), NEW i \in Instance
          PROVE  step'[i] = step[i] \/ (step'[i] = "orphan" /\ step[i] = "listed") \/ step'[i] = "gone"
      <4>1. step' = [step EXCEPT ![removal[c].of] =
                       IF step[removal[c].of] = "listed" THEN "orphan" ELSE "gone"]
        BY <3>1 DEF TorrentDestroyed
      <4>. QED BY <1>1, <4>1
    <3>. QED BY <2>1, <3>1
  <2>6. /\ \A i \in Instance : step'[i] = "in" => step[i] = "in"
        /\ \A i \in Instance : step[i] \in {"in", "gone"} => step'[i] \in {"in", "gone"}
    BY <2>5
  <2>2. saved'.of = 0 \/ (saved'.of = saved.of /\ saved.pieces \subseteq saved'.pieces)
    BY <2>1 DEF NoEntry
  <2>3. BatchIsSmall' /\ OfWasAdded' /\ (~crossed' => EntryCovers' /\ LacksFew')
    BY <1>4, <2>1, <2>2, <2>6
  <2>4. ~crossed' => EntryIsKnown'
    <3>1. CASE RemoveTorrent(c)
      <4>1. known' = known /\ step' = step /\ crossed' = crossed /\ removal[c].at = "none"
        BY <3>1 DEF RemoveTorrent
      <4>2. \/ removal' = [removal EXCEPT ![c] = [of |-> known, at |-> "flush"]]
            \/ removal' = [removal EXCEPT ![c] = [of |-> known, at |-> "stop"]] /\ saved' = saved
        BY <3>1 DEF RemoveTorrent, At
      <4>3. CASE removal' = [removal EXCEPT ![c] = [of |-> known, at |-> "flush"]]
        <5>1. removal'[c].of = known' /\ removal'[c].at = "flush"
          BY <1>1, <4>1, <4>3
        <5>. QED BY <5>1 DEF EntryIsKnown, Forgotten
      <4>4. CASE removal' = [removal EXCEPT ![c] = [of |-> known, at |-> "stop"]] /\ saved' = saved
        <5>1. \A d \in Removal : removal[d].at \in {"flush", "destroy", "done"} => removal'[d] = removal[d]
          BY <1>1, <4>1, <4>4
        <5>. QED BY <1>5, <4>1, <4>4, <5>1
      <4>. QED BY <4>2, <4>3, <4>4
    <3>2. CASE TorrentStopped(c)
      <4>1. /\ removal' = [removal EXCEPT ![c] = [of |-> removal[c].of, at |-> "flush"]]
            /\ known' = known /\ crossed' = (crossed \/ known \notin {0, removal[c].of})
        BY <3>2 DEF TorrentStopped, At, Crossing
      <4>2. removal'[c].of = removal[c].of /\ removal'[c].at = "flush"
        BY <1>1, <4>1
      <4>. QED BY <4>1, <4>2 DEF EntryIsKnown, Forgotten
    <3>3. CASE RemovalSaved(c)
      BY <3>3 DEF RemovalSaved, EntryIsKnown
    <3>4. CASE TorrentDestroyed(c)
      <4>1. /\ removal' = [removal EXCEPT ![c] = [of |-> removal[c].of, at |-> "done"]]
            /\ known' = known /\ saved' = saved
        BY <3>4 DEF TorrentDestroyed, At
      <4>2. \A d \in Removal : removal[d].at \in {"flush", "destroy", "done"} =>
              removal'[d].of = removal[d].of /\ removal'[d].at \in {"flush", "destroy", "done"}
        BY <1>1, <4>1
      <4>3. known' \in {0, known} /\ saved'.of = saved.of /\ (~crossed' => ~crossed)
        BY <2>1, <4>1
      <4>. QED BY <1>5, <2>6, <4>2, <4>3
    <3>. QED BY <1>12, <3>1, <3>2, <3>3, <3>4
  <2>. QED BY <2>3, <2>4 DEF EntryInv
<1>13. CASE Restart
  <2>1. /\ known' = 0 /\ announced' = announced /\ crossed' = crossed
        /\ step' = [i \in Instance |-> IF step[i] = "none" THEN "none" ELSE "gone"]
        /\ batch' = [i \in Instance |-> {}]
        /\ saved' \in {saved, NoEntry}
    BY <1>13 DEF Restart
  <2>2. BatchIsSmall'
    BY <1>0, <2>1 DEF BatchIsSmall
  <2>3. saved'.of # 0 => saved' = saved /\ saved.of \in Instance /\ step'[saved.of] = "gone"
    BY <1>1, <1>2, <2>1 DEF NoEntry, OfWasAdded, SavedEntry
  <2>4. OfWasAdded' /\ EntryCovers' /\ EntryIsKnown'
    BY <2>1, <2>3 DEF OfWasAdded, EntryCovers, EntryIsKnown
  <2>5. ~crossed' => LacksFew'
    BY <1>2, <2>1, <2>3 DEF LacksFew
  <2>. QED BY <2>2, <2>4, <2>5 DEF EntryInv
<1>14. CASE ResumeTimesOut
  <2>1. /\ UNCHANGED <<known, step, announced, batch, removal>> /\ saved' = NoEntry
        /\ crossed' = (crossed \/ known # 0)
    BY <1>14 DEF ResumeTimesOut, Crossing, torrentVars
  <2>2. BatchIsSmall' /\ OfWasAdded' /\ (~crossed' => EntryCovers' /\ LacksFew')
    BY <1>4, <2>1 DEF NoEntry
  <2>3. ~crossed' => EntryIsKnown'
    BY <2>1 DEF EntryIsKnown
  <2>. QED BY <2>2, <2>3 DEF EntryInv
<1>. QED
  BY <1>7, <1>8, <1>9, <1>10, <1>11, <1>12, <1>13, <1>14 DEF EngineNext, Place
-----------------------------------------------------------------------------
(* The type invariant holds in every state. *)
THEOREM EngineTypeCorrect == EngineSpec => []EngineTypeOK
BY EngineInitType, EngineTypeStep, PTL DEF EngineSpec

(* The types and the agreement, together: what the two theorems below use. *)
LEMMA EngineAgrees == EngineSpec => [](EngineTypeOK /\ EngineInv /\ EntryInv)
<1>1. EngineInit => EngineTypeOK /\ EngineInv /\ EntryInv
  <2> SUFFICES ASSUME EngineInit PROVE EngineInv /\ EntryInv
    BY EngineInitType
  <2>1. \A i \in Instance : ~Listening(i) /\ step[i] # "orphan" /\ ~BeingRemoved(i)
    BY DEF EngineInit, Listening, BeingRemoved
  <2>2. OrphanWasRemoved /\ BatchIsTimed /\ QueuedHasPlace
    BY <2>1 DEF EngineInit, OrphanWasRemoved, BatchIsTimed, QueuedHasPlace
  <2>3. ListedIsKnown /\ RemovedIsUnqueued /\ DeletedFirst
    BY <2>1 DEF EngineInit, ListedIsKnown, RemovedIsUnqueued, DeletedFirst
  <2>4. OneTorrent
    BY DEF EngineInit, OneTorrent, NoEntry
  <2>5. IsFiniteSet({}) /\ Cardinality({}) < BatchSize
    BY EngineAssumption, FS_EmptySet
  <2>6. EntryInv
    BY <2>5 DEF EngineInit, EntryInv, BatchIsSmall, OfWasAdded, EntryCovers, LacksFew, EntryIsKnown, NoEntry
  <2> QED BY <2>2, <2>3, <2>4, <2>6 DEF EngineInv, RecordsAgree
<1>2. EngineTypeOK /\ EngineInv /\ EntryInv /\ [EngineNext]_engineVars =>
        (EngineTypeOK /\ EngineInv /\ EntryInv)'
  BY EngineTypeStep, AgreeStep, EntryStep
<1> QED BY <1>1, <1>2, PTL DEF EngineSpec

(* The engine's map, its queue, the saved entry and what runs are about the same torrent
   (addTorrent, removeTorrent, the events of _setupTorrentEvents). *)
THEOREM EngineKeepsOneTorrent == EngineSpec => []OneTorrent
<1>1. EngineTypeOK /\ EngineInv => OneTorrent
  BY DEF EngineInv, RecordsAgree, OneTorrent
<1> QED BY <1>1, EngineAgrees, PTL

(* An announced piece is saved, or in a batch whose timer will save it, until a removal
   deletes the entry (_setupTorrentEvents, removeTorrent); and an entry that outlives its
   torrent lacks fewer of its pieces than are written at once. *)
THEOREM EngineSavesPieces == EngineSpec => []PiecesSaved
<1>1. ASSUME EngineTypeOK, EngineInv, EntryInv PROVE PiecesSaved
  <2>. SUFFICES ASSUME ~crossed PROVE PiecesSaved
    BY DEF PiecesSaved
  <2>1. EntryCovers /\ LacksFew /\ EntryIsKnown /\ BatchIsTimed /\ known \in {0} \union Instance
    BY <1>1 DEF EntryInv, EngineInv, EngineTypeOK
  <2>2. saved.of # 0 => Cardinality(announced[saved.of] \ saved.pieces) < BatchSize
    BY <2>1 DEF LacksFew
  <2>3. ASSUME known # 0, step[known] = "in", ~Forgotten(known)
        PROVE  /\ saved.of = known
               /\ announced[known] \subseteq saved.pieces \union batch[known]
               /\ batch[known] # {} => batchTimer[known]
    BY <2>1, <2>3 DEF EntryIsKnown, EntryCovers, BatchIsTimed
  <2>. QED BY <2>2, <2>3 DEF PiecesSaved
<1> QED BY <1>1, EngineAgrees, PTL

-----------------------------------------------------------------------------
(* The telemetry events. *)

Flying(e) == \E i \in DOMAIN flights : e \in EventsIn(flights[i].events)
Unread(e) == \E n \in DOMAIN topic : n > (IF joined THEN position ELSE committed) /\ e = topic[n]
Held(e) == e \in EventsIn(buffer) \/ e \in given \/ e \in lost \/ Unread(e) \/ Flying(e)

NumbersOK == accepted \in Nat /\ position \in Nat /\ committed \in Nat /\ instance \in Nat
LogsOK == buffer \in Seq(Nat) /\ topic \in Seq(Nat)
FlightsOK ==
  /\ DOMAIN flights \subseteq 1..MaxFlights
  /\ \A i \in DOMAIN flights : /\ flights[i].events \in Seq(Nat)
                               /\ flights[i].by \in Nat /\ flights[i].by <= instance
(* A producer that is not up has nothing buffered and nothing on its way. *)
UpBeforeEvents ==
  /\ link \in {"none", "connecting", "broken"} => buffer = <<>>
  /\ link \in {"connecting", "broken"} => \A i \in DOMAIN flights : flights[i].by # instance
LastIsFlying == lastFlight # 0 => link = "closing"
(* The member is at most one event ahead of what it committed. *)
OffsetsFollow ==
  /\ position <= Len(topic) /\ committed <= Len(topic)
  /\ joined => committed <= position
  /\ handling # 0 => /\ joined /\ handling = position + 1 /\ handling \in DOMAIN topic
                     /\ topic[handling] \in given

TelemetryInv == /\ NumbersOK /\ LogsOK /\ FlightsOK /\ UpBeforeEvents /\ LastIsFlying
        /\ OffsetsFollow /\ \A e \in 1..accepted : Held(e)
-----------------------------------------------------------------------------
(* What the concatenation of two logs holds. *)
LEMMA EventsInConcat ==
  ASSUME NEW s \in Seq(Nat), NEW t \in Seq(Nat)
  PROVE  EventsIn(s \o t) = EventsIn(s) \union EventsIn(t)
<1>1. DOMAIN s = 1..Len(s) /\ DOMAIN t = 1..Len(t) /\ DOMAIN (s \o t) = 1..Len(s) + Len(t)
  OBVIOUS
<1>2. Len(s) \in Nat /\ Len(t) \in Nat
  OBVIOUS
<1>3. \A n \in 1..Len(s) : (s \o t)[n] = s[n]
  OBVIOUS
<1>4. \A n \in 1..Len(t) : (s \o t)[Len(s) + n] = t[n] /\ Len(s) + n \in 1..Len(s) + Len(t)
  BY <1>2
<1>5. \A n \in 1..Len(s) + Len(t) :
        n \in 1..Len(s) \/ \E m \in 1..Len(t) : n = Len(s) + m
  <2>1. ASSUME NEW n \in 1..Len(s) + Len(t), n \notin 1..Len(s)
        PROVE  n - Len(s) \in 1..Len(t) /\ n = Len(s) + (n - Len(s))
    BY <1>2, <2>1
  <2> QED BY <2>1
<1>6. EventsIn(s) \subseteq EventsIn(s \o t)
  BY <1>1, <1>2, <1>3 DEF EventsIn
<1>7. EventsIn(t) \subseteq EventsIn(s \o t)
  BY <1>1, <1>4 DEF EventsIn
<1>8. EventsIn(s \o t) \subseteq EventsIn(s) \union EventsIn(t)
  <2> SUFFICES ASSUME NEW n \in 1..Len(s) + Len(t)
               PROVE  (s \o t)[n] \in EventsIn(s) \union EventsIn(t)
    BY <1>1 DEF EventsIn
  <2>1. CASE n \in 1..Len(s)
    <3>1. s[n] \in EventsIn(s)
      BY <1>1, <2>1 DEF EventsIn
    <3> QED BY <3>1, <1>3, <2>1
  <2>2. CASE \E m \in 1..Len(t) : n = Len(s) + m
    <3>1. PICK m \in 1..Len(t) : n = Len(s) + m
      BY <2>2
    <3>2. t[m] \in EventsIn(t)
      BY <1>1 DEF EventsIn
    <3> QED BY <3>1, <3>2, <1>4
  <2> QED BY <1>5, <2>1, <2>2
<1> QED BY <1>6, <1>7, <1>8

(* What a log holds behind one more event. *)
LEMMA EventsInAppend ==
  ASSUME NEW s \in Seq(Nat), NEW e \in Nat
  PROVE  EventsIn(Append(s, e)) = EventsIn(s) \union {e}
<1>1. DOMAIN s = 1..Len(s) /\ DOMAIN Append(s, e) = 1..Len(s) + 1 /\ Len(s) \in Nat
  OBVIOUS
<1>2. \A n \in 1..Len(s) : Append(s, e)[n] = s[n]
  OBVIOUS
<1>3. Append(s, e)[Len(s) + 1] = e
  OBVIOUS
<1>4. \A n \in 1..Len(s) + 1 : n \in 1..Len(s) \/ n = Len(s) + 1
  BY <1>1
<1>5. EventsIn(Append(s, e)) \subseteq EventsIn(s) \union {e}
  BY <1>1, <1>2, <1>3, <1>4 DEF EventsIn
<1>6. EventsIn(s) \union {e} \subseteq EventsIn(Append(s, e))
  BY <1>1, <1>2, <1>3 DEF EventsIn
<1> QED BY <1>5, <1>6

(* What Held says is what NothingVanishes says. *)
LEMMA HeldIsNothingVanishes ==
  topic \in Seq(Nat) /\ position \in Nat /\ committed \in Nat /\ (\A e \in 1..accepted : Held(e))
    => NothingVanishes
<1> SUFFICES ASSUME topic \in Seq(Nat), position \in Nat, committed \in Nat,
                    NEW e \in 1..accepted, Held(e)
             PROVE  \/ e \in EventsIn(buffer) \union given \union lost
                               \union {topic[n] : n \in (IF joined THEN position ELSE committed)
                                                        + 1..Len(topic)}
                    \/ Flying(e)
  BY DEF NothingVanishes, Flying
<1>1. CASE Unread(e)
  <2>1. PICK n \in DOMAIN topic :
          n > (IF joined THEN position ELSE committed) /\ e = topic[n]
    BY <1>1 DEF Unread
  <2>2. n \in (IF joined THEN position ELSE committed) + 1..Len(topic)
    BY <2>1
  <2> QED BY <2>1, <2>2
<1> QED BY <1>1 DEF Held

(* The producer starts with nothing accepted. *)
LEMMA TelemetryStart == TelemetryInit => TelemetryInv
<1> SUFFICES ASSUME TelemetryInit PROVE TelemetryInv
  OBVIOUS
<1>1. NumbersOK /\ LogsOK
  BY DEF TelemetryInit, NumbersOK, LogsOK
<1>2. FlightsOK /\ UpBeforeEvents /\ LastIsFlying
  BY DEF TelemetryInit, FlightsOK, UpBeforeEvents, LastIsFlying
<1>3. OffsetsFollow /\ \A e \in 1..accepted : Held(e)
  BY DEF TelemetryInit, OffsetsFollow
<1> QED BY <1>1, <1>2, <1>3 DEF TelemetryInv

(* A flush moves the buffer into a batch of its own. *)
LEMMA FlushMoves ==
  ASSUME FlightsOK, NumbersOK, NEW events \in Seq(Nat), FlushBuffer(events)
  PROVE  /\ FreeFlight \in 1..MaxFlights /\ FreeFlight \notin DOMAIN flights
         /\ DOMAIN flights' = DOMAIN flights \union {FreeFlight}
         /\ flights'[FreeFlight] = [by |-> instance, events |-> events]
         /\ \A i \in DOMAIN flights : flights'[i] = flights[i]
         /\ buffer' = <<>>
<1>1. \E i \in 1..MaxFlights : i \notin DOMAIN flights
  BY DEF FlushBuffer, FlightsOK
<1>2. FreeFlight \in 1..MaxFlights /\ FreeFlight \notin DOMAIN flights
  BY <1>1 DEF FreeFlight
<1>3. flights' = [i \in DOMAIN flights \union {FreeFlight} |->
                   IF i = FreeFlight THEN [by |-> instance, events |-> events]
                   ELSE flights[i]]
      /\ buffer' = <<>>
  BY DEF FlushBuffer
<1> HIDE DEF FreeFlight
<1> QED BY <1>2, <1>3
(* A step that touches neither log, nor what is known of an event, keeps it held. *)
LEMMA HeldStays ==
  ASSUME UNCHANGED <<buffer, flights, topic, joined, position, committed>>,
         given \subseteq given', lost \subseteq lost', NEW e, Held(e)
  PROVE  Held(e)'
BY DEF Held, Unread, Flying

(* A flush keeps the batches well-formed, and goes when the producer is up. *)
LEMMA FlushFits ==
  ASSUME FlightsOK, NumbersOK, LogsOK, NEW events \in Seq(Nat), FlushBuffer(events),
         UNCHANGED <<topic, instance>>
  PROVE  FlightsOK' /\ LogsOK'
<1>0. /\ FreeFlight \in 1..MaxFlights
      /\ DOMAIN flights' = DOMAIN flights \union {FreeFlight}
      /\ flights'[FreeFlight] = [by |-> instance, events |-> events]
      /\ \A i \in DOMAIN flights : flights'[i] = flights[i]
      /\ buffer' = <<>>
  BY FlushMoves
<1> HIDE DEF FreeFlight
<1>1. FlightsOK'
  BY <1>0 DEF FlightsOK, NumbersOK
<1>2. LogsOK'
  BY <1>0 DEF LogsOK
<1> QED BY <1>1, <1>2

(* What was buffered, or goes with it, is on its way after a flush. *)
LEMMA FlushKeeps ==
  ASSUME FlightsOK, NumbersOK, NEW events \in Seq(Nat), FlushBuffer(events),
         EventsIn(buffer) \subseteq EventsIn(events),
         UNCHANGED <<topic, joined, position, committed, given, lost>>,
         NEW e, Held(e) \/ e \in EventsIn(events)
  PROVE  Held(e)'
<1>0. /\ DOMAIN flights' = DOMAIN flights \union {FreeFlight}
      /\ flights'[FreeFlight] = [by |-> instance, events |-> events]
      /\ \A i \in DOMAIN flights : flights'[i] = flights[i]
  BY FlushMoves
<1>1. e \in EventsIn(events) => Flying(e)'
  <2>1. EventsIn(flights'[FreeFlight].events) = EventsIn(events)
    <3> HIDE DEF FreeFlight
    <3>1. flights'[FreeFlight].events = events
      BY <1>0
    <3> QED BY <3>1
  <2>2. Flying(e)' <=> \E i \in DOMAIN flights' : e \in EventsIn(flights'[i].events)
    BY DEF Flying, EventsIn
  <2> HIDE DEF FreeFlight
  <2> QED BY <1>0, <2>1, <2>2
<1>2. Flying(e) => Flying(e)'
  BY <1>0 DEF Flying, EventsIn
<1>3. Unread(e) => Unread(e)'
  BY DEF Unread
<1> QED BY <1>1, <1>2, <1>3 DEF Held

(* Every step of the producer, the broker and the consumer keeps the invariant. *)
LEMMA TelemetryKeeps == TelemetryInv /\ [TelemetryNext]_telemetryVars => TelemetryInv'
<1> SUFFICES ASSUME TelemetryInv, [TelemetryNext]_telemetryVars PROVE TelemetryInv'
  OBVIOUS
<1>0. /\ NumbersOK /\ LogsOK /\ FlightsOK /\ UpBeforeEvents /\ LastIsFlying /\ OffsetsFollow
      /\ \A e \in 1..accepted : Held(e)
  BY DEF TelemetryInv
<1>1. CASE GetProducer
  <2>1. (NumbersOK /\ LogsOK /\ OffsetsFollow /\ LastIsFlying)'
    BY <1>0, <1>1 DEF GetProducer, NumbersOK, LogsOK, OffsetsFollow, LastIsFlying, consumerVars
  <2>2. FlightsOK' /\ UpBeforeEvents'
    BY <1>0, <1>1 DEF GetProducer, NumbersOK, FlightsOK, UpBeforeEvents
  <2>3. buffer' = buffer
    BY <1>0, <1>1 DEF GetProducer, UpBeforeEvents
  <2>4. \A e \in 1..accepted' : Held(e)'
    BY <1>0, <1>1, <2>3, HeldStays DEF GetProducer, consumerVars
  <2> QED BY <2>1, <2>2, <2>4 DEF TelemetryInv
<1>2. ASSUME NEW ok \in BOOLEAN, Connect(ok) PROVE TelemetryInv'
  <2>1. (NumbersOK /\ LogsOK /\ OffsetsFollow /\ FlightsOK /\ LastIsFlying)'
    BY <1>0, <1>2 DEF Connect, NumbersOK, LogsOK, OffsetsFollow, FlightsOK, LastIsFlying,
                      consumerVars
  <2>2. UpBeforeEvents'
    BY <1>0, <1>2 DEF Connect, UpBeforeEvents
  <2>3. \A e \in 1..accepted' : Held(e)'
    BY <1>0, <1>2, HeldStays DEF Connect, consumerVars
  <2> QED BY <2>1, <2>2, <2>3 DEF TelemetryInv
<1>3. CASE SendProgress
  <2>0. accepted' = accepted + 1 /\ accepted \in Nat /\ accepted + 1 \in Nat
        /\ UNCHANGED <<topic, joined, position, committed, given, lost>>
    BY <1>0, <1>3 DEF SendProgress, NumbersOK, consumerVars
  <2>1. (NumbersOK /\ OffsetsFollow /\ LastIsFlying)'
    BY <1>0, <1>3, <2>0 DEF SendProgress, NumbersOK, OffsetsFollow, LastIsFlying, consumerVars
  <2>2. Append(buffer, accepted + 1) \in Seq(Nat)
        /\ EventsIn(Append(buffer, accepted + 1)) = EventsIn(buffer) \union {accepted + 1}
    BY <1>0, <2>0, EventsInAppend DEF LogsOK
  <2>3. CASE FlushBuffer(Append(buffer, accepted + 1))
    <3>1. LogsOK' /\ FlightsOK'
      BY <1>0, <1>3, <2>0, <2>2, <2>3, FlushFits DEF SendProgress
    <3>2. UpBeforeEvents'
      BY <1>3 DEF SendProgress, UpBeforeEvents
    <3>3. \A e \in 1..accepted' : Held(e)'
      <4> SUFFICES ASSUME NEW e \in 1..accepted' PROVE Held(e)'
        OBVIOUS
      <4>1. e \in 1..accepted \/ e = accepted + 1
        BY <2>0
      <4> QED BY <1>0, <2>0, <2>2, <2>3, <4>1, FlushKeeps
    <3> QED BY <2>1, <3>1, <3>2, <3>3 DEF TelemetryInv
  <2>4. CASE buffer' = Append(buffer, accepted + 1) /\ UNCHANGED flights
    <3>1. LogsOK' /\ FlightsOK' /\ UpBeforeEvents'
      BY <1>0, <1>3, <2>0, <2>2, <2>4 DEF SendProgress, LogsOK, FlightsOK, UpBeforeEvents
    <3>2. \A e \in 1..accepted' : Held(e)'
      <4> SUFFICES ASSUME NEW e \in 1..accepted' PROVE Held(e)'
        OBVIOUS
      <4>1. e \in 1..accepted \/ e = accepted + 1
        BY <2>0
      <4>2. EventsIn(buffer)' = EventsIn(buffer) \union {accepted + 1}
        BY <2>2, <2>4 DEF EventsIn
      <4>3. Unread(e) => Unread(e)'
        BY <2>0 DEF Unread
      <4>4. Flying(e) => Flying(e)'
        BY <2>4 DEF Flying
      <4> QED BY <1>0, <2>0, <4>1, <4>2, <4>3, <4>4 DEF Held
    <3> QED BY <2>1, <3>1, <3>2 DEF TelemetryInv
  <2> QED BY <1>3, <2>3, <2>4 DEF SendProgress
<1>4. CASE FlushInterval
  <2>1. FlushBuffer(buffer) /\ link = "up" /\ UNCHANGED accepted
        /\ UNCHANGED <<topic, joined, position, committed, given, lost>>
    BY <1>4 DEF FlushInterval, consumerVars
  <2>2. (NumbersOK /\ OffsetsFollow /\ LastIsFlying)'
    BY <1>0, <1>4 DEF FlushInterval, NumbersOK, OffsetsFollow, LastIsFlying, consumerVars
  <2>3. LogsOK' /\ FlightsOK' /\ UpBeforeEvents'
    <3>1. LogsOK' /\ FlightsOK'
      BY <1>0, <1>4, <2>1, FlushFits DEF FlushInterval, LogsOK
    <3>2. UpBeforeEvents'
      BY <1>4 DEF FlushInterval, UpBeforeEvents
    <3> QED BY <3>1, <3>2
  <2>4. \A e \in 1..accepted' : Held(e)'
    BY <1>0, <2>1, FlushKeeps DEF LogsOK
  <2> QED BY <2>2, <2>3, <2>4 DEF TelemetryInv
<1>5. CASE CloseProducer
  <2>1. UNCHANGED <<topic, joined, position, committed, given, lost, accepted, handling>>
        /\ UNCHANGED instance
    BY <1>5 DEF CloseProducer, consumerVars
  <2>2. (NumbersOK /\ OffsetsFollow)'
    BY <1>0, <2>1 DEF NumbersOK, OffsetsFollow
  <2>3. CASE link = "up" /\ buffer # <<>>
    <3>1. FlushBuffer(buffer) /\ link' = "closing"
      BY <1>5, <2>3 DEF CloseProducer
    <3>2. LogsOK' /\ FlightsOK'
      BY <1>0, <2>1, <3>1, FlushFits DEF LogsOK
    <3>3. UpBeforeEvents' /\ LastIsFlying'
      BY <3>1 DEF UpBeforeEvents, LastIsFlying
    <3>4. \A e \in 1..accepted' : Held(e)'
      BY <1>0, <2>1, <3>1, FlushKeeps DEF LogsOK
    <3> QED BY <2>2, <3>2, <3>3, <3>4 DEF TelemetryInv
  <2>4. CASE ~(link = "up" /\ buffer # <<>>)
    <3>1. link' = "none" /\ UNCHANGED <<buffer, flights, lastFlight>>
          /\ link \in {"up", "broken"}
      BY <1>5, <2>4 DEF CloseProducer
    <3>2. LogsOK' /\ FlightsOK'
      BY <1>0, <2>1, <3>1 DEF LogsOK, FlightsOK
    <3>3. UpBeforeEvents' /\ LastIsFlying'
      BY <1>0, <2>4, <3>1 DEF UpBeforeEvents, LastIsFlying
    <3>4. \A e \in 1..accepted' : Held(e)'
      BY <1>0, <2>1, <3>1, HeldStays
    <3> QED BY <2>2, <3>2, <3>3, <3>4 DEF TelemetryInv
  <2> QED BY <2>3, <2>4
<1>6. ASSUME NEW i \in 1..MaxFlights, NEW ok \in BOOLEAN, NEW kept \in BOOLEAN,
             FlightEnds(i, ok, kept)
      PROVE  TelemetryInv'
  <2> DEFINE back == IF ok \/ link = "none" \/ flights[i].by # instance THEN buffer
                     ELSE Returned(i)
             gone == i = lastFlight
  <2>1. /\ i \in DOMAIN flights
        /\ flights' = [j \in DOMAIN flights \ {i} |-> flights[j]]
        /\ topic' = (IF ok \/ kept THEN topic \o flights[i].events ELSE topic)
        /\ link' = (IF gone THEN "none" ELSE link)
        /\ lastFlight' = (IF gone THEN 0 ELSE lastFlight)
        /\ buffer' = (IF gone THEN <<>> ELSE back)
        /\ lost' = (lost \union (IF gone THEN EventsIn(back) ELSE {})
             \union (IF ~ok /\ back = buffer THEN EventsIn(flights[i].events) ELSE {}))
        /\ UNCHANGED <<instance, accepted, joined, position, handling, committed, given>>
    BY <1>6 DEF FlightEnds, consumerVars
  <2>2. /\ flights[i].events \in Seq(Nat) /\ buffer \in Seq(Nat) /\ topic \in Seq(Nat)
        /\ Returned(i) = flights[i].events \o buffer
    BY <1>0, <2>1 DEF FlightsOK, LogsOK, Returned
  <2>3. /\ Returned(i) \in Seq(Nat) /\ back \in Seq(Nat)
        /\ EventsIn(Returned(i)) = EventsIn(flights[i].events) \union EventsIn(buffer)
    BY <2>2, EventsInConcat
  <2>4. /\ topic \o flights[i].events \in Seq(Nat)
        /\ EventsIn(topic \o flights[i].events)
             = EventsIn(topic) \union EventsIn(flights[i].events)
        /\ \A n \in DOMAIN topic : /\ n \in DOMAIN (topic \o flights[i].events)
                                   /\ (topic \o flights[i].events)[n] = topic[n]
        /\ Len(topic) <= Len(topic \o flights[i].events)
        /\ \A n \in DOMAIN flights[i].events :
              /\ Len(topic) + n \in DOMAIN (topic \o flights[i].events)
              /\ (topic \o flights[i].events)[Len(topic) + n] = flights[i].events[n]
    <3>1. DOMAIN topic = 1..Len(topic) /\ Len(topic) \in Nat
          /\ DOMAIN flights[i].events = 1..Len(flights[i].events)
          /\ Len(flights[i].events) \in Nat
          /\ DOMAIN (topic \o flights[i].events) = 1..Len(topic) + Len(flights[i].events)
          /\ Len(topic \o flights[i].events) = Len(topic) + Len(flights[i].events)
      BY <2>2
    <3>2. \A n \in 1..Len(topic) : (topic \o flights[i].events)[n] = topic[n]
      BY <2>2
    <3>3. \A n \in 1..Len(flights[i].events) :
            (topic \o flights[i].events)[Len(topic) + n] = flights[i].events[n]
      BY <2>2, <3>1
    <3>4. topic \o flights[i].events \in Seq(Nat)
      BY <2>2
    <3>5. EventsIn(topic \o flights[i].events)
             = EventsIn(topic) \union EventsIn(flights[i].events)
      BY <2>2, EventsInConcat
    <3>6. \A n \in 1..Len(flights[i].events) : Len(topic) + n \in 1..Len(topic) + Len(flights[i].events)
      BY <3>1
    <3>7. \A n \in 1..Len(topic) : n \in 1..Len(topic) + Len(flights[i].events)
      BY <3>1
    <3>8. Len(topic) <= Len(topic) + Len(flights[i].events)
      BY <3>1
    <3> QED BY <3>1, <3>2, <3>3, <3>4, <3>5, <3>6, <3>7, <3>8
  <2> HIDE DEF back
  <2>5. (NumbersOK /\ LogsOK)'
    BY <1>0, <2>1, <2>3, <2>4 DEF NumbersOK, LogsOK
  <2>6. FlightsOK' /\ LastIsFlying'
    BY <1>0, <2>1 DEF FlightsOK, LastIsFlying
  <2>7. OffsetsFollow'
    BY <1>0, <2>1, <2>2, <2>4, SMTT(30) DEF OffsetsFollow, NumbersOK
  <2>8. UpBeforeEvents'
    <3>1. CASE gone
      BY <2>1, <3>1 DEF UpBeforeEvents
    <3>2. CASE ~gone
      <4>1. link \in {"none", "connecting", "broken"} => back = buffer
        BY <1>0, <2>1 DEF back, UpBeforeEvents
      <4> QED BY <1>0, <2>1, <3>2, <4>1 DEF UpBeforeEvents
    <3> QED BY <3>1, <3>2
  <2>9. \A e \in 1..accepted' : Held(e)'
    <3> SUFFICES ASSUME NEW e \in 1..accepted PROVE Held(e)'
      BY <2>1
    <3>1. CASE e \in EventsIn(buffer)
      <4>1. e \in EventsIn(back)
        BY <2>3, <3>1 DEF back
      <4>2. EventsIn(buffer)' = EventsIn(IF gone THEN <<>> ELSE back)
        BY <2>1 DEF EventsIn
      <4> QED BY <2>1, <4>1, <4>2 DEF Held
    <3>2. CASE Unread(e)
      BY <2>1, <2>4, <3>2 DEF Held, Unread
    <3>3. CASE e \in EventsIn(flights[i].events)
      <4>1. CASE ok
        <5>1. PICK n \in DOMAIN flights[i].events : e = flights[i].events[n]
          BY <3>3 DEF EventsIn
        <5>2. Len(topic) + n \in DOMAIN topic' /\ topic'[Len(topic) + n] = e
          BY <2>1, <2>4, <4>1, <5>1
        <5>3. n \in Nat /\ n >= 1 /\ Len(topic) \in Nat
          BY <2>2, SMTT(30)
        <5>4. Len(topic) + n > (IF joined' THEN position' ELSE committed')
          BY <1>0, <2>1, <5>3 DEF OffsetsFollow, NumbersOK
        <5> QED BY <5>2, <5>4 DEF Held, Unread
      <4>2. CASE ~ok /\ back = buffer
        BY <2>1, <3>3, <4>2 DEF Held
      <4>3. CASE ~ok /\ back # buffer
        <5>1. e \in EventsIn(back)
          BY <2>3, <3>3, <4>3 DEF back
        <5>2. EventsIn(buffer)' = EventsIn(IF gone THEN <<>> ELSE back)
          BY <2>1 DEF EventsIn
        <5> QED BY <2>1, <5>1, <5>2 DEF Held
      <4> QED BY <4>1, <4>2, <4>3
    <3>4. CASE Flying(e)
      BY <2>1, <3>3, <3>4 DEF Held, Flying
    <3>5. CASE e \in given \union lost
      BY <2>1, <3>5 DEF Held
    <3> QED BY <1>0, <3>1, <3>2, <3>4, <3>5 DEF Held
  <2> QED BY <2>5, <2>6, <2>7, <2>8, <2>9 DEF TelemetryInv
<1>7. ASSUME UNCHANGED <<producerVars, topic>>, NumbersOK', OffsetsFollow' PROVE
        (NumbersOK /\ LogsOK /\ FlightsOK /\ UpBeforeEvents /\ LastIsFlying /\ OffsetsFollow)'
  BY <1>0, <1>7 DEF producerVars, LogsOK, FlightsOK, UpBeforeEvents, LastIsFlying
<1>8. CASE Join
  <2>1. NumbersOK' /\ OffsetsFollow'
    BY <1>0, <1>8 DEF Join, NumbersOK, OffsetsFollow, producerVars, LogsOK
  <2>2. \A e \in 1..accepted' : Held(e)'
    <3>1. ASSUME NEW e, Unread(e) PROVE Held(e)'
      BY <1>8, <3>1 DEF Join, Unread, Held, EventsIn, producerVars
    <3> QED BY <1>0, <1>8, <3>1 DEF Join, Held, Flying, producerVars
  <2> QED BY <1>7, <1>8, <2>1, <2>2 DEF TelemetryInv, Join
<1>9. CASE HandleMessage
  <2>1. NumbersOK' /\ OffsetsFollow'
    BY <1>0, <1>9 DEF HandleMessage, NumbersOK, OffsetsFollow, producerVars, LogsOK
  <2>2. \A e \in 1..accepted' : Held(e)'
    BY <1>0, <1>9, HeldStays DEF HandleMessage, producerVars
  <2> QED BY <1>7, <1>9, <2>1, <2>2 DEF TelemetryInv, HandleMessage
<1>10. ASSUME NEW ok \in BOOLEAN, CommitOffset(ok) PROVE TelemetryInv'
  <2>1. NumbersOK' /\ OffsetsFollow'
    BY <1>0, <1>10 DEF CommitOffset, NumbersOK, OffsetsFollow, producerVars, LogsOK
  <2>2. \A e \in 1..accepted' : Held(e)'
    <3>1. ASSUME NEW e, Unread(e) PROVE Held(e)'
      BY <1>0, <1>10, <3>1 DEF CommitOffset, Unread, Held, OffsetsFollow, NumbersOK, LogsOK,
                              producerVars
    <3> QED BY <1>0, <1>10, <3>1 DEF CommitOffset, Held, Flying, producerVars
  <2> QED BY <1>7, <1>10, <2>1, <2>2 DEF TelemetryInv, CommitOffset
<1>11. CASE Leave
  <2>1. NumbersOK' /\ OffsetsFollow'
    BY <1>0, <1>11 DEF Leave, NumbersOK, OffsetsFollow, producerVars, LogsOK
  <2>2. \A e \in 1..accepted' : Held(e)'
    <3>1. ASSUME NEW e, Unread(e) PROVE Held(e)'
      BY <1>0, <1>11, <3>1 DEF Leave, Unread, Held, OffsetsFollow, NumbersOK, LogsOK, producerVars
    <3> QED BY <1>0, <1>11, <3>1 DEF Leave, Held, Flying, producerVars
  <2> QED BY <1>7, <1>11, <2>1, <2>2 DEF TelemetryInv, Leave
<1>12. CASE UNCHANGED telemetryVars
  <2>1. \A e \in 1..accepted' : Held(e)'
    BY <1>0, <1>12, HeldStays DEF telemetryVars
  <2> QED BY <1>0, <1>12, <2>1 DEF telemetryVars, TelemetryInv, NumbersOK, LogsOK, FlightsOK,
             UpBeforeEvents, LastIsFlying, OffsetsFollow
<1> QED BY <1>1, <1>2, <1>3, <1>4, <1>5, <1>6, <1>8, <1>9, <1>10, <1>11, <1>12
           DEF TelemetryNext
-----------------------------------------------------------------------------
(* An accepted event is buffered, on its way, still to be read, or was handled, or the
   code gave it up (kafkaProducer.js _flushBuffer and disconnect, kafkaConsumer.js). *)
THEOREM NoEventVanishes == TelemetrySpec => []NothingVanishes
<1>1. TelemetryInv => NothingVanishes
  BY HeldIsNothingVanishes DEF TelemetryInv, NumbersOK, LogsOK
<1> QED BY TelemetryStart, TelemetryKeeps, <1>1, PTL DEF TelemetrySpec

(* The logs hold accepted events; who closes waits for a batch that is on its way. *)
LogsHold == /\ buffer \in Seq(1..accepted) /\ topic \in Seq(1..accepted)
            /\ \A i \in DOMAIN flights : flights[i].events \in Seq(1..accepted)
LastIsOnItsWay ==
  /\ link \in {"none", "connecting", "up", "broken", "closing"}
  /\ lastFlight \in {0} \union DOMAIN flights /\ (lastFlight # 0 <=> link = "closing")
KnownEvents == given \union lost \subseteq 1..accepted
WithinBounds == instance <= MaxInstances /\ accepted <= MaxEvents
TelemetryTypeInv == LogsHold /\ LastIsOnItsWay /\ KnownEvents /\ WithinBounds

(* Logs of events that are known. *)
LEMMA LogFacts ==
  ASSUME NEW S, NEW T, S \subseteq T, NEW s \in Seq(S)
  PROVE  s \in Seq(T) /\ EventsIn(s) \subseteq S /\ (\A n \in DOMAIN s : s[n] \in S)
<1>1. \A n \in DOMAIN s : s[n] \in S
  OBVIOUS
<1>2. s \in Seq(T)
  OBVIOUS
<1>. QED BY <1>1, <1>2 DEF EventsIn

(* A flush of known events. *)
LEMMA FlushHolds ==
  ASSUME TelemetryInv, NEW n \in Nat, NEW events \in Seq(1..n), FlushBuffer(events),
         \A i \in DOMAIN flights : flights[i].events \in Seq(1..n)
  PROVE  /\ FreeFlight \in 1..MaxFlights /\ FreeFlight \in DOMAIN flights'
         /\ DOMAIN flights \subseteq DOMAIN flights'
         /\ buffer' \in Seq(1..n)
         /\ \A i \in DOMAIN flights' : flights'[i].events \in Seq(1..n)
<1>1. events \in Seq(Nat)
  <2>1. 1..n \subseteq Nat
    OBVIOUS
  <2>. QED BY <2>1, LogFacts
<1>2. /\ FreeFlight \in 1..MaxFlights
      /\ DOMAIN flights' = DOMAIN flights \union {FreeFlight}
      /\ flights'[FreeFlight] = [by |-> instance, events |-> events]
      /\ \A i \in DOMAIN flights : flights'[i] = flights[i]
      /\ buffer' = <<>>
  BY <1>1, FlushMoves DEF TelemetryInv
<1>. HIDE DEF FreeFlight
<1>3. buffer' \in Seq(1..n)
  BY <1>2
<1>4. flights'[FreeFlight].events = events
  BY <1>2
<1>. QED BY <1>2, <1>3, <1>4

(* Every step keeps the types. *)
LEMMA TelemetryTypeKeeps ==
  TelemetryInv /\ TelemetryTypeInv /\ [TelemetryNext]_telemetryVars => TelemetryTypeInv'
<1>. SUFFICES ASSUME TelemetryInv, TelemetryTypeInv, [TelemetryNext]_telemetryVars
              PROVE  TelemetryTypeInv'
  OBVIOUS
<1>0. /\ LogsHold /\ LastIsOnItsWay /\ KnownEvents /\ WithinBounds /\ OffsetsFollow
      /\ accepted \in Nat /\ DOMAIN flights \subseteq 1..MaxFlights
      /\ instance \in Nat /\ MaxInstances \in Nat /\ MaxEvents \in Nat
  BY TelemetryAssumption DEF TelemetryInv, TelemetryTypeInv, NumbersOK, FlightsOK
<1>1. ASSUME UNCHANGED <<buffer, topic, flights, accepted>> PROVE LogsHold'
  BY <1>0, <1>1 DEF LogsHold
<1>2. ASSUME UNCHANGED <<flights, lastFlight, link>> PROVE LastIsOnItsWay'
  BY <1>0, <1>2 DEF LastIsOnItsWay
<1>3. ASSUME UNCHANGED <<given, lost, accepted>> PROVE KnownEvents'
  BY <1>0, <1>3 DEF KnownEvents
<1>4. ASSUME UNCHANGED <<instance, accepted>> PROVE WithinBounds'
  BY <1>0, <1>4 DEF WithinBounds
<1>5. CASE GetProducer \/ \E ok \in BOOLEAN : Connect(ok)
  <2>1. LastIsOnItsWay' /\ KnownEvents'
    BY <1>0, <1>3, <1>5 DEF GetProducer, Connect, LastIsOnItsWay, consumerVars
  <2>2. LogsHold'
    <3>1. buffer' = buffer \/ buffer' = <<>>
      BY <1>5 DEF GetProducer, Connect
    <3>2. buffer' \in Seq(1..accepted)
      <4>1. <<>> \in Seq(1..accepted)
        OBVIOUS
      <4>. QED BY <1>0, <3>1, <4>1 DEF LogsHold
    <3>. QED BY <1>0, <1>5, <3>2 DEF LogsHold, GetProducer, Connect
  <2>3. WithinBounds'
    BY <1>0, <1>5 DEF GetProducer, Connect, WithinBounds
  <2>. QED BY <2>1, <2>2, <2>3 DEF TelemetryTypeInv
<1>6. CASE SendProgress
  <2>1. /\ accepted' = accepted + 1 /\ accepted < MaxEvents
        /\ UNCHANGED <<instance, link, lastFlight, topic, given, lost>>
    BY <1>6 DEF SendProgress, consumerVars
  <2>. DEFINE n == accepted + 1
              longer == Append(buffer, n)
  <2>2. n \in Nat /\ n \in 1..n /\ 1..accepted \subseteq 1..n
    BY <1>0
  <2>3. /\ buffer \in Seq(1..n) /\ topic \in Seq(1..n)
        /\ \A i \in DOMAIN flights : flights[i].events \in Seq(1..n)
    BY <1>0, <2>2, LogFacts DEF LogsHold
  <2>4. longer \in Seq(1..n)
    BY <2>2, <2>3
  <2>5. /\ buffer' \in Seq(1..n) /\ \A i \in DOMAIN flights' : flights'[i].events \in Seq(1..n)
        /\ DOMAIN flights \subseteq DOMAIN flights'
    <3>. HIDE DEF longer, n
    <3>1. CASE FlushBuffer(longer)
      BY <2>2, <2>3, <2>4, <3>1, FlushHolds
    <3>2. CASE buffer' = longer /\ UNCHANGED flights
      BY <2>3, <2>4, <3>2
    <3>. QED BY <1>6, <3>1, <3>2 DEF SendProgress, longer, n
  <2>6. LogsHold'
    BY <2>1, <2>3, <2>5 DEF LogsHold
  <2>7. LastIsOnItsWay'
    BY <1>0, <2>1, <2>5 DEF LastIsOnItsWay
  <2>8. KnownEvents'
    BY <1>0, <2>1, <2>2 DEF KnownEvents
  <2>9. WithinBounds'
    BY <1>0, <2>1 DEF WithinBounds
  <2>. QED BY <2>6, <2>7, <2>8, <2>9 DEF TelemetryTypeInv
<1>7. CASE FlushInterval \/ CloseProducer
  <2>1. UNCHANGED <<instance, accepted, topic, given, lost>>
    BY <1>7 DEF FlushInterval, CloseProducer, consumerVars
  <2>2. CASE FlushBuffer(buffer)
    <3>1. /\ buffer' \in Seq(1..accepted) /\ DOMAIN flights \subseteq DOMAIN flights'
          /\ \A i \in DOMAIN flights' : flights'[i].events \in Seq(1..accepted)
          /\ FreeFlight \in 1..MaxFlights /\ FreeFlight \in DOMAIN flights'
      BY <1>0, <2>2, FlushHolds DEF LogsHold
    <3>2. LogsHold'
      BY <1>0, <2>1, <3>1 DEF LogsHold
    <3>3. \/ UNCHANGED <<link, lastFlight>>
          \/ link' = "closing" /\ lastFlight' = FreeFlight
          \/ link' = "none" /\ lastFlight' = lastFlight /\ link # "closing"
      BY <1>7 DEF FlushInterval, CloseProducer
    <3>. HIDE DEF FreeFlight
    <3>4. LastIsOnItsWay'
      BY <1>0, <3>1, <3>3 DEF LastIsOnItsWay
    <3>. QED BY <1>3, <1>4, <2>1, <3>2, <3>4 DEF TelemetryTypeInv
  <2>3. CASE ~FlushBuffer(buffer)
    <3>1. /\ link' = "none" /\ link # "closing" /\ UNCHANGED <<buffer, flights, lastFlight>>
      BY <1>7, <2>3 DEF FlushInterval, CloseProducer
    <3>2. LastIsOnItsWay'
      BY <1>0, <3>1 DEF LastIsOnItsWay
    <3>. QED BY <1>1, <1>3, <1>4, <2>1, <3>1, <3>2 DEF TelemetryTypeInv
  <2>. QED BY <2>2, <2>3
<1>8. ASSUME NEW i \in 1..MaxFlights, NEW ok \in BOOLEAN, NEW kept \in BOOLEAN,
             FlightEnds(i, ok, kept)
      PROVE  TelemetryTypeInv'
  <2>. DEFINE back == IF ok \/ link = "none" \/ flights[i].by # instance THEN buffer
                      ELSE Returned(i)
              gone == i = lastFlight
              S == 1..accepted
              events == flights[i].events
  <2>1. /\ i \in DOMAIN flights
        /\ flights' = [j \in DOMAIN flights \ {i} |-> flights[j]]
        /\ topic' = (IF ok \/ kept THEN topic \o events ELSE topic)
        /\ link' = (IF gone THEN "none" ELSE link)
        /\ lastFlight' = (IF gone THEN 0 ELSE lastFlight)
        /\ buffer' = (IF gone THEN <<>> ELSE back)
        /\ lost' = (lost \union (IF gone THEN EventsIn(back) ELSE {})
             \union (IF ~ok /\ back = buffer THEN EventsIn(events) ELSE {}))
        /\ UNCHANGED <<instance, accepted, given>>
    BY <1>8 DEF FlightEnds, consumerVars
  <2>2. events \in Seq(S) /\ buffer \in Seq(S) /\ topic \in Seq(S)
    BY <1>0, <2>1 DEF LogsHold
  <2>3. back = buffer \/ back = events \o buffer
    BY DEF Returned
  <2>. HIDE DEF back, S, events
  <2>4. back \in Seq(S) /\ topic \o events \in Seq(S) /\ <<>> \in Seq(S)
    <3>1. events \o buffer \in Seq(S)
      BY <2>2
    <3>2. topic \o events \in Seq(S)
      BY <2>2
    <3>3. <<>> \in Seq(S)
      OBVIOUS
    <3>. QED BY <2>2, <2>3, <3>1, <3>2, <3>3
  <2>5. buffer' \in Seq(S) /\ topic' \in Seq(S)
    BY <2>1, <2>2, <2>4
  <2>6. EventsIn(back) \subseteq S /\ EventsIn(events) \subseteq S
    BY <2>2, <2>4, LogFacts
  <2>7. \A j \in DOMAIN flights' : j \in DOMAIN flights /\ flights'[j] = flights[j]
    BY <2>1
  <2>8. LogsHold'
    BY <1>0, <2>1, <2>5, <2>7 DEF LogsHold, S
  <2>9. LastIsOnItsWay'
    BY <1>0, <2>1 DEF LastIsOnItsWay
  <2>10. KnownEvents'
    <3>1. given \subseteq S /\ lost \subseteq S
      BY <1>0 DEF KnownEvents, S
    <3>2. lost' \subseteq S /\ given' \subseteq S
      BY <2>1, <2>6, <3>1
    <3>. QED BY <2>1, <3>2 DEF KnownEvents, S
  <2>. QED BY <1>4, <2>1, <2>8, <2>9, <2>10 DEF TelemetryTypeInv
<1>9. CASE Join \/ HandleMessage \/ Leave \/ \E ok \in BOOLEAN : CommitOffset(ok)
  <2>1. UNCHANGED <<instance, link, buffer, flights, lastFlight, accepted, topic>>
    BY <1>9 DEF Join, HandleMessage, Leave, CommitOffset, producerVars
  <2>2. /\ lost' \subseteq lost \union EventsIn(topic)
        /\ \/ given' = given
           \/ position < Len(topic) /\ given' = given \union {topic[position + 1]}
    BY <1>9 DEF Join, HandleMessage, Leave, CommitOffset
  <2>3. topic \in Seq(1..accepted) /\ EventsIn(topic) \subseteq 1..accepted
        /\ \A n \in DOMAIN topic : topic[n] \in 1..accepted
    BY <1>0, LogFacts DEF LogsHold
  <2>4. position < Len(topic) => position + 1 \in DOMAIN topic
    BY <2>3 DEF TelemetryInv, NumbersOK
  <2>5. KnownEvents'
    BY <1>0, <2>1, <2>2, <2>3, <2>4 DEF KnownEvents
  <2>. QED BY <1>1, <1>2, <1>4, <2>1, <2>5 DEF TelemetryTypeInv
<1>10. CASE UNCHANGED telemetryVars
  BY <1>1, <1>2, <1>3, <1>4, <1>10 DEF telemetryVars, TelemetryTypeInv
<1>. QED BY <1>5, <1>6, <1>7, <1>8, <1>9, <1>10 DEF TelemetryNext

(* Nothing has been accepted. *)
LEMMA TelemetryTypeStart == TelemetryInit => TelemetryTypeInv
<1>. SUFFICES ASSUME TelemetryInit PROVE TelemetryTypeInv
  OBVIOUS
<1>1. <<>> \in Seq(1..0)
  OBVIOUS
<1>2. LogsHold /\ LastIsOnItsWay
  BY <1>1 DEF TelemetryInit, LogsHold, LastIsOnItsWay
<1>. QED BY <1>2, TelemetryAssumption DEF TelemetryInit, TelemetryTypeInv, KnownEvents, WithinBounds

(* What is proved of the telemetry holds its types. *)
LEMMA TelemetryTypes == TelemetryInv /\ TelemetryTypeInv => TelemetryTypeOK
<1>. SUFFICES ASSUME TelemetryInv, TelemetryTypeInv PROVE TelemetryTypeOK
  OBVIOUS
<1>1. topic \in Seq(Nat) /\ position \in Nat /\ committed \in Nat
      /\ position <= Len(topic) /\ committed <= Len(topic)
      /\ instance \in Nat /\ accepted \in Nat
  BY DEF TelemetryInv, NumbersOK, LogsOK, OffsetsFollow
<1>2. handling \in 0..Len(topic)
  BY <1>1 DEF TelemetryInv, OffsetsFollow
<1>3. position \in 0..Len(topic) /\ committed \in 0..Len(topic)
  BY <1>1
<1>4. instance \in 0..MaxInstances /\ accepted \in 0..MaxEvents
  BY <1>1, TelemetryAssumption DEF TelemetryTypeInv, WithinBounds
<1>. QED BY <1>2, <1>3, <1>4 DEF TelemetryInv, FlightsOK, TelemetryTypeInv, LogsHold,
            LastIsOnItsWay, KnownEvents, TelemetryTypeOK

(* The logs hold accepted events, the offsets are within the log, and a producer that
   is closing waits for a batch that is on its way. *)
THEOREM TelemetryTypeCorrect == TelemetrySpec => []TelemetryTypeOK
  BY TelemetryStart, TelemetryTypeStart, TelemetryKeeps, TelemetryTypeKeeps, TelemetryTypes, PTL
  DEF TelemetrySpec

-----------------------------------------------------------------------------
(* The idempotency key. *)

Busy(r) == stage[r] \in {"running", "answered"}
Final == {"2xx", "4xx"}

OneBusy == \A r, s \in Request : Busy(r) /\ Busy(s) => r = s
RunnerHoldsKey ==
  \A r \in Request : stage[r] = "running" => key = InFlight /\ served = {}
AnsweredHasKey == \A r \in Request : stage[r] = "answered" => key # NoKey
FailedUnserved ==
  \A r \in Request : stage[r] = "answered" /\ answer[r] = "5xx" => served = {}
ServedHasKey == served # {} => key # NoKey
ServedIsOver == \A s \in served : stage[s] \in {"answered", "over"}
KeptIsServed == \A c \in Final : key = Kept(c) => \E s \in served : answer[s] = c
AnswerIsServed ==
  \A r \in Request : answer[r] \in Final => \E s \in served : answer[s] = answer[r]

Kosher ==
  /\ OneBusy /\ RunnerHoldsKey /\ AnsweredHasKey /\ FailedUnserved
  /\ ServedHasKey /\ ServedIsOver /\ KeptIsServed /\ AnswerIsServed

KeyInv == IdempotencyTypeOK /\ (~failOpen /\ ~expired => Kosher)

-----------------------------------------------------------------------------
(* Before the first request looks, the key is free and the invariant holds. *)
LEMMA KeyStart == IdempotencyInit => KeyInv
<1> SUFFICES ASSUME IdempotencyInit PROVE KeyInv
  OBVIOUS
<1>1. IdempotencyTypeOK
  <2>1. wrongs \in 0..MaxWrongs /\ key = NoKey
    BY IdempotencyAssumption DEF IdempotencyInit
  <2> QED BY <2>1 DEF IdempotencyInit, IdempotencyTypeOK
<1>2. OneBusy /\ RunnerHoldsKey /\ AnsweredHasKey /\ FailedUnserved
  BY DEF IdempotencyInit, OneBusy, RunnerHoldsKey, AnsweredHasKey, FailedUnserved, Busy
<1>3. ServedHasKey /\ ServedIsOver
  BY DEF IdempotencyInit, ServedHasKey, ServedIsOver
<1>4. KeptIsServed /\ AnswerIsServed
  BY DEF IdempotencyInit, KeptIsServed, AnswerIsServed, Final, NoKey, Kept
<1> QED BY <1>1, <1>2, <1>3, <1>4 DEF KeyInv, Kosher

(* Every step of a request, and the death of a pod, keeps the types. *)
LEMMA KeyTypeStep == IdempotencyTypeOK /\ [IdempotencyNext]_idempotencyVars => IdempotencyTypeOK'
<1> SUFFICES ASSUME IdempotencyTypeOK, [IdempotencyNext]_idempotencyVars
             PROVE  IdempotencyTypeOK'
  OBVIOUS
<1> USE IdempotencyAssumption DEF NoKey, InFlight, Kept, Code, Final, IdempotencyTypeOK, RedisCall, Wrong, Goes, Answers
<1>1. ASSUME NEW r \in Request, NEW ok \in BOOLEAN, Get(r, ok) PROVE IdempotencyTypeOK'
  BY <1>1 DEF Get
<1>2. ASSUME NEW r \in Request, NEW ok \in BOOLEAN, Claim(r, ok) PROVE IdempotencyTypeOK'
  BY <1>2 DEF Claim
<1>3. ASSUME NEW r \in Request, NEW ok \in BOOLEAN, NEW code \in Code, Respond(r, code, ok)
      PROVE  IdempotencyTypeOK'
  BY <1>3 DEF Respond
<1>4. ASSUME NEW r \in Request, NEW ok \in BOOLEAN, Finish(r, ok) PROVE IdempotencyTypeOK'
  BY <1>4 DEF Finish
<1>5. ASSUME NEW r \in Request, PodDies(r) PROVE IdempotencyTypeOK'
  BY <1>5 DEF PodDies
<1>6. CASE Expire
  BY <1>6 DEF Expire
<1>7. CASE UNCHANGED idempotencyVars
  BY <1>7 DEF idempotencyVars
<1> QED BY <1>1, <1>2, <1>3, <1>4, <1>5, <1>6, <1>7 DEF IdempotencyNext

(* While no claim failed open and the key did not expire, every step keeps what ties
   the key to the requests. *)
LEMMA KosherStep ==
  ASSUME IdempotencyTypeOK, IdempotencyTypeOK', Kosher, ~failOpen', ~expired',
         [IdempotencyNext]_idempotencyVars
  PROVE  Kosher'
<1> USE DEF NoKey, InFlight, Kept, Code, Final, IdempotencyTypeOK, RedisCall, Wrong, Goes, Answers, Kosher, OneBusy, RunnerHoldsKey,
  AnsweredHasKey, FailedUnserved, ServedHasKey, ServedIsOver, KeptIsServed, AnswerIsServed, Busy
<1>1. ASSUME NEW r \in Request, NEW ok \in BOOLEAN, Get(r, ok) PROVE Kosher'
  BY <1>1 DEF Get
<1>2. ASSUME NEW r \in Request, NEW ok \in BOOLEAN, Claim(r, ok) PROVE Kosher'
  <2>1. CASE key = NoKey
    <3>1. served = {} /\ \A q \in Request : ~Busy(q)
      BY <2>1
    <3>2. ok /\ key' = InFlight /\ stage' = [stage EXCEPT ![r] = "running"]
      BY <1>2, <2>1 DEF Claim
    <3>3. UNCHANGED <<answer, served>>
      BY <1>2, <2>1 DEF Claim
    <3> QED BY <3>1, <3>2, <3>3
  <2>2. CASE key # NoKey
    <3>1. stage' = [stage EXCEPT ![r] = "over"] /\ answer' = [answer EXCEPT ![r] = "409"]
      BY <1>2, <2>2 DEF Claim
    <3>2. UNCHANGED <<key, served>> /\ stage[r] = "looked"
      BY <1>2, <2>2 DEF Claim
    <3>3. r \notin served
      BY <3>2
    <3> QED BY <3>1, <3>2, <3>3
  <2> QED BY <2>1, <2>2
<1>3. ASSUME NEW r \in Request, NEW ok \in BOOLEAN, NEW code \in Code, Respond(r, code, ok)
      PROVE  Kosher'
  <2>1. stage[r] = "running" /\ stage' = [stage EXCEPT ![r] = "answered"]
        /\ answer' = [answer EXCEPT ![r] = code]
    BY <1>3 DEF Respond
  <2>2. key = InFlight /\ served = {} /\ \A q \in Request : Busy(q) => q = r
    BY <2>1
  <2>3. key' = (IF ok THEN Kept(code) ELSE key)
        /\ served' = IF code = "5xx" THEN served ELSE served \union {r}
    BY <1>3 DEF Respond
  <2>4. (OneBusy /\ RunnerHoldsKey /\ AnsweredHasKey)'
    BY <2>1, <2>2, <2>3
  <2>5. (FailedUnserved /\ ServedHasKey /\ ServedIsOver)'
    BY <2>1, <2>2, <2>3
  <2>6. code \in Final => r \in served' /\ answer'[r] = code
    BY <2>1, <2>3
  <2>7. \A q \in Request : q # r => answer'[q] \notin Final
    BY <2>1, <2>2
  <2>8. KeptIsServed'
    BY <2>2, <2>3, <2>6
  <2>9. AnswerIsServed'
    BY <2>1, <2>6, <2>7
  <2> QED BY <2>4, <2>5, <2>8, <2>9
<1>4. ASSUME NEW r \in Request, NEW ok \in BOOLEAN, Finish(r, ok) PROVE Kosher'
  BY <1>4 DEF Finish
<1>5. ASSUME NEW r \in Request, PodDies(r) PROVE Kosher'
  BY <1>5 DEF PodDies
<1>6. CASE Expire
  BY <1>6 DEF Expire
<1>7. CASE UNCHANGED idempotencyVars
  BY <1>7 DEF idempotencyVars
<1> QED BY <1>1, <1>2, <1>3, <1>4, <1>5, <1>6, <1>7 DEF IdempotencyNext

(* The type invariant holds in every state. *)
THEOREM IdempotencyTypeCorrect == IdempotencySpec => []IdempotencyTypeOK
<1>1. IdempotencyInit => IdempotencyTypeOK
  BY KeyStart DEF KeyInv
<1> QED BY <1>1, KeyTypeStep, PTL DEF IdempotencySpec

(* Retries of a request run its handler once and get the answer of that run
   (idempotency.js: the key, its claim, and what Respond leaves in it). *)
THEOREM HandlerRunsOnce == IdempotencySpec => []RunsOnce
<1>1. KeyInv /\ [IdempotencyNext]_idempotencyVars => KeyInv'
  <2> SUFFICES ASSUME KeyInv, [IdempotencyNext]_idempotencyVars PROVE KeyInv'
    OBVIOUS
  <2>1. IdempotencyTypeOK'
    BY KeyTypeStep DEF KeyInv
  <2>2. ~failOpen' /\ ~expired' => ~failOpen /\ ~expired
    BY DEF IdempotencyNext, Get, Claim, Respond, Finish, PodDies, Expire, idempotencyVars
  <2> QED BY <2>1, <2>2, KosherStep DEF KeyInv
<1>2. KeyInv => RunsOnce
  BY DEF NoKey, InFlight, Kept, Code, Final, KeyInv, RunsOnce, Kosher, OneBusy, Busy, RunnerHoldsKey, AnswerIsServed, IdempotencyTypeOK
<1> QED BY KeyStart, <1>1, <1>2, PTL DEF IdempotencySpec
-----------------------------------------------------------------------------
(* The specification that TLC runs is, for every value of its constants, that of each
   part: a step of one part leaves the others as they are. *)
LEMMA PartsOfServices ==
  Spec => /\ PoolSpec /\ CheckpointSpec /\ TelemetrySpec /\ IdempotencySpec
          /\ ColdSpec /\ EngineSpec /\ FilesSpec /\ DhtSpec
<1>1. Init => /\ PoolInit /\ CheckpointInit /\ TelemetryInit /\ IdempotencyInit
              /\ ColdInit /\ EngineInit /\ FilesInit /\ DhtInit
  BY DEF Init
<1>2. [Next]_servicesVars =>
        /\ [PoolNext]_poolVars /\ [CheckpointNext]_checkVars /\ [TelemetryNext]_telemetryVars
        /\ [IdempotencyNext]_idempotencyVars /\ [ColdNext]_coldVars
        /\ [EngineNext]_engineVars /\ [FilesNext]_fileVars /\ [DhtNext]_dhtVars
  BY DEF Next, PoolStep, CheckpointStep, TelemetryStep, IdempotencyStep, ColdStep,
         EngineStep, FilesStep, DhtStep, servicesVars
<1>. QED BY <1>1, <1>2, PTL
         DEF Spec, PoolSpec, CheckpointSpec, TelemetrySpec, IdempotencySpec, ColdSpec,
             EngineSpec, FilesSpec, DhtSpec

(* The types of all parts beside the transfer, for any peers, processes, chunks,
   requests, files and nodes, and with calls of the engine that cross. *)
THEOREM ServicesTypeCorrect == Spec => []ServicesTypeOK
<1>1. PoolTypeOK /\ CheckpointTypeOK /\ TelemetryTypeOK /\ IdempotencyTypeOK /\ ColdTypeOK
        /\ EngineTypeOK /\ FilesTypeOK /\ DhtTypeOK => ServicesTypeOK
  BY DEF ServicesTypeOK
<1>. QED BY <1>1, PartsOfServices, PoolTypeCorrect, CheckpointTypeCorrect,
            TelemetryTypeCorrect, IdempotencyTypeCorrect, ColdTypeCorrect,
            EngineTypeCorrect, FilesTypeCorrect, DhtTypeCorrect, PTL

=============================================================================
