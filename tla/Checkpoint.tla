----------------------------- MODULE Checkpoint -----------------------------
(***************************************************************************)
(* Which pieces count as verified: the chunk rows of a transfer            *)
(* (checkpointer.js), the resume of the API (resumeService.js), the        *)
(* verification of the pieces on disk (pieceManager.js), and the pieces    *)
(* that the download manager counts as complete.  A mark finds the id of   *)
(* the transfer, from a cache that nothing clears, and then updates its    *)
(* rows; both are awaited and errors are swallowed.                        *)
(*                                                                         *)
(* The torrent is in the engine of process Home.  Nothing calls            *)
(* torrent.resumeWithVerification in the server: the model is the class as *)
(* that method uses it.  A process does one of its jobs at a time.         *)
(***************************************************************************)
EXTENDS Naturals

CONSTANTS Proc, Home, Chunk,
          MaxTransfers, \* bound: rows of the transfer made one after the other
          MaxMishaps    \* bound: failed queries, read errors, damage, restarts

ASSUME CheckpointAssumption ==
  /\ Home \in Proc /\ Chunk # {} /\ MaxTransfers \in Nat /\ MaxMishaps \in Nat

VARIABLES transferId, madeIds, \* the row of the info hash, 0 for none; rows so far
          chunkRows,           \* status of its chunks
          cachedId,            \* transferIdCache, per process, 0 for none
          job,                 \* what a process awaits
          complete,            \* completedPieces of the download manager
          good,                \* pieces whose data on disk is right
          context,             \* the resume in flight: what it has read
          condemned,           \* pieces an undisturbed verification found bad
          mishaps

checkVars == <<transferId, madeIds, chunkRows, cachedId, job, complete, good,
               context, condemned, mishaps>>

RowStatus == {"none", "pending", "verified", "failed"}
Idle == [at |-> "idle", id |-> 0, todo |-> {}, chunks |-> {}, status |-> "none",
         bad |-> {}, clean |-> FALSE]
NoContext == [at |-> "idle", verified |-> {}]

CheckpointInit ==
  /\ transferId = 0 /\ madeIds = 0 /\ chunkRows = [c \in Chunk |-> "none"]
  /\ cachedId = [p \in Proc |-> 0] /\ job = [p \in Proc |-> Idle]
  /\ complete = {} /\ good = {} /\ context = NoContext /\ condemned = {} /\ mishaps = 0

Mishap == mishaps < MaxMishaps /\ mishaps' = mishaps + 1
Well(ok) == IF ok THEN UNCHANGED mishaps ELSE Mishap
-----------------------------------------------------------------------------
(* createTorrentFromFile: the row, its chunks (initializeChunks), and all of them
   verified (markChunksVerifiedBulk). *)
CreateTransfer(p) ==
  /\ transferId = 0 /\ madeIds < MaxTransfers /\ job[p] = Idle
  /\ madeIds' = madeIds + 1 /\ transferId' = madeIds + 1
  /\ chunkRows' = [c \in Chunk |-> "none"]
  /\ job' = [job EXCEPT ![p] = [Idle EXCEPT !.at = "insert", !.id = madeIds + 1,
                                            !.chunks = Chunk, !.status = "bulk"]]
  /\ good' = Chunk /\ condemned' = {}
  /\ UNCHANGED <<cachedId, complete, context, mishaps>>

Marking(j, id) == [j EXCEPT !.at = IF id = 0 THEN "find" ELSE "update", !.id = id]
AfterMark(j) == IF j.status = "bulk" THEN Idle ELSE [j EXCEPT !.at = "read"]

InitializeChunks(p, ok) ==
  /\ job[p].at = "insert" /\ Well(ok)
  /\ IF ok /\ job[p].id = transferId
     THEN /\ chunkRows' = [c \in Chunk |-> IF chunkRows[c] = "none" THEN "pending"
                                           ELSE chunkRows[c]]
          /\ cachedId' = [cachedId EXCEPT ![p] = transferId]
     ELSE UNCHANGED <<chunkRows, cachedId>>
  /\ job' = [job EXCEPT ![p] = Marking(@, cachedId'[p])]
  /\ UNCHANGED <<transferId, madeIds, complete, good, context, condemned>>

(* _getTransferId when the cache has none. *)
GetTransferId(p) ==
  /\ job[p].at = "find"
  /\ job' = [job EXCEPT ![p] = IF transferId = 0
                               THEN [AfterMark(@) EXCEPT !.clean = FALSE]
                               ELSE [@ EXCEPT !.at = "update", !.id = transferId]]
  /\ UNCHANGED <<transferId, madeIds, chunkRows, cachedId, complete, good, context,
                 condemned, mishaps>>

(* Chunk.update: of the rows of that id, if there are any. *)
MarkedOnlyGood(j) == [c \in Chunk |->                            \* mutant
  IF c \in j.chunks /\ chunkRows[c] # "none" /\ j.status # "failed" THEN "verified"
  ELSE chunkRows[c]]
Marked(j) == [c \in Chunk |->
  IF c \in j.chunks /\ chunkRows[c] # "none"
  THEN IF j.status = "failed" THEN "failed" ELSE "verified"
  ELSE chunkRows[c]]

UpdateChunks(p, ok) ==
  /\ job[p].at = "update" /\ Well(ok)
  /\ cachedId' = [cachedId EXCEPT ![p] = job[p].id]
  /\ LET hit == ok /\ job[p].id = transferId
     IN  /\ chunkRows' = IF hit THEN Marked(job[p]) ELSE chunkRows
         /\ job' = [q \in Proc |->
              IF q = p THEN [AfterMark(job[p]) EXCEPT !.clean = @ /\ hit]
              ELSE IF job[p].status = "bulk" THEN [job[q] EXCEPT !.clean = FALSE]
              ELSE job[q]]
  /\ UNCHANGED <<transferId, madeIds, complete, good, context, condemned>>

(* deleteTorrent: the torrent leaves the engine, the row the table. *)
DeleteTransfer ==
  /\ transferId # 0
  /\ transferId' = 0 /\ chunkRows' = [c \in Chunk |-> "none"]
  /\ complete' = {} /\ condemned' = {}
  /\ UNCHANGED <<madeIds, cachedId, job, good, context, mishaps>>
-----------------------------------------------------------------------------
(* start makes a manager with the pieces that FileWriter.verify finds. *)
StartTorrent ==
  /\ transferId # 0 /\ complete # good
  /\ complete' = good /\ condemned' = condemned \ good
  /\ UNCHANGED <<transferId, madeIds, chunkRows, cachedId, job, good, context, mishaps>>

(* That manager asks for the pieces it lacks, and counts what it has written. *)
DownloadPiece(c) ==
  /\ transferId # 0 /\ c \notin complete \union good
  /\ complete' = complete \union {c} /\ good' = good \union {c}
  /\ condemned' = condemned \ {c}
  /\ UNCHANGED <<transferId, madeIds, chunkRows, cachedId, job, context, mishaps>>

(* _verifyCompletedPieces: verifyPieces reads the pieces one after the other. *)
BeginVerify ==
  /\ job[Home] = Idle /\ complete # {}
  /\ job' = [job EXCEPT ![Home] = [Idle EXCEPT !.at = "read", !.todo = complete,
                                               !.clean = context = NoContext]]
  /\ UNCHANGED <<transferId, madeIds, chunkRows, cachedId, complete, good, context,
                 condemned, mishaps>>

VerifyPiece(c) ==
  /\ job[Home].at = "read" /\ c \in job[Home].todo
  /\ LET j == [job[Home] EXCEPT !.todo = @ \ {c}, !.chunks = {c}]
     IN  \/ /\ c \in good
            /\ job' = [job EXCEPT ![Home] = Marking([j EXCEPT !.status = "verified"],
                                                    cachedId[Home])]
            /\ condemned' = condemned \ {c} /\ UNCHANGED mishaps
         \/ /\ c \notin good
            /\ job' = [job EXCEPT ![Home] =
                 Marking([j EXCEPT !.status = "failed", !.bad = @ \union {c}],
                         cachedId[Home])]
            /\ UNCHANGED <<condemned, mishaps>>
         \/ \* a read error: missing, and not told to the checkpointer
            /\ job' = [job EXCEPT ![Home] = [j EXCEPT !.bad = @ \union {c},
                                                      !.clean = FALSE]]
            /\ Mishap /\ UNCHANGED condemned
  /\ UNCHANGED <<transferId, madeIds, chunkRows, cachedId, complete, good, context>>

(* _applyVerificationResults. *)
ApplyResults ==
  /\ job[Home].at = "read" /\ job[Home].todo = {}
  /\ complete' = complete \ job[Home].bad
  /\ condemned' = IF job[Home].clean /\ \A p \in Proc \ {Home} : job[p] = Idle
                  THEN condemned \union job[Home].bad ELSE condemned
  /\ job' = [job EXCEPT ![Home] = Idle]
  /\ UNCHANGED <<transferId, madeIds, chunkRows, cachedId, good, context, mishaps>>
-----------------------------------------------------------------------------
(* resumeTorrent: the context; if not all is verified the failed chunks are reset, and
   then the verified ones replace the completed pieces. *)
ResumeRead ==
  /\ context = NoContext /\ transferId # 0
  /\ \E c \in Chunk : chunkRows[c] \in {"pending", "failed"}
  /\ context' = [at |-> IF \E c \in Chunk : chunkRows[c] = "failed" THEN "reset" ELSE "set",
                 verified |-> {c \in Chunk : chunkRows[c] = "verified"}]
  /\ job' = [job EXCEPT ![Home].clean = FALSE]
  /\ UNCHANGED <<transferId, madeIds, chunkRows, cachedId, complete, good, condemned,
                 mishaps>>

ResetFailedChunks(ok) ==
  /\ context.at = "reset" /\ Well(ok)
  /\ context' = IF ok THEN [context EXCEPT !.at = "set"] ELSE NoContext
  /\ chunkRows' = [c \in Chunk |-> IF ok /\ chunkRows[c] = "failed" THEN "pending"
                                   ELSE chunkRows[c]]
  /\ UNCHANGED <<transferId, madeIds, cachedId, job, complete, good, condemned>>

SetCompletedPieces ==
  /\ context.at = "set"
  /\ complete' = IF transferId # 0 /\ context.verified # {} THEN context.verified
                 ELSE complete
  /\ context' = NoContext
  /\ UNCHANGED <<transferId, madeIds, chunkRows, cachedId, job, good, condemned, mishaps>>
-----------------------------------------------------------------------------
Damaged(c) ==
  /\ c \in good /\ Mishap
  /\ good' = good \ {c}
  /\ UNCHANGED <<transferId, madeIds, chunkRows, cachedId, job, complete, context, condemned>>

RestartProc(p) ==
  /\ Mishap
  /\ cachedId' = [cachedId EXCEPT ![p] = 0] /\ job' = [job EXCEPT ![p] = Idle]
  /\ IF p = Home THEN complete' = {} /\ context' = NoContext
     ELSE UNCHANGED <<complete, context>>
  /\ UNCHANGED <<transferId, madeIds, chunkRows, good, condemned>>

CheckpointNext ==
  \/ DeleteTransfer \/ StartTorrent \/ BeginVerify \/ ApplyResults
  \/ ResumeRead \/ SetCompletedPieces
  \/ \E ok \in BOOLEAN : ResetFailedChunks(ok)
  \/ \E c \in Chunk : DownloadPiece(c) \/ VerifyPiece(c) \/ Damaged(c)
  \/ \E p \in Proc : \/ CreateTransfer(p) \/ GetTransferId(p) \/ RestartProc(p)
                     \/ \E ok \in BOOLEAN : InitializeChunks(p, ok) \/ UpdateChunks(p, ok)

CheckpointSpec == CheckpointInit /\ [][CheckpointNext]_checkVars
-----------------------------------------------------------------------------
(* Type invariant. *)
CheckpointTypeOK ==
  /\ transferId \in 0..MaxTransfers /\ madeIds \in 0..MaxTransfers
  /\ chunkRows \in [Chunk -> RowStatus] /\ cachedId \in [Proc -> 0..MaxTransfers]
  /\ \A p \in Proc : /\ job[p].at \in {"idle", "insert", "find", "update", "read"}
                     /\ job[p].chunks \subseteq Chunk /\ job[p].bad \subseteq Chunk
  /\ complete \subseteq Chunk /\ good \subseteq Chunk /\ condemned \subseteq Chunk
  /\ context.verified \subseteq Chunk /\ mishaps \in 0..MaxMishaps

(* What a verification found bad stays out: the piece does not count as complete and
   its row not as verified until it is downloaded or verified again, although a resume
   replaces the completed pieces by what the rows say.  Not so after a verification
   that was disturbed: a read error or a failed or misdirected update leaves the row
   verified, a resume that runs at the same time or a creation that has not marked its
   chunks yet overwrites the result. *)
VerificationSticks ==
  \A c \in condemned : c \notin complete /\ chunkRows[c] # "verified"
=============================================================================
