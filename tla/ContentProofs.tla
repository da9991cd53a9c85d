--------------------------- MODULE ContentProofs ----------------------------
(***************************************************************************)
(* Proofs about what counts as content that is there.                      *)
(*                                                                         *)
(* Checkpoint: what an undisturbed verification found bad stays out, for   *)
(* any processes, chunks, transfers and mishaps.  A verification condemns  *)
(* only if it stayed clean, which means that no resume holds rows it read  *)
(* before and that every bad piece of its has been marked in the rows; and *)
(* while something is condemned no creation is under way, since creating   *)
(* and deleting forget what was condemned.  Its types rest on Counted:     *)
(* an id that anyone kept is that of a row that was made.                  *)
(*                                                                         *)
(* ColdStart: it reports nothing that has not happened but for the named   *)
(* exceptions, for any number of pieces, attempts and failures.  A piece   *)
(* is counted behind its write because nothing is counted before there is  *)
(* a manager, and no file is emptied after: the writer comes first.  A     *)
(* verdict is earned because the pieces before the one in hand are stored, *)
(* in every attempt anew.                                                  *)
(*                                                                         *)
(* FileSelect: when nothing is left to download the selected files are     *)
(* whole, for any files and piece length, and the progress of a file is    *)
(* the bytes of its pieces unless it drifted.  The bytes of a file are     *)
(* those of its pieces, by induction over the pieces: what lies before the *)
(* end of a piece is what lies before its start and what the cut gives.    *)
(***************************************************************************)
EXTENDS Checkpoint, ColdStart, FileSelect, SequenceFacts

Marks == {"find", "update"}
Task == [at : {"idle", "insert", "find", "update", "read"}, id : Nat, todo : SUBSET Chunk,
         chunks : SUBSET Chunk, status : {"none", "bulk", "verified", "failed"},
         bad : SUBSET Chunk, clean : BOOLEAN]
Domains ==
  /\ transferId \in Nat /\ madeIds \in Nat /\ cachedId \in [Proc -> Nat]
  /\ chunkRows \in [Chunk -> RowStatus] /\ job \in [Proc -> Task]
  /\ complete \subseteq Chunk /\ good \subseteq Chunk /\ condemned \subseteq Chunk
  /\ context \in [at : {"idle", "reset", "set"}, verified : SUBSET Chunk]

(* Which jobs there are: only a creation inserts, only Home verifies. *)
Kinds ==
  /\ \A p \in Proc \ {Home} : job[p].at = "idle" \/ job[p].status = "bulk"
  /\ \A p \in Proc : /\ job[p].at = "insert" => job[p].status = "bulk"
                     /\ job[p].at = "read" => job[p].status # "bulk"
                     /\ job[p].status = "bulk" => job[p].at \in {"insert", "find", "update"}
                     /\ job[p].at \in {"find", "update"} => job[p].status # "none"
NoCreation == condemned # {} => \A p \in Proc : job[p].status # "bulk"
ContextIsFresh == context.at # "idle" => context.verified \intersect condemned = {}
BadIsApart ==
  /\ job[Home].bad \intersect job[Home].todo = {}
  /\ job[Home].at \in Marks /\ job[Home].status = "verified" =>
       job[Home].chunks \intersect (job[Home].bad \union condemned) = {}
CleanIsMarked ==
  job[Home].at # "idle" /\ job[Home].status # "bulk" /\ job[Home].clean =>
    /\ context = NoContext
    /\ \A c \in job[Home].bad : chunkRows[c] = "verified" =>
         job[Home].at \in Marks /\ job[Home].status = "failed" /\ c \in job[Home].chunks

CheckpointInv == /\ Domains /\ Kinds /\ NoCreation /\ ContextIsFresh /\ BadIsApart
        /\ CleanIsMarked /\ VerificationSticks
-----------------------------------------------------------------------------
(* Before the first transfer nothing is condemned and nobody is at work. *)
LEMMA CheckpointStart == CheckpointInit => CheckpointInv
<1> SUFFICES ASSUME CheckpointInit PROVE CheckpointInv
  OBVIOUS
<1> USE CheckpointAssumption DEF CheckpointInit, Idle, NoContext
<1>1. Domains
  BY DEF Domains, Task, RowStatus
<1>2. Kinds /\ NoCreation /\ ContextIsFresh /\ BadIsApart
  BY DEF Kinds, NoCreation, ContextIsFresh, BadIsApart, Marks
<1>3. CleanIsMarked /\ VerificationSticks
  BY DEF CleanIsMarked, VerificationSticks
<1> QED BY <1>1, <1>2, <1>3 DEF CheckpointInv

(* No job. *)
LEMMA IdleTask == Idle \in Task /\ Idle.at = "idle" /\ Idle.status = "none"
                  /\ Idle.bad = {} /\ Idle.todo = {} /\ Idle.clean = FALSE
  BY DEF Idle, Task
(* A job that marks. *)
LEMMA MarkingTask ==
  ASSUME NEW j \in Task, NEW id \in Nat
  PROVE  LET t == Marking(j, id)
         IN  /\ t \in Task /\ t.at \in Marks /\ t.status = j.status /\ t.bad = j.bad
             /\ t.todo = j.todo /\ t.chunks = j.chunks /\ t.clean = j.clean
  BY DEF Task, Marking, Marks
(* A job that is or is not disturbed. *)
LEMMA CleanTask ==
  ASSUME NEW j \in Task, NEW b \in BOOLEAN
  PROVE  LET t == [j EXCEPT !.clean = b]
         IN  /\ t \in Task /\ t.at = j.at /\ t.status = j.status /\ t.bad = j.bad
             /\ t.todo = j.todo /\ t.chunks = j.chunks /\ t.clean = b
  BY DEF Task
(* A job that reads on. *)
LEMMA ReadTask ==
  ASSUME NEW j \in Task
  PROVE  LET t == [j EXCEPT !.at = "read"]
         IN  /\ t \in Task /\ t.at = "read" /\ t.status = j.status /\ t.bad = j.bad
             /\ t.todo = j.todo /\ t.chunks = j.chunks /\ t.clean = j.clean
  BY DEF Task

(* A change of one process's job. *)
LEMMA OneJob ==
  ASSUME job \in [Proc -> Task], NEW p \in Proc, NEW t \in Task, job' = [job EXCEPT ![p] = t]
  PROVE  /\ job' \in [Proc -> Task] /\ job'[p] = t
         /\ \A q \in Proc : q # p => job'[q] = job[q]
  OBVIOUS
-----------------------------------------------------------------------------
(* Every step keeps the invariant. *)
LEMMA CheckpointKeeps == CheckpointInv /\ [CheckpointNext]_checkVars => CheckpointInv'
<1> SUFFICES ASSUME CheckpointInv, [CheckpointNext]_checkVars PROVE CheckpointInv'
  OBVIOUS
<1> DEFINE Rest == /\ Kinds /\ NoCreation /\ ContextIsFresh /\ BadIsApart
                   /\ CleanIsMarked /\ VerificationSticks
<1> USE CheckpointAssumption
<1>0. Domains /\ Rest /\ job \in [Proc -> Task]
  BY DEF CheckpointInv, Domains
<1>1. ASSUME NEW p \in Proc, CreateTransfer(p) PROVE Domains' /\ Rest'
  <2>1. PICK t \in Task : /\ t.at = "insert" /\ t.status = "bulk" /\ t.bad = {} /\ t.todo = {}
                          /\ job' = [job EXCEPT ![p] = t]
    <3> DEFINE t == [Idle EXCEPT !.at = "insert", !.id = madeIds + 1, !.chunks = Chunk,
                                 !.status = "bulk"]
    <3>1. t \in Task /\ t.at = "insert" /\ t.status = "bulk" /\ t.bad = {} /\ t.todo = {}
      <4>1. madeIds + 1 \in Nat
        BY <1>0 DEF Domains
      <4> QED BY <4>1 DEF Idle, Task
    <3>2. job' = [job EXCEPT ![p] = t]
      BY <1>1 DEF CreateTransfer
    <3> HIDE DEF t
    <3> QED BY <3>1, <3>2
  <2>2. /\ job' \in [Proc -> Task] /\ job'[p] = t
        /\ \A q \in Proc : q # p => job'[q] = job[q]
    BY <1>0, <2>1, OneJob
  <2>3. /\ condemned' = {} /\ context' = context /\ complete' = complete
        /\ chunkRows' = [c \in Chunk |-> "none"]
    BY <1>1 DEF CreateTransfer
  <2>4. Domains'
    BY <1>0, <1>1, <2>2, <2>3 DEF CreateTransfer, Domains, RowStatus
  <2>5. Kinds' /\ NoCreation' /\ ContextIsFresh' /\ VerificationSticks'
    BY <1>0, <2>1, <2>2, <2>3 DEF Kinds, NoCreation, ContextIsFresh, VerificationSticks
  <2>6. BadIsApart' /\ CleanIsMarked'
    <3>1. job[Home].bad \subseteq Chunk
      BY <1>0 DEF Task
    <3> QED BY <1>0, <2>1, <2>2, <2>3, <3>1 DEF BadIsApart, CleanIsMarked, Marks
  <2> QED BY <2>4, <2>5, <2>6
<1>2. ASSUME NEW p \in Proc, NEW ok \in BOOLEAN, InitializeChunks(p, ok)
      PROVE  Domains' /\ Rest'
  <2>1. /\ chunkRows' \in [Chunk -> RowStatus] /\ cachedId' \in [Proc -> Nat]
        /\ UNCHANGED <<transferId, madeIds, complete, good, context, condemned>>
        /\ \A c \in Chunk : chunkRows'[c] = "verified" => chunkRows[c] = "verified"
    BY <1>0, <1>2 DEF InitializeChunks, Domains, RowStatus
  <2>2. PICK t \in Task : /\ t.at \in Marks /\ t.status = job[p].status /\ t.bad = job[p].bad
                          /\ t.todo = job[p].todo /\ job' = [job EXCEPT ![p] = t]
    <3> DEFINE t == Marking(job[p], cachedId'[p])
    <3>1. job[p] \in Task /\ cachedId'[p] \in Nat
      BY <1>0, <2>1
    <3>2. job' = [job EXCEPT ![p] = t]
      BY <1>2 DEF InitializeChunks
    <3>3. /\ t \in Task /\ t.at \in Marks /\ t.status = job[p].status
          /\ t.bad = job[p].bad /\ t.todo = job[p].todo
      BY <3>1, MarkingTask
    <3> HIDE DEF t
    <3> QED BY <3>2, <3>3
  <2>3. /\ job' \in [Proc -> Task] /\ job'[p] = t
        /\ \A q \in Proc : q # p => job'[q] = job[q]
    BY <1>0, <2>2, OneJob
  <2>4. job[p].status = "bulk" /\ condemned = {} /\ condemned' = {}
    BY <1>0, <1>2, <2>1 DEF InitializeChunks, Kinds, NoCreation
  <2>5. Domains'
    BY <1>0, <2>1, <2>3 DEF Domains
  <2>6. Kinds' /\ NoCreation' /\ ContextIsFresh' /\ VerificationSticks'
    BY <1>0, <2>1, <2>2, <2>3, <2>4 DEF Kinds, NoCreation, ContextIsFresh, VerificationSticks, Marks
  <2>7. BadIsApart' /\ CleanIsMarked'
    BY <1>0, <2>1, <2>2, <2>3, <2>4 DEF Domains, Task, BadIsApart, CleanIsMarked
  <2> QED BY <2>5, <2>6, <2>7
<1>3. ASSUME NEW p \in Proc, GetTransferId(p) PROVE Domains' /\ Rest'
  <2>1. /\ job[p].at = "find"
        /\ UNCHANGED <<transferId, madeIds, chunkRows, cachedId, complete, good, context, condemned>>
    BY <1>3 DEF GetTransferId
  <2>2. PICK t \in Task :
          /\ job' = [job EXCEPT ![p] = t]
          /\ \/ t.bad = job[p].bad /\ t.todo = job[p].todo
             \/ t.bad = {} /\ t.todo = {}
          /\ \/ /\ t.at = "update" /\ t.status = job[p].status /\ t.clean = job[p].clean
                /\ t.chunks = job[p].chunks /\ t.bad = job[p].bad
             \/ /\ ~t.clean
                /\ IF job[p].status = "bulk" THEN t.at = "idle" /\ t.status = "none"
                   ELSE t.at = "read" /\ t.status = job[p].status
    <3>1. CASE transferId = 0
      <4> DEFINE t == [AfterMark(job[p]) EXCEPT !.clean = FALSE]
      <4>1. job' = [job EXCEPT ![p] = t]
        BY <1>3, <3>1 DEF GetTransferId
      <4>2. CASE job[p].status = "bulk"
        <5>1. t = [Idle EXCEPT !.clean = FALSE]
          BY <4>2 DEF AfterMark
        <5> HIDE DEF t
        <5>2. /\ t \in Task /\ t.at = "idle" /\ t.status = "none" /\ t.bad = {} /\ t.todo = {}
              /\ t.clean = FALSE
          BY <5>1 DEF Idle, Task
        <5> QED BY <4>1, <4>2, <5>2
      <4>3. CASE job[p].status # "bulk"
        <5>1. AfterMark(job[p]) = [job[p] EXCEPT !.at = "read"]
          BY <4>3 DEF AfterMark
        <5>2. job[p] \in Task
          BY <1>0
        <5> HIDE DEF t
        <5>3. AfterMark(job[p]) \in Task /\ AfterMark(job[p]).at = "read"
              /\ AfterMark(job[p]).status = job[p].status
              /\ AfterMark(job[p]).bad = job[p].bad /\ AfterMark(job[p]).todo = job[p].todo
          BY <5>1, <5>2, ReadTask
        <5>4. /\ t \in Task /\ t.at = "read" /\ t.status = job[p].status
              /\ t.bad = job[p].bad /\ t.todo = job[p].todo /\ t.clean = FALSE
          BY <5>3 DEF t, Task
        <5> QED BY <4>1, <4>3, <5>4
      <4> QED BY <4>2, <4>3
    <3>2. CASE transferId # 0
      <4> DEFINE t == [job[p] EXCEPT !.at = "update", !.id = transferId]
      <4>1. job' = [job EXCEPT ![p] = t]
        BY <1>3, <3>2 DEF GetTransferId
      <4>2. job[p] \in Task /\ transferId \in Nat
        BY <1>0 DEF Domains
      <4>3. /\ t \in Task /\ t.at = "update" /\ t.status = job[p].status /\ t.bad = job[p].bad
            /\ t.todo = job[p].todo /\ t.chunks = job[p].chunks /\ t.clean = job[p].clean
        BY <4>2 DEF Task
      <4> HIDE DEF t
      <4> QED BY <4>1, <4>3
    <3> QED BY <3>1, <3>2
  <2>3. /\ job' \in [Proc -> Task] /\ job'[p] = t
        /\ \A q \in Proc : q # p => job'[q] = job[q]
    BY <1>0, <2>2, OneJob
  <2>4. Domains'
    BY <1>0, <2>1, <2>3 DEF Domains
  <2>5. Kinds' /\ NoCreation' /\ ContextIsFresh' /\ VerificationSticks'
    BY <1>0, <2>1, <2>2, <2>3 DEF Kinds, NoCreation, ContextIsFresh, VerificationSticks
  <2>6. BadIsApart'
    BY <1>0, <2>1, <2>2, <2>3 DEF BadIsApart, Marks
  <2>7. CleanIsMarked'
    BY <1>0, <2>1, <2>2, <2>3 DEF CleanIsMarked, Marks
  <2> QED BY <2>4, <2>5, <2>6, <2>7
<1>4. ASSUME NEW p \in Proc, NEW ok \in BOOLEAN, UpdateChunks(p, ok) PROVE Domains' /\ Rest'
  <2> DEFINE hit == ok /\ job[p].id = transferId
  <2>1. /\ job[p].at = "update" /\ job[p] \in Task
        /\ UNCHANGED <<transferId, madeIds, complete, good, context, condemned>>
        /\ chunkRows' = IF hit THEN Marked(job[p]) ELSE chunkRows
        /\ cachedId' \in [Proc -> Nat]
    BY <1>0, <1>4 DEF UpdateChunks, Domains, Task
  <2>2. chunkRows' \in [Chunk -> RowStatus]
    BY <1>0, <2>1 DEF Domains, Marked, RowStatus
  <2>3. job' = [q \in Proc |->
          IF q = p THEN [AfterMark(job[p]) EXCEPT !.clean = @ /\ hit]
          ELSE IF job[p].status = "bulk" THEN [job[q] EXCEPT !.clean = FALSE] ELSE job[q]]
    BY <1>4 DEF UpdateChunks
  <2>4. CASE job[p].status = "bulk"
    <3>1. condemned = {} /\ condemned' = {}
      BY <1>0, <2>1, <2>4 DEF NoCreation
    <3>2. job'[p] = [Idle EXCEPT !.clean = @ /\ hit]
      BY <2>3, <2>4 DEF AfterMark
    <3>3. /\ job'[p] \in Task /\ job'[p].at = "idle" /\ job'[p].status = "none"
          /\ job'[p].bad = {} /\ job'[p].todo = {}
      <4>1. ~(Idle.clean /\ hit)
        BY IdleTask
      <4>2. job'[p] = [Idle EXCEPT !.clean = FALSE]
        BY <3>2, <4>1, IdleTask
      <4> QED BY <4>2, IdleTask DEF Task
    <3>4. \A q \in Proc : q # p =>
            /\ job'[q] \in Task /\ job'[q].at = job[q].at /\ job'[q].status = job[q].status
            /\ job'[q].bad = job[q].bad /\ job'[q].todo = job[q].todo
            /\ job'[q].chunks = job[q].chunks /\ job'[q].clean = FALSE
      <4> SUFFICES ASSUME NEW q \in Proc, q # p
                   PROVE  /\ job'[q] \in Task /\ job'[q].at = job[q].at
                          /\ job'[q].status = job[q].status /\ job'[q].bad = job[q].bad
                          /\ job'[q].todo = job[q].todo /\ job'[q].chunks = job[q].chunks
                          /\ job'[q].clean = FALSE
        OBVIOUS
      <4>1. job'[q] = [job[q] EXCEPT !.clean = FALSE]
        BY <2>3, <2>4
      <4>2. job[q] \in Task
        BY <1>0
      <4> QED BY <4>1, <4>2 DEF Task
    <3>5. job' \in [Proc -> Task]
      BY <2>3, <3>3, <3>4
    <3>6. Domains'
      BY <1>0, <2>1, <2>2, <3>5 DEF Domains
    <3>7. Kinds' /\ NoCreation' /\ ContextIsFresh' /\ VerificationSticks'
      BY <1>0, <2>1, <3>1, <3>3, <3>4 DEF Kinds, NoCreation, ContextIsFresh, VerificationSticks
    <3>8. BadIsApart' /\ CleanIsMarked'
      BY <1>0, <3>1, <3>3, <3>4 DEF BadIsApart, CleanIsMarked, Marks
    <3> QED BY <3>6, <3>7, <3>8
  <2>5. CASE job[p].status # "bulk"
    <3>1. p = Home
      BY <1>0, <2>1, <2>5 DEF Kinds
    <3>2. /\ job'[p] \in Task /\ job'[p].at = "read" /\ job'[p].status = job[p].status
          /\ job'[p].bad = job[p].bad /\ job'[p].todo = job[p].todo
          /\ job'[p].clean = (job[p].clean /\ hit)
      <4>1. job'[p] = [[job[p] EXCEPT !.at = "read"] EXCEPT !.clean = @ /\ hit]
        BY <2>3, <2>5 DEF AfterMark
      <4> DEFINE r == [job[p] EXCEPT !.at = "read"]
      <4>2. /\ r \in Task /\ r.at = "read" /\ r.status = job[p].status /\ r.bad = job[p].bad
            /\ r.todo = job[p].todo /\ r.clean = job[p].clean
        BY <2>1, ReadTask
      <4> DEFINE b == r.clean /\ hit
      <4>3. job'[p] = [r EXCEPT !.clean = b]
        BY <4>1
      <4>4. b \in BOOLEAN /\ b = (job[p].clean /\ hit)
        BY <4>2
      <4> HIDE DEF r, hit, b
      <4>5. /\ job'[p] \in Task /\ job'[p].at = r.at /\ job'[p].status = r.status
            /\ job'[p].bad = r.bad /\ job'[p].todo = r.todo /\ job'[p].clean = b
        BY <4>2, <4>3, <4>4 DEF Task
      <4> QED BY <4>2, <4>4, <4>5
    <3>3. \A q \in Proc : q # p => job'[q] = job[q]
      BY <2>3, <2>5
    <3>4. job' \in [Proc -> Task]
      BY <1>0, <2>3, <3>2, <3>3
    <3>5. Domains'
      BY <1>0, <2>1, <2>2, <3>4 DEF Domains
    <3>6. Kinds' /\ NoCreation' /\ ContextIsFresh' /\ BadIsApart'
      BY <1>0, <2>1, <2>5, <3>1, <3>2, <3>3 DEF Kinds, NoCreation, ContextIsFresh, BadIsApart, Marks
    <3>7. \A c \in Chunk : chunkRows'[c] = "verified" =>
            \/ chunkRows[c] = "verified" /\ (hit => c \notin job[p].chunks \/ job[p].status # "failed")
            \/ job[p].status # "failed" /\ c \in job[p].chunks
      BY <1>0, <2>1 DEF Marked, Domains
    <3>8. job[p].status \in {"verified", "failed"} /\ job[p].bad \subseteq Chunk
      BY <1>0, <2>1, <2>5 DEF Kinds, Task
    <3>9. job[p].status = "verified" =>
            job[p].chunks \intersect (job[p].bad \union condemned) = {}
      BY <1>0, <2>1, <3>1 DEF BadIsApart, Marks
    <3>10. CleanIsMarked'
      BY <1>0, <2>1, <2>5, <3>1, <3>2, <3>7, <3>8, <3>9 DEF CleanIsMarked, Marks
    <3>11. VerificationSticks'
      BY <1>0, <2>1, <3>7, <3>8, <3>9 DEF VerificationSticks, Domains
    <3> QED BY <3>5, <3>6, <3>10, <3>11
  <2> QED BY <2>4, <2>5
<1>5. ASSUME DeleteTransfer PROVE Domains' /\ Rest'
  BY <1>0, <1>5 DEF DeleteTransfer, Domains, RowStatus, Kinds, NoCreation, ContextIsFresh,
                    BadIsApart, CleanIsMarked, VerificationSticks, Task
<1>6. ASSUME StartTorrent PROVE Domains' /\ Rest'
  BY <1>0, <1>6 DEF StartTorrent, Domains, Kinds, NoCreation, ContextIsFresh, BadIsApart,
                    CleanIsMarked, VerificationSticks
<1>7. ASSUME NEW c \in Chunk, DownloadPiece(c) \/ Damaged(c) PROVE Domains' /\ Rest'
  BY <1>0, <1>7 DEF DownloadPiece, Damaged, Domains, Kinds, NoCreation, ContextIsFresh,
                    BadIsApart, CleanIsMarked, VerificationSticks
<1>8. ASSUME BeginVerify PROVE Domains' /\ Rest'
  <2>1. PICK t \in Task :
          /\ job' = [job EXCEPT ![Home] = t]
          /\ t.at = "read" /\ t.status = "none" /\ t.bad = {}
          /\ t.clean => context = NoContext
    <3> DEFINE fresh == context = NoContext
               t == [Idle EXCEPT !.at = "read", !.todo = complete, !.clean = fresh]
    <3>1. fresh \in BOOLEAN /\ complete \in SUBSET Chunk
      BY <1>0 DEF Domains
    <3>2. job' = [job EXCEPT ![Home] = t]
      BY <1>8 DEF BeginVerify
    <3>3. t \in Task /\ t.at = "read" /\ t.status = "none" /\ t.bad = {} /\ t.clean = fresh
      <4> HIDE DEF fresh
      <4> QED BY <3>1 DEF Idle, Task
    <3> HIDE DEF t
    <3> QED BY <3>2, <3>3
  <2>2. /\ job' \in [Proc -> Task] /\ job'[Home] = t
        /\ \A q \in Proc : q # Home => job'[q] = job[q]
    BY <1>0, <2>1, OneJob
  <2>3. UNCHANGED <<transferId, madeIds, chunkRows, cachedId, complete, good, context, condemned>>
    BY <1>8 DEF BeginVerify
  <2>4. Domains'
    BY <1>0, <2>2, <2>3 DEF Domains
  <2>5. Kinds' /\ NoCreation' /\ ContextIsFresh' /\ VerificationSticks'
    BY <1>0, <2>1, <2>2, <2>3 DEF Kinds, NoCreation, ContextIsFresh, VerificationSticks
  <2>6. BadIsApart' /\ CleanIsMarked'
    BY <1>0, <2>1, <2>2, <2>3 DEF BadIsApart, CleanIsMarked, Marks
  <2> QED BY <2>4, <2>5, <2>6
<1>9. ASSUME NEW c \in Chunk, VerifyPiece(c) PROVE Domains' /\ Rest'
  <2>1. /\ job[Home].at = "read" /\ c \in job[Home].todo /\ job[Home] \in Task
        /\ job[Home].status # "bulk" /\ cachedId[Home] \in Nat
        /\ UNCHANGED <<transferId, madeIds, chunkRows, cachedId, complete, good, context>>
    BY <1>0, <1>9 DEF VerifyPiece, Kinds, Domains
  <2>2. PICK t \in Task :
          /\ job' = [job EXCEPT ![Home] = t] /\ t.todo = job[Home].todo \ {c} /\ t.chunks = {c}
          /\ \/ /\ t.at \in Marks /\ t.status = "verified" /\ t.bad = job[Home].bad
                /\ t.clean = job[Home].clean /\ condemned' = condemned \ {c}
             \/ /\ t.at \in Marks /\ t.status = "failed" /\ t.bad = job[Home].bad \union {c}
                /\ t.clean = job[Home].clean /\ condemned' = condemned
             \/ /\ t.at = "read" /\ t.status = job[Home].status /\ ~t.clean
                /\ t.bad = job[Home].bad \union {c} /\ condemned' = condemned
    <3> DEFINE j == [job[Home] EXCEPT !.todo = @ \ {c}, !.chunks = {c}]
               right == [j EXCEPT !.status = "verified"]
               wrong == [j EXCEPT !.status = "failed", !.bad = @ \union {c}]
               unread == [j EXCEPT !.bad = @ \union {c}, !.clean = FALSE]
    <3>1. /\ j \in Task /\ j.todo = job[Home].todo \ {c} /\ j.chunks = {c}
          /\ j.at = job[Home].at /\ j.status = job[Home].status /\ j.bad = job[Home].bad
          /\ j.clean = job[Home].clean
      BY <2>1 DEF Task
    <3>2. \/ /\ job' = [job EXCEPT ![Home] = Marking(right, cachedId[Home])]
             /\ condemned' = condemned \ {c}
          \/ /\ job' = [job EXCEPT ![Home] = Marking(wrong, cachedId[Home])]
             /\ condemned' = condemned
          \/ job' = [job EXCEPT ![Home] = unread] /\ condemned' = condemned
      BY <1>9 DEF VerifyPiece
    <3> HIDE DEF j
    <3>3. /\ right \in Task /\ right.status = "verified" /\ right.todo = j.todo
          /\ right.chunks = j.chunks /\ right.bad = j.bad /\ right.clean = j.clean
      BY <3>1 DEF Task
    <3>4. /\ wrong \in Task /\ wrong.status = "failed" /\ wrong.todo = j.todo
          /\ wrong.chunks = j.chunks /\ wrong.bad = j.bad \union {c} /\ wrong.clean = j.clean
      BY <3>1 DEF Task
    <3>5. /\ unread \in Task /\ unread.status = j.status /\ unread.todo = j.todo
          /\ unread.chunks = j.chunks /\ unread.bad = j.bad \union {c} /\ unread.clean = FALSE
          /\ unread.at = j.at
      BY <3>1 DEF Task
    <3> HIDE DEF right, wrong, unread
    <3>6. CASE job' = [job EXCEPT ![Home] = Marking(right, cachedId[Home])]
               /\ condemned' = condemned \ {c}
      <4> DEFINE t == Marking(right, cachedId[Home])
      <4>1. /\ t \in Task /\ t.at \in Marks /\ t.status = right.status /\ t.bad = right.bad
            /\ t.todo = right.todo /\ t.chunks = right.chunks /\ t.clean = right.clean
        BY <2>1, <3>3, MarkingTask
      <4>2. job' = [job EXCEPT ![Home] = t]
        BY <3>6
      <4> HIDE DEF t
      <4> QED BY <3>1, <3>3, <3>6, <4>1, <4>2
    <3>7. CASE job' = [job EXCEPT ![Home] = Marking(wrong, cachedId[Home])]
               /\ condemned' = condemned
      <4> DEFINE t == Marking(wrong, cachedId[Home])
      <4>1. /\ t \in Task /\ t.at \in Marks /\ t.status = wrong.status /\ t.bad = wrong.bad
            /\ t.todo = wrong.todo /\ t.chunks = wrong.chunks /\ t.clean = wrong.clean
        BY <2>1, <3>4, MarkingTask
      <4>2. job' = [job EXCEPT ![Home] = t]
        BY <3>7
      <4> HIDE DEF t
      <4> QED BY <3>1, <3>4, <3>7, <4>1, <4>2
    <3>8. CASE job' = [job EXCEPT ![Home] = unread] /\ condemned' = condemned
      BY <2>1, <3>1, <3>5, <3>8
    <3> QED BY <3>2, <3>6, <3>7, <3>8
  <2>3. /\ job' \in [Proc -> Task] /\ job'[Home] = t
        /\ \A q \in Proc : q # Home => job'[q] = job[q]
    BY <1>0, <2>2, OneJob
  <2>4. condemned' \subseteq condemned
    BY <2>2
  <2>5. Domains'
    BY <1>0, <2>1, <2>3, <2>4 DEF Domains
  <2>6. Kinds' /\ NoCreation' /\ ContextIsFresh' /\ VerificationSticks'
    BY <1>0, <2>1, <2>2, <2>3, <2>4
       DEF Kinds, NoCreation, ContextIsFresh, VerificationSticks, Marks
  <2>7. BadIsApart'
    BY <1>0, <2>1, <2>2, <2>3 DEF BadIsApart, Marks
  <2>8. CleanIsMarked'
    BY <1>0, <2>1, <2>2, <2>3 DEF CleanIsMarked, Marks
  <2> QED BY <2>5, <2>6, <2>7, <2>8
<1>10. ASSUME ApplyResults PROVE Domains' /\ Rest'
  <2>1. /\ job[Home].at = "read" /\ job[Home].status # "bulk" /\ job[Home] \in Task
        /\ UNCHANGED <<transferId, madeIds, chunkRows, cachedId, good, context>>
        /\ complete' = complete \ job[Home].bad
        /\ job' = [job EXCEPT ![Home] = Idle]
    BY <1>0, <1>10 DEF ApplyResults, Kinds
  <2>2. /\ job' \in [Proc -> Task] /\ job'[Home] = Idle
        /\ \A q \in Proc : q # Home => job'[q] = job[q]
    BY <1>0, <2>1, OneJob, IdleTask
  <2>3. \/ condemned' = condemned
        \/ /\ condemned' = condemned \union job[Home].bad /\ job[Home].clean
           /\ \A q \in Proc : q # Home => job[q] = Idle
    BY <1>10 DEF ApplyResults
  <2>4. Domains'
    BY <1>0, <2>1, <2>2, <2>3 DEF Domains, Task
  <2>5. Kinds' /\ BadIsApart' /\ CleanIsMarked'
    BY <1>0, <2>2, IdleTask DEF Kinds, BadIsApart, CleanIsMarked, Marks
  <2>6. NoCreation'
    BY <1>0, <2>2, <2>3, IdleTask DEF NoCreation
  <2>7. ContextIsFresh'
    BY <1>0, <2>1, <2>3 DEF ContextIsFresh, CleanIsMarked, NoContext
  <2>8. VerificationSticks'
    BY <1>0, <2>1, <2>3 DEF VerificationSticks, CleanIsMarked, Marks
  <2> QED BY <2>4, <2>5, <2>6, <2>7, <2>8
<1>11. ASSUME ResumeRead PROVE Domains' /\ Rest'
  <2>1. PICK t \in Task :
          /\ job' = [job EXCEPT ![Home] = t] /\ ~t.clean /\ t.at = job[Home].at
          /\ t.status = job[Home].status /\ t.bad = job[Home].bad /\ t.todo = job[Home].todo
          /\ t.chunks = job[Home].chunks
    <3>1. job' = [job EXCEPT ![Home] = [job[Home] EXCEPT !.clean = FALSE]]
      BY <1>0, <1>11 DEF ResumeRead
    <3> QED BY <1>0, <3>1, CleanTask
  <2>2. /\ job' \in [Proc -> Task] /\ job'[Home] = t
        /\ \A q \in Proc : q # Home => job'[q] = job[q]
    BY <1>0, <2>1, OneJob
  <2>3. /\ UNCHANGED <<transferId, madeIds, chunkRows, cachedId, complete, good, condemned>>
        /\ context' \in [at : {"reset", "set"}, verified : SUBSET Chunk]
        /\ context'.verified = {c \in Chunk : chunkRows[c] = "verified"}
    BY <1>11 DEF ResumeRead
  <2>4. Domains'
    BY <1>0, <2>2, <2>3 DEF Domains
  <2>5. Kinds' /\ NoCreation' /\ BadIsApart' /\ CleanIsMarked'
    BY <1>0, <2>1, <2>2, <2>3 DEF Kinds, NoCreation, BadIsApart, CleanIsMarked
  <2>6. ContextIsFresh' /\ VerificationSticks'
    BY <1>0, <2>3 DEF ContextIsFresh, VerificationSticks
  <2> QED BY <2>4, <2>5, <2>6
<1>12. ASSUME NEW ok \in BOOLEAN, ResetFailedChunks(ok) PROVE Domains' /\ Rest'
  <2>1. /\ UNCHANGED <<transferId, madeIds, cachedId, job, complete, good, condemned>>
        /\ context.at = "reset"
        /\ chunkRows' \in [Chunk -> RowStatus]
        /\ \A c \in Chunk : chunkRows'[c] = "verified" => chunkRows[c] = "verified"
    BY <1>0, <1>12 DEF ResetFailedChunks, Domains, RowStatus
  <2>2. /\ context' \in [at : {"idle", "reset", "set"}, verified : SUBSET Chunk]
        /\ context'.at # "idle" => context'.verified = context.verified
    BY <1>0, <1>12 DEF ResetFailedChunks, Domains, NoContext
  <2>3. Domains'
    BY <1>0, <2>1, <2>2 DEF Domains
  <2>4. Kinds' /\ NoCreation' /\ BadIsApart' /\ ContextIsFresh' /\ VerificationSticks'
    BY <1>0, <2>1, <2>2
       DEF Domains, Kinds, NoCreation, BadIsApart, ContextIsFresh, VerificationSticks
  <2>5. CleanIsMarked'
    BY <1>0, <2>1 DEF CleanIsMarked, NoContext
  <2> QED BY <2>3, <2>4, <2>5
<1>13. ASSUME SetCompletedPieces PROVE Domains' /\ Rest'
  <2>1. /\ UNCHANGED <<transferId, madeIds, chunkRows, cachedId, job, good, condemned>>
        /\ context.at = "set" /\ context' = NoContext
        /\ complete' = context.verified \/ complete' = complete
    BY <1>13 DEF SetCompletedPieces
  <2>2. Domains'
    BY <1>0, <2>1 DEF Domains, NoContext
  <2>3. Kinds' /\ NoCreation' /\ BadIsApart' /\ CleanIsMarked'
    BY <1>0, <2>1 DEF Kinds, NoCreation, BadIsApart, CleanIsMarked, NoContext
  <2>4. ContextIsFresh' /\ VerificationSticks'
    BY <1>0, <2>1 DEF ContextIsFresh, VerificationSticks, NoContext
  <2> QED BY <2>2, <2>3, <2>4
<1>14. ASSUME NEW p \in Proc, RestartProc(p) PROVE Domains' /\ Rest'
  <2>1. /\ UNCHANGED <<transferId, madeIds, chunkRows, good, condemned>>
        /\ cachedId' \in [Proc -> Nat] /\ job' = [job EXCEPT ![p] = Idle]
        /\ \/ complete' = complete /\ context' = context
           \/ complete' = {} /\ context' = NoContext
    BY <1>0, <1>14 DEF RestartProc, Domains
  <2>2. /\ job' \in [Proc -> Task] /\ job'[p] = Idle
        /\ \A q \in Proc : q # p => job'[q] = job[q]
    BY <1>0, <2>1, OneJob, IdleTask
  <2>3. Domains'
    BY <1>0, <2>1, <2>2 DEF Domains, NoContext
  <2>4. Kinds' /\ NoCreation' /\ BadIsApart' /\ CleanIsMarked'
    BY <1>0, <2>1, <2>2, IdleTask DEF Kinds, NoCreation, BadIsApart, CleanIsMarked, Marks
  <2>5. ContextIsFresh' /\ VerificationSticks'
    BY <1>0, <2>1 DEF ContextIsFresh, VerificationSticks, NoContext
  <2> QED BY <2>3, <2>4, <2>5
<1>15. ASSUME UNCHANGED checkVars PROVE Domains' /\ Rest'
  BY <1>0, <1>15 DEF checkVars, Domains, Kinds, NoCreation, ContextIsFresh, BadIsApart,
                     CleanIsMarked, VerificationSticks
<1>16. Domains' /\ Rest'
  <2> HIDE DEF Rest
  <2>1. CASE \E p \in Proc : CreateTransfer(p) \/ GetTransferId(p) \/ RestartProc(p)
    BY <2>1, <1>1, <1>3, <1>14
  <2>2. CASE \E p \in Proc : \E ok \in BOOLEAN : InitializeChunks(p, ok) \/ UpdateChunks(p, ok)
    BY <2>2, <1>2, <1>4
  <2>3. CASE \E c \in Chunk : DownloadPiece(c) \/ VerifyPiece(c) \/ Damaged(c)
    BY <2>3, <1>7, <1>9
  <2>4. CASE \E ok \in BOOLEAN : ResetFailedChunks(ok)
    BY <2>4, <1>12
  <2> QED BY <1>5, <1>6, <1>8, <1>10, <1>11, <1>13, <1>15, <2>1, <2>2, <2>3, <2>4
          DEF CheckpointNext
<1>17. Domains' /\ Rest' => CheckpointInv'
  BY DEF CheckpointInv
<1> QED BY <1>16, <1>17
-----------------------------------------------------------------------------
(* A piece that an undisturbed verification found bad neither counts as complete nor has
   a verified row until it is downloaded or verified again (checkpointer.js,
   resumeService.js, torrent.js _applyVerificationResults). *)
THEOREM CondemnedStaysOut == CheckpointSpec => []VerificationSticks
<1>1. CheckpointInv => VerificationSticks
  BY DEF CheckpointInv
<1> QED BY <1>1, CheckpointStart, CheckpointKeeps, PTL DEF CheckpointSpec

(* Every id that is kept anywhere is one of a row that was made. *)
Counted ==
  /\ transferId <= madeIds /\ madeIds <= MaxTransfers /\ mishaps \in 0..MaxMishaps
  /\ \A p \in Proc : cachedId[p] <= madeIds /\ job[p].id <= madeIds

(* The id that a job works on. *)
LEMMA TaskIds ==
  ASSUME NEW j \in Task, NEW id \in Nat, NEW b \in BOOLEAN
  PROVE  /\ Marking(j, id).id = id /\ Idle.id = 0
         /\ AfterMark(j) \in Task /\ AfterMark(j).id \in {0, j.id}
         /\ [j EXCEPT !.clean = b].id = j.id
<1>1. AfterMark(j) \in Task /\ AfterMark(j).id \in {0, j.id}
  <2>1. CASE j.status = "bulk"
    BY <2>1, IdleTask DEF AfterMark, Idle
  <2>2. CASE j.status # "bulk"
    <3>1. [j EXCEPT !.at = "read"] \in Task /\ [j EXCEPT !.at = "read"].id = j.id
      BY DEF Task
    <3>. QED BY <2>2, <3>1 DEF AfterMark
  <2>. QED BY <2>1, <2>2
<1>2. Marking(j, id).id = id
  BY DEF Task, Marking
<1>3. [j EXCEPT !.clean = b].id = j.id
  BY DEF Task
<1>. QED BY <1>1, <1>2, <1>3 DEF Idle

(* Every step keeps the ids and the bounds. *)
LEMMA CountedKeeps == CheckpointInv /\ Counted /\ [CheckpointNext]_checkVars => Counted'
<1>. SUFFICES ASSUME CheckpointInv, Counted, [CheckpointNext]_checkVars PROVE Counted'
  OBVIOUS
<1>0. /\ transferId \in Nat /\ madeIds \in Nat /\ MaxTransfers \in Nat /\ MaxMishaps \in Nat
      /\ transferId <= madeIds /\ madeIds <= MaxTransfers /\ mishaps \in 0..MaxMishaps
      /\ \A p \in Proc : /\ job[p] \in Task /\ cachedId[p] \in Nat /\ cachedId[p] <= madeIds
                         /\ job[p].id \in Nat /\ job[p].id <= madeIds
      /\ cachedId \in [Proc -> Nat] /\ job \in [Proc -> Task] /\ Home \in Proc
  BY CheckpointAssumption DEF CheckpointInv, Domains, Task, Counted
<1>. DEFINE SameIds == \A p \in Proc : job'[p].id <= madeIds' /\ cachedId'[p] <= madeIds'
            Totals == /\ transferId' <= madeIds' /\ madeIds' <= MaxTransfers
                      /\ mishaps' \in 0..MaxMishaps
<1>1. ASSUME SameIds, Totals PROVE Counted'
  BY <1>1 DEF Counted
<1>2. ASSUME job' = job, cachedId' = cachedId, madeIds' = madeIds PROVE SameIds
  BY <1>0, <1>2
<1>3. ASSUME UNCHANGED mishaps \/ Mishap PROVE mishaps' \in 0..MaxMishaps
  BY <1>0, <1>3 DEF Mishap
<1>4. ASSUME NEW p \in Proc, NEW t, job' = [job EXCEPT ![p] = t], t.id <= madeIds,
             cachedId' = cachedId, madeIds' = madeIds
      PROVE  SameIds
  BY <1>0, <1>4
<1>5. ASSUME NEW p \in Proc, CreateTransfer(p) PROVE Counted'
  <2>. DEFINE t == [Idle EXCEPT !.at = "insert", !.id = madeIds + 1, !.chunks = Chunk,
                                !.status = "bulk"]
  <2>1. t.id = madeIds + 1
    BY DEF Idle
  <2>2. /\ job' = [job EXCEPT ![p] = t] /\ madeIds < MaxTransfers /\ madeIds' = madeIds + 1
        /\ transferId' = madeIds + 1 /\ cachedId' = cachedId /\ mishaps' = mishaps
    BY <1>5 DEF CreateTransfer
  <2>. HIDE DEF t
  <2>3. SameIds
    BY <1>0, <2>1, <2>2
  <2>. QED BY <1>0, <1>1, <2>2, <2>3
<1>6. ASSUME NEW p \in Proc, NEW ok \in BOOLEAN, InitializeChunks(p, ok) PROVE Counted'
  <2>1. /\ UNCHANGED <<transferId, madeIds>> /\ (UNCHANGED mishaps \/ Mishap)
        /\ cachedId' = cachedId \/ cachedId' = [cachedId EXCEPT ![p] = transferId]
        /\ job' = [job EXCEPT ![p] = Marking(@, cachedId'[p])]
    BY <1>6 DEF InitializeChunks, Well
  <2>2. \A q \in Proc : cachedId'[q] \in Nat /\ cachedId'[q] <= madeIds
    BY <1>0, <2>1
  <2>3. Marking(job[p], cachedId'[p]).id = cachedId'[p]
    BY <1>0, <2>2, TaskIds
  <2>4. SameIds
    BY <1>0, <2>1, <2>2, <2>3
  <2>. QED BY <1>0, <1>1, <1>3, <2>1, <2>4
<1>7. ASSUME NEW p \in Proc, GetTransferId(p) PROVE Counted'
  <2>1. /\ UNCHANGED <<transferId, madeIds, cachedId, mishaps>>
        /\ job' = [job EXCEPT ![p] = IF transferId = 0
                                     THEN [AfterMark(job[p]) EXCEPT !.clean = FALSE]
                                     ELSE [job[p] EXCEPT !.at = "update", !.id = transferId]]
    BY <1>7 DEF GetTransferId
  <2>2. [job[p] EXCEPT !.at = "update", !.id = transferId].id = transferId
    BY <1>0 DEF Task
  <2>3. AfterMark(job[p]) \in Task /\ AfterMark(job[p]).id \in {0, job[p].id}
    BY <1>0, TaskIds
  <2>4. [AfterMark(job[p]) EXCEPT !.clean = FALSE].id = AfterMark(job[p]).id
    BY <1>0, <2>3, TaskIds
  <2>5. SameIds
    <3>1. CASE transferId = 0
      BY <1>0, <1>4, <2>1, <2>3, <2>4, <3>1
    <3>2. CASE transferId # 0
      BY <1>0, <1>4, <2>1, <2>2, <3>2
    <3>. QED BY <3>1, <3>2
  <2>. QED BY <1>0, <1>1, <2>1, <2>5
<1>8. ASSUME NEW p \in Proc, NEW ok \in BOOLEAN, UpdateChunks(p, ok) PROVE Counted'
  <2>. DEFINE hit == ok /\ job[p].id = transferId
  <2>1. /\ UNCHANGED <<transferId, madeIds>> /\ (UNCHANGED mishaps \/ Mishap)
        /\ cachedId' = [cachedId EXCEPT ![p] = job[p].id]
    BY <1>8 DEF UpdateChunks, Well
  <2>2. job' = [q \in Proc |->
          IF q = p THEN [AfterMark(job[p]) EXCEPT !.clean = @ /\ hit]
          ELSE IF job[p].status = "bulk" THEN [job[q] EXCEPT !.clean = FALSE] ELSE job[q]]
    BY <1>8 DEF UpdateChunks
  <2>3. AfterMark(job[p]) \in Task /\ AfterMark(job[p]).id \in {0, job[p].id}
    BY <1>0, TaskIds
  <2>4. job'[p].id = AfterMark(job[p]).id
    <3>. DEFINE a == AfterMark(job[p])
                b == a.clean /\ hit
    <3>1. job'[p] = [a EXCEPT !.clean = b]
      BY <2>2
    <3>2. b \in BOOLEAN
      OBVIOUS
    <3>. HIDE DEF a, b
    <3>3. a \in Task
      BY <2>3 DEF a
    <3>4. job'[p].id = a.id
      BY <1>0, <3>1, <3>2, <3>3, TaskIds
    <3>. QED BY <3>4 DEF a
  <2>5. \A q \in Proc \ {p} : job'[q].id = job[q].id
    <3>. TAKE q \in Proc \ {p}
    <3>1. job'[q] = [job[q] EXCEPT !.clean = FALSE] \/ job'[q] = job[q]
      BY <2>2
    <3>2. job[q] \in Task
      BY <1>0
    <3>3. [job[q] EXCEPT !.clean = FALSE].id = job[q].id
      BY <3>2 DEF Task
    <3>. QED BY <3>1, <3>3
  <2>6. SameIds
    BY <1>0, <2>1, <2>3, <2>4, <2>5
  <2>. QED BY <1>0, <1>1, <1>3, <2>1, <2>6
<1>9. CASE DeleteTransfer
  BY <1>0, <1>1, <1>2, <1>9 DEF DeleteTransfer
<1>10. CASE StartTorrent \/ SetCompletedPieces \/ \E c \in Chunk : DownloadPiece(c) \/ Damaged(c)
  BY <1>0, <1>1, <1>2, <1>3, <1>10 DEF StartTorrent, SetCompletedPieces, DownloadPiece, Damaged
<1>11. CASE BeginVerify
  <2>. DEFINE b == context = NoContext
              t == [Idle EXCEPT !.at = "read", !.todo = complete, !.clean = b]
  <2>1. t.id = 0
    BY DEF Idle
  <2>2. job' = [job EXCEPT ![Home] = t] /\ UNCHANGED <<transferId, madeIds, cachedId, mishaps>>
    BY <1>11 DEF BeginVerify
  <2>. HIDE DEF t
  <2>3. SameIds
    BY <1>0, <1>4, <2>1, <2>2
  <2>. QED BY <1>0, <1>1, <2>2, <2>3
<1>12. ASSUME NEW c \in Chunk, VerifyPiece(c) PROVE Counted'
  <2>. DEFINE j == [job[Home] EXCEPT !.todo = @ \ {c}, !.chunks = {c}]
              known == [j EXCEPT !.status = "verified"]
              bad == [j EXCEPT !.status = "failed", !.bad = @ \union {c}]
              skip == [j EXCEPT !.bad = @ \union {c}, !.clean = FALSE]
  <2>1. /\ UNCHANGED <<transferId, madeIds, cachedId>> /\ (UNCHANGED mishaps \/ Mishap)
        /\ \/ job' = [job EXCEPT ![Home] = Marking(known, cachedId[Home])]
           \/ job' = [job EXCEPT ![Home] = Marking(bad, cachedId[Home])]
           \/ job' = [job EXCEPT ![Home] = skip]
    BY <1>12 DEF VerifyPiece
  <2>2. j \in Task /\ j.id = job[Home].id
    BY <1>0 DEF Task
  <2>. HIDE DEF j
  <2>3. known \in Task /\ bad \in Task /\ skip.id = j.id
    BY <2>2 DEF Task
  <2>. HIDE DEF known, bad, skip
  <2>4. Marking(known, cachedId[Home]).id <= madeIds /\ Marking(bad, cachedId[Home]).id <= madeIds
    BY <1>0, <2>3, TaskIds
  <2>5. SameIds
    BY <1>0, <1>4, <2>1, <2>2, <2>3, <2>4
  <2>. QED BY <1>0, <1>1, <1>3, <2>1, <2>5
<1>13. CASE ApplyResults
  <2>1. job' = [job EXCEPT ![Home] = Idle] /\ UNCHANGED <<transferId, madeIds, cachedId, mishaps>>
    BY <1>13 DEF ApplyResults
  <2>2. SameIds
    BY <1>0, <1>4, <2>1 DEF Idle
  <2>. QED BY <1>0, <1>1, <2>1, <2>2
<1>14. CASE ResumeRead
  <2>1. /\ job' = [job EXCEPT ![Home] = [job[Home] EXCEPT !.clean = FALSE]]
        /\ UNCHANGED <<transferId, madeIds, cachedId, mishaps>>
    BY <1>0, <1>14 DEF ResumeRead
  <2>2. SameIds
    BY <1>0, <1>4, <2>1, TaskIds
  <2>. QED BY <1>0, <1>1, <2>1, <2>2
<1>15. CASE \E ok \in BOOLEAN : ResetFailedChunks(ok)
  BY <1>0, <1>1, <1>2, <1>3, <1>15 DEF ResetFailedChunks, Well
<1>16. ASSUME NEW p \in Proc, RestartProc(p) PROVE Counted'
  <2>1. /\ UNCHANGED <<transferId, madeIds>> /\ Mishap
        /\ cachedId' = [cachedId EXCEPT ![p] = 0] /\ job' = [job EXCEPT ![p] = Idle]
    BY <1>16 DEF RestartProc
  <2>2. SameIds
    BY <1>0, <2>1 DEF Idle
  <2>. QED BY <1>0, <1>1, <1>3, <2>1, <2>2
<1>17. CASE UNCHANGED checkVars
  BY <1>0, <1>1, <1>2, <1>17 DEF checkVars
<1>. QED BY <1>5, <1>6, <1>7, <1>8, <1>9, <1>10, <1>11, <1>12, <1>13, <1>14, <1>15, <1>16,
            <1>17 DEF CheckpointNext

(* No row has been made. *)
LEMMA CountedStart == CheckpointInit => Counted
  BY CheckpointAssumption DEF CheckpointInit, Counted, Idle

(* What is proved of the checkpoints holds their types. *)
LEMMA CheckpointTypes == CheckpointInv /\ Counted => CheckpointTypeOK
<1>. SUFFICES ASSUME CheckpointInv, Counted PROVE CheckpointTypeOK
  OBVIOUS
<1>1. cachedId \in [Proc -> 0..MaxTransfers]
  BY CheckpointAssumption DEF CheckpointInv, Domains, Counted
<1>2. \A p \in Proc : /\ job[p].at \in {"idle", "insert", "find", "update", "read"}
                      /\ job[p].chunks \subseteq Chunk /\ job[p].bad \subseteq Chunk
  BY DEF CheckpointInv, Domains, Task
<1>. QED BY <1>1, <1>2, CheckpointAssumption DEF CheckpointInv, Domains, Counted, CheckpointTypeOK

(* The values of the rows, the caches, the jobs and the pieces; no id is kept that no
   row ever had. *)
THEOREM CheckpointTypeCorrect == CheckpointSpec => []CheckpointTypeOK
  BY CheckpointStart, CountedStart, CheckpointKeeps, CountedKeeps, CheckpointTypes, PTL
  DEF CheckpointSpec
-----------------------------------------------------------------------------
(* The cold start. *)

(* The order in which torrent.start makes its parts. *)
WriterFirst == (manager \/ checking # "no") => writer
FilesMadeFirst == checking = "initialize" => ~manager
ManagerCounts == ~manager => counted = {}
(* A hand holds all of a piece, or the one a source ended in. *)
HandsAreKnown == \A h \in {reading, straggler} : h.whole \/ h.piece \in cut
(* The stream and the piece in hand. *)
HandFollowsStream == stream # "reading" => reading = Nothing
StoredInOrder ==
  stream = "reading" =>
    /\ 0..reading.piece - 1 \intersect ColdPiece \subseteq stored
    /\ reading.at \in {"writing", "done"} => Whole(reading) \subseteq stored
VerdictAtEnd == verdict = "completed" => stream = "ended" /\ ending # "none"

WrittenInv ==
  CountedIsWritten /\ WriterFirst /\ FilesMadeFirst /\ ManagerCounts /\ HandsAreKnown
EarnedInv == VerdictIsEarned /\ HandFollowsStream /\ StoredInOrder /\ VerdictAtEnd
-----------------------------------------------------------------------------
(* The types in parts; a retry comes only while attempts are left. *)
Hand == [piece : Handed, at : {"none", "ready", "writing", "done"}, whole : BOOLEAN]
HandOK == reading \in Hand /\ straggler \in Hand
PiecesOK == /\ stored \subseteq ColdPiece /\ inFile \subseteq ColdPiece
            /\ counted \subseteq ColdPiece /\ cut \subseteq ColdPiece /\ bytes \in Nat
FlagsOK ==
  /\ leaseHeld \in BOOLEAN /\ renewing \in BOOLEAN /\ aborted \in BOOLEAN
  /\ writer \in BOOLEAN /\ manager \in BOOLEAN
StatesOK ==
  /\ stream \in {"none", "opening", "reading", "backoff", "down", "ended"}
  /\ checking \in {"no", "initialize", "verify"}
  /\ verdict \in {"none", "completed", "failed"}
  /\ ending \in {"none", "denied", "refused", "short", "whole"}
BoundsOK ==
  /\ attempt \in 0..MaxAttempts /\ (stream = "backoff" => attempt # MaxAttempts)
  /\ malfunctions \in 0..MaxMalfunctions
TypeInv == HandOK /\ PiecesOK /\ FlagsOK /\ StatesOK /\ BoundsOK

(* They imply the type invariant. *)
LEMMA TypeParts == TypeInv => ColdTypeOK
<1>1. HandOK => {reading, straggler} \subseteq Hand
  BY DEF HandOK
<1>2. PiecesOK => stored \union inFile \union counted \union cut \subseteq ColdPiece /\ bytes \in Nat
  BY DEF PiecesOK
<1>3. BoundsOK => attempt \in 0..MaxAttempts /\ malfunctions \in 0..MaxMalfunctions
  BY DEF BoundsOK
<1> QED BY <1>1, <1>2, <1>3 DEF TypeInv, ColdTypeOK, FlagsOK, StatesOK, Hand

(* The hands a step begins with, and what it makes of the one there is. *)
LEMMA HandFacts ==
  /\ Nothing \in Hand /\ Nothing.whole /\ Nothing.at = "none"
  /\ \A p \in Handed : /\ Ready(p) \in Hand /\ Ready(p).whole
                       /\ Ready(p).at = "ready" /\ Ready(p).piece = p
  /\ 0 \in Handed /\ ColdPiece \subseteq Handed
<1>1. 0 \in Handed /\ ColdPiece \subseteq Handed
  BY ColdAssumption DEF Handed, ColdPiece
<1>2. Nothing \in Hand /\ Nothing.whole /\ Nothing.at = "none"
  BY <1>1 DEF Nothing, Hand
<1>3. \A p \in Handed : /\ Ready(p) \in Hand /\ Ready(p).whole
                        /\ Ready(p).at = "ready" /\ Ready(p).piece = p
  BY DEF Ready, Hand
<1>. QED BY <1>1, <1>2, <1>3

(* The moves of a hand keep what it holds. *)
LEMMA HandMoves ==
  ASSUME NEW h \in Hand
  PROVE  /\ \A a \in {"writing", "done"} :
              LET g == [h EXCEPT !.at = a]
              IN  g \in Hand /\ g.at = a /\ g.whole = h.whole /\ g.piece = h.piece
                  /\ Whole(g) = Whole(h)
         /\ LET g == [h EXCEPT !.whole = FALSE]
            IN  g \in Hand /\ g.at = h.at /\ ~g.whole /\ g.piece = h.piece
         /\ Whole(h) \subseteq ColdPiece /\ h.piece \in Handed
<1>1. ASSUME NEW a \in {"writing", "done"}
      PROVE  LET g == [h EXCEPT !.at = a]
             IN  g \in Hand /\ g.at = a /\ g.whole = h.whole /\ g.piece = h.piece
  BY <1>1 DEF Hand
<1>2. ASSUME NEW a \in {"writing", "done"} PROVE Whole([h EXCEPT !.at = a]) = Whole(h)
  <2>. DEFINE g == [h EXCEPT !.at = a]
  <2>1. g.whole = h.whole /\ g.piece = h.piece
    BY <1>1
  <2>. HIDE DEF g
  <2>2. Whole(g) = Whole(h)
    BY <2>1 DEF Whole
  <2>. QED BY <2>2 DEF g
<1>3. LET g == [h EXCEPT !.whole = FALSE]
      IN  g \in Hand /\ g.at = h.at /\ ~g.whole /\ g.piece = h.piece
  BY DEF Hand
<1>4. Whole(h) \subseteq ColdPiece /\ h.piece \in Handed
  BY DEF Whole, Hand
<1>. QED BY <1>1, <1>2, <1>3, <1>4

(* The initial state has the types. *)
LEMMA InitTypes == ColdInit => TypeInv
<1> SUFFICES ASSUME ColdInit PROVE TypeInv
  OBVIOUS
<1>1. HandOK
  BY HandFacts DEF ColdInit, HandOK
<1>2. PiecesOK
  BY DEF ColdInit, PiecesOK
<1>3. FlagsOK /\ StatesOK
  BY DEF ColdInit, FlagsOK, StatesOK
<1>4. BoundsOK
  BY ColdAssumption DEF ColdInit, BoundsOK
<1> QED BY <1>1, <1>2, <1>3, <1>4 DEF TypeInv

(* Every step of the stream, of its stragglers and of the torrent keeps the types. *)
LEMMA ColdTypeStep == TypeInv /\ [ColdNext]_coldVars => TypeInv'
<1> SUFFICES ASSUME HandOK, PiecesOK, FlagsOK, StatesOK, BoundsOK, [ColdNext]_coldVars
             PROVE  TypeInv'
  BY DEF TypeInv
<1>a. ManagerReady => counted' \subseteq ColdPiece /\ bytes' \in Nat
  <2> SUFFICES ASSUME ManagerReady PROVE counted' \subseteq ColdPiece /\ bytes' \in Nat
    OBVIOUS
  <2>1. counted' \subseteq ColdPiece /\ IsFiniteSet(ColdPiece)
    BY FS_Interval, ColdAssumption DEF ManagerReady, PiecesOK, ColdPiece
  <2>2. IsFiniteSet(counted')
    BY <2>1, FS_Subset
  <2>3. Cardinality(counted') \in Nat
    BY <2>2, FS_CardinalityType
  <2> QED BY <2>1, <2>3 DEF ManagerReady
<1> USE DEF LeaseLost, Abort, Retry, ConnectionBreaks, NextChunk, WriterReady, Initialized,
     ManagerReady, StragglerStores, StartCold, OpenStream, OpenFails, RangeRefused,
     StoreChunk, WriteChunk, ChunkFails, StragglerWrites, LastChunkIsCut, StreamEnds,
     ColdNext, coldVars, MayFail, Malfunction, Fails, Succeeds, InHand, leaseVars,
     pieceVars, torrentSide
<1>1. HandOK'
  <2>1. reading' \in Hand
    <3>1. CASE reading' \in {reading, Nothing, Ready(0)}
      BY <3>1, HandFacts DEF HandOK
    <3>2. CASE reading' \in {[reading EXCEPT !.at = "writing"], [reading EXCEPT !.at = "done"],
                             [reading EXCEPT !.whole = FALSE]}
      <4>. DEFINE w == [reading EXCEPT !.at = "writing"]
                  d == [reading EXCEPT !.at = "done"]
                  c == [reading EXCEPT !.whole = FALSE]
      <4>1. w \in Hand /\ d \in Hand /\ c \in Hand
        BY HandMoves DEF HandOK
      <4>2. reading' \in {w, d, c}
        BY <3>2
      <4>. HIDE DEF w, d, c
      <4>. QED BY <4>1, <4>2
    <3>3. CASE NextChunk
      <4>1. reading.piece + 1 \in Handed
        <5>1. reading.piece \in 0..NumCold /\ reading.piece < NumCold
          BY <3>3, HandMoves DEF HandOK, Handed
        <5>. QED BY <5>1, ColdAssumption DEF Handed
      <4> QED BY <3>3, <4>1, HandFacts
    <3>4. \/ reading' \in {reading, Nothing, Ready(0)}
          \/ reading' \in {[reading EXCEPT !.at = "writing"], [reading EXCEPT !.at = "done"],
                           [reading EXCEPT !.whole = FALSE]}
          \/ NextChunk
      BY DEF LeavesBehind
    <3> QED BY <3>1, <3>2, <3>3, <3>4
  <2>2. straggler' \in {straggler, reading, Nothing, [straggler EXCEPT !.at = "writing"]}
    BY DEF LeavesBehind
  <2>3. straggler' \in Hand
    <3>. DEFINE w == [straggler EXCEPT !.at = "writing"]
    <3>1. w \in Hand
      BY HandMoves DEF HandOK
    <3>2. straggler' \in {straggler, reading, Nothing, w}
      BY <2>2
    <3>. HIDE DEF w
    <3>. QED BY <3>1, <3>2, HandFacts DEF HandOK
  <2> QED BY <2>1, <2>3 DEF HandOK
<1>2. PiecesOK'
  <2>1. Whole(reading) \subseteq ColdPiece /\ Whole(straggler) \subseteq ColdPiece
    BY HandMoves DEF HandOK
  <2>2. CASE ManagerReady
    BY <2>2, <1>a DEF PiecesOK
  <2>3. CASE ~ManagerReady
    <3>1. stored' \subseteq ColdPiece
      BY <2>1, <2>3 DEF PiecesOK, Counts, Stored
    <3>2. inFile' \subseteq ColdPiece
      BY <2>1, <2>3 DEF PiecesOK
    <3>3. \/ counted' = counted
          \/ Countable(reading) /\ Counts(reading)
          \/ Countable(straggler) /\ Counts(straggler)
      BY <2>3 DEF Stored
    <3>4. counted' \subseteq ColdPiece
      BY <3>3 DEF PiecesOK, Counts, Countable
    <3>5. bytes' \in Nat
      BY <2>3 DEF PiecesOK, Counts, Stored
    <3>6. cut' \subseteq ColdPiece
      BY <2>3 DEF PiecesOK
    <3> QED BY <3>1, <3>2, <3>4, <3>5, <3>6 DEF PiecesOK
  <2> QED BY <2>2, <2>3
<1>3. FlagsOK'
  <2>1. leaseHeld' \in BOOLEAN
    BY DEF FlagsOK
  <2>2. renewing' \in BOOLEAN
    BY DEF FlagsOK
  <2>3. (aborted \in BOOLEAN /\ writer \in BOOLEAN /\ manager \in BOOLEAN)'
    BY DEF FlagsOK
  <2> QED BY <2>1, <2>2, <2>3 DEF FlagsOK
<1>4. StatesOK'
  BY DEF StatesOK
<1>5. BoundsOK'
  BY ColdAssumption DEF BoundsOK
<1> QED BY <1>1, <1>2, <1>3, <1>4, <1>5 DEF TypeInv

(* A piece that is counted by the hand that holds it is in the file or cut. *)
LEMMA CountsWritten ==
  ASSUME NEW h, NEW file, counted \subseteq inFile \union cut, inFile \subseteq file,
         h.whole \/ h.piece \in cut, manager => Whole(h) \subseteq file,
         Countable(h), Counts(h)
  PROVE  counted' \subseteq file \union cut
  BY DEF Counts, Countable, Whole

(* Every step keeps the counts behind the writes. *)
LEMMA WrittenStep ==
  ASSUME TypeInv, WrittenInv, [ColdNext]_coldVars
  PROVE  WrittenInv'
<1> USE DEF WrittenInv, CountedIsWritten, WriterFirst, FilesMadeFirst, ManagerCounts,
        HandsAreKnown
<1>h. reading \in Hand /\ straggler \in Hand
  BY DEF TypeInv, HandOK
<1>1. ASSUME UNCHANGED <<inFile, counted, torrentSide>>, cut \subseteq cut',
             \A h \in {reading', straggler'} : h.whole \/ h.piece \in cut'
      PROVE  WrittenInv'
  BY <1>1 DEF torrentSide
<1>2. ASSUME UNCHANGED <<inFile, counted, torrentSide, cut>>, UNCHANGED <<reading, straggler>>
      PROVE  WrittenInv'
  BY <1>1, <1>2
<1>3. CASE LeaseLost \/ OpenFails \/ Retry
  BY <1>2, <1>3 DEF LeaseLost, OpenFails, Retry, pieceVars
<1>4. CASE Abort \/ ConnectionBreaks
  <2>1. UNCHANGED <<inFile, counted, torrentSide, cut>>
    BY <1>4 DEF Abort, ConnectionBreaks
  <2>2. reading' \in {reading, Nothing} /\ straggler' \in {straggler, reading}
    BY <1>4 DEF Abort, ConnectionBreaks, LeavesBehind
  <2> QED BY <1>1, <2>1, <2>2, HandFacts
<1>5. CASE OpenStream
  BY <1>1, <1>5, HandFacts DEF OpenStream
<1>6. CASE NextChunk
  <2>1. reading'.whole
    BY <1>6 DEF NextChunk, Ready
  <2> QED BY <1>1, <1>6, <2>1 DEF NextChunk
<1>7. CASE LastChunkIsCut
  <2>1. /\ UNCHANGED <<inFile, counted, torrentSide, straggler>>
        /\ cut' = cut \union {reading.piece}
    BY <1>7 DEF LastChunkIsCut
  <2>2. reading'.piece = reading.piece
    BY <1>h, <1>7, HandMoves DEF LastChunkIsCut
  <2> QED BY <1>1, <2>1, <2>2
<1>8. CASE WriterReady
  BY <1>8 DEF WriterReady, pieceVars
<1>9. CASE Initialized
  BY <1>9 DEF Initialized
<1>10. CASE ManagerReady
  BY <1>10 DEF ManagerReady
<1>11. CASE ChunkFails
  BY <1>1, <1>11, HandFacts DEF ChunkFails
<1>12. CASE StoreChunk
  <2>1. UNCHANGED <<straggler, inFile, torrentSide, cut>>
    BY <1>12 DEF StoreChunk
  <2>2. \/ reading'.whole = reading.whole /\ reading'.piece = reading.piece
        \/ reading' = Nothing
    <3>. DEFINE w == [reading EXCEPT !.at = "writing"]
                d == [reading EXCEPT !.at = "done"]
    <3>1. /\ w.whole = reading.whole /\ w.piece = reading.piece
          /\ d.whole = reading.whole /\ d.piece = reading.piece
      BY <1>h, HandMoves
    <3>2. reading' \in {w, d, Nothing}
      BY <1>12 DEF StoreChunk
    <3>. HIDE DEF w, d
    <3>. QED BY <3>1, <3>2
  <2>3. \A h \in {reading', straggler'} : h.whole \/ h.piece \in cut
    BY <2>1, <2>2, HandFacts
  <2>4. counted' = counted
    BY <1>12 DEF StoreChunk, Stored, Counts
  <2> QED BY <1>1, <2>1, <2>3, <2>4
<1>13. CASE StragglerStores
  <2>1. UNCHANGED <<reading, inFile, torrentSide, cut>>
    BY <1>13 DEF StragglerStores
  <2>2. \/ straggler'.whole = straggler.whole /\ straggler'.piece = straggler.piece
        \/ straggler' = Nothing
    <3>. DEFINE w == [straggler EXCEPT !.at = "writing"]
    <3>1. w.whole = straggler.whole /\ w.piece = straggler.piece
      BY <1>h, HandMoves
    <3>2. straggler' \in {w, Nothing}
      BY <1>13 DEF StragglerStores
    <3>. HIDE DEF w
    <3>. QED BY <3>1, <3>2
  <2>3. \A h \in {reading', straggler'} : h.whole \/ h.piece \in cut
    BY <2>1, <2>2, HandFacts
  <2>4. counted' = counted
    BY <1>13 DEF StragglerStores, Stored, Counts
  <2> QED BY <1>1, <2>1, <2>3, <2>4
<1>14. CASE WriteChunk
  <2>1. UNCHANGED <<straggler, torrentSide, cut>> /\ inFile' = inFile \union Whole(reading)
    BY <1>14 DEF WriteChunk
  <2>2. \/ reading'.whole = reading.whole /\ reading'.piece = reading.piece
        \/ reading' = Nothing
    <3>. DEFINE w == [reading EXCEPT !.at = "writing"]
                d == [reading EXCEPT !.at = "done"]
    <3>1. /\ w.whole = reading.whole /\ w.piece = reading.piece
          /\ d.whole = reading.whole /\ d.piece = reading.piece
      BY <1>h, HandMoves
    <3>2. reading' \in {w, d, Nothing}
      BY <1>14 DEF WriteChunk
    <3>. HIDE DEF w, d
    <3>. QED BY <3>1, <3>2
  <2>3. \A h \in {reading', straggler'} : h.whole \/ h.piece \in cut
    BY <2>1, <2>2, HandFacts
  <2>4. \/ counted' = counted
        \/ Countable(reading) /\ Counts(reading)
    BY <1>14 DEF WriteChunk
  <2>5. counted' \subseteq inFile' \union cut
    BY <2>1, <2>4, CountsWritten
  <2>6. ~manager => counted' = counted
    BY <2>4 DEF Counts
  <2> QED BY <2>1, <2>3, <2>5, <2>6 DEF torrentSide
<1>15. ASSUME NEW ok \in BOOLEAN, StragglerWrites(ok) PROVE WrittenInv'
  <2>1. /\ UNCHANGED <<reading, torrentSide, cut>> /\ straggler' = Nothing
        /\ inFile' = IF ok THEN inFile \union Whole(straggler) ELSE inFile
    BY <1>15 DEF StragglerWrites
  <2>2. \/ counted' = counted
        \/ ok /\ Countable(straggler) /\ Counts(straggler)
    BY <1>15 DEF StragglerWrites
  <2>3. counted' \subseteq inFile' \union cut
    BY <2>1, <2>2, CountsWritten
  <2>4. ~manager => counted' = counted
    BY <2>2 DEF Counts
  <2> QED BY <2>1, <2>3, <2>4, HandFacts DEF torrentSide
<1>16. ASSUME NEW answer, StartCold(answer) PROVE WrittenInv'
  BY <1>2, <1>16 DEF StartCold, pieceVars
<1>17. ASSUME NEW ok \in BOOLEAN, RangeRefused(ok) PROVE WrittenInv'
  BY <1>2, <1>17 DEF RangeRefused, pieceVars
<1>18. ASSUME NEW how, NEW ok \in BOOLEAN, StreamEnds(how, ok) PROVE WrittenInv'
  BY <1>1, <1>18, HandFacts DEF StreamEnds
<1>19. CASE UNCHANGED coldVars
  BY <1>2, <1>19 DEF coldVars, torrentSide
<1> QED BY <1>3, <1>4, <1>5, <1>6, <1>7, <1>8, <1>9, <1>10, <1>11, <1>12, <1>13, <1>14,
           <1>15, <1>16, <1>17, <1>18, <1>19 DEF ColdNext

(* Every step keeps the verdict behind the stored pieces. *)
LEMMA EarnedStep ==
  ASSUME TypeInv, EarnedInv, [ColdNext]_coldVars
  PROVE  EarnedInv'
<1> USE DEF EarnedInv, VerdictIsEarned, HandFollowsStream, StoredInOrder, VerdictAtEnd
<1>h. reading \in Hand /\ straggler \in Hand /\ stored \subseteq ColdPiece
  BY DEF TypeInv, HandOK, PiecesOK
<1>n. stream # "ended" => verdict # "completed"
  OBVIOUS
<1>1. ASSUME UNCHANGED <<stream, reading, verdict, ending>>, stored \subseteq stored',
             stored' \subseteq ColdPiece
      PROVE  EarnedInv'
  BY <1>1
<1>2. ASSUME stream' # "reading", reading' = Nothing, verdict' # "completed"
      PROVE  EarnedInv'
  BY <1>2
<1>3. CASE LeaseLost \/ WriterReady \/ Initialized \/ ManagerReady
  BY <1>h, <1>1, <1>3 DEF LeaseLost, WriterReady, Initialized, ManagerReady, pieceVars
<1>4. CASE StragglerStores
  <2>1. stored' = stored \union Whole(straggler)
    BY <1>4 DEF StragglerStores, Stored
  <2>2. stored \subseteq stored' /\ stored' \subseteq ColdPiece
    BY <1>h, <2>1, HandMoves
  <2> QED BY <1>1, <1>4, <2>2 DEF StragglerStores
<1>5. ASSUME NEW ok \in BOOLEAN, StragglerWrites(ok) PROVE EarnedInv'
  BY <1>h, <1>1, <1>5 DEF StragglerWrites
<1>6. CASE Abort
  <2>1. CASE stream = "reading"
    BY <1>2, <1>6, <2>1 DEF Abort, Fails, LeavesBehind
  <2>2. CASE stream # "reading"
    BY <1>h, <1>1, <1>6, <2>2 DEF Abort
  <2> QED BY <2>1, <2>2
<1>f. ASSUME NEW b, stream # "ended", Fails(b), reading' = Nothing PROVE EarnedInv'
  BY <1>n, <1>2, <1>f DEF Fails
<1>7. CASE Retry
  <2>1. CASE aborted
    BY <1>f, <1>7, <2>1 DEF Retry, pieceVars
  <2>2. CASE ~aborted
    BY <1>n, <1>2, <1>7, <2>2 DEF Retry, pieceVars
  <2> QED BY <2>1, <2>2
<1>8. CASE ConnectionBreaks
  BY <1>f, <1>8 DEF ConnectionBreaks, LeavesBehind
<1>9. CASE OpenFails
  BY <1>f, <1>9 DEF OpenFails, pieceVars
<1>10. CASE OpenStream
  <2>1. CASE aborted
    BY <1>n, <1>2, <1>10, <2>1 DEF OpenStream
  <2>2. CASE ~aborted
    <3>1. stream' = "reading" /\ reading' = Ready(0) /\ UNCHANGED verdict
      BY <1>10, <2>2 DEF OpenStream
    <3>2. reading'.piece = 0 /\ reading'.at = "ready"
      BY <3>1 DEF Ready
    <3>3. 0..reading'.piece - 1 = {}
      BY <3>2
    <3>4. verdict' # "completed"
      BY <1>n, <1>10, <3>1 DEF OpenStream
    <3> QED BY <3>1, <3>2, <3>3, <3>4
  <2> QED BY <2>1, <2>2
<1>11. CASE StoreChunk
  <2>0. stored' = stored \union Whole(reading) /\ stream # "ended" /\ UNCHANGED ending
    BY <1>11, HandFacts DEF StoreChunk, Stored, Nothing
  <2>1. CASE Fails(FALSE) /\ reading' = Nothing
    BY <1>f, <2>0, <2>1
  <2>2. CASE \/ reading' = [reading EXCEPT !.at = "writing"] /\ UNCHANGED InHand
             \/ reading' = [reading EXCEPT !.at = "done"] /\ UNCHANGED InHand
    <3>1. reading'.piece = reading.piece /\ Whole(reading') = Whole(reading)
      BY <1>h, <2>2, HandMoves
    <3>2. UNCHANGED <<stream, verdict>> /\ stream = "reading"
      BY <1>11, <2>2, HandFacts DEF InHand, StoreChunk
    <3> QED BY <2>0, <3>1, <3>2
  <2> QED BY <1>11, <2>1, <2>2 DEF StoreChunk
<1>12. CASE WriteChunk
  <2>0. UNCHANGED <<stored, ending>> /\ stream = "reading" /\ reading.at = "writing"
    BY <1>12, HandFacts DEF WriteChunk
  <2>1. CASE Fails(FALSE) /\ reading' = Nothing
    BY <1>f, <2>0, <2>1
  <2>2. CASE reading' = [reading EXCEPT !.at = "done"] /\ UNCHANGED InHand
    <3>1. reading'.piece = reading.piece /\ Whole(reading') = Whole(reading)
      BY <1>h, <2>2, HandMoves
    <3> QED BY <2>0, <2>2, <3>1 DEF InHand
  <2> QED BY <1>12, <2>1, <2>2 DEF WriteChunk
<1>13. CASE ChunkFails
  BY <1>f, <1>13, HandFacts DEF ChunkFails
<1>14. CASE NextChunk
  <2>1. /\ reading'.piece = reading.piece + 1 /\ reading'.at = "ready"
        /\ stream = "reading" /\ reading.at = "done" /\ reading.whole
        /\ UNCHANGED <<stream, stored, verdict, ending>>
    BY <1>14 DEF NextChunk, Ready
  <2>2. Whole(reading) = {reading.piece} \intersect ColdPiece
    BY <2>1 DEF Whole
  <2>3. reading.piece \in Nat /\ reading'.piece - 1 = reading.piece
    BY <1>h, <2>1, ColdAssumption DEF Hand, Handed
  <2>4. \A p \in 0..reading.piece : p \in 0..reading.piece - 1 \/ p = reading.piece
    BY <2>3
  <2>5. 0..reading.piece - 1 \intersect ColdPiece \subseteq stored
    BY <2>1
  <2>6. 0..reading.piece \intersect ColdPiece \subseteq stored
    BY <2>1, <2>2, <2>4, <2>5
  <2>7. 0..reading'.piece - 1 \intersect ColdPiece \subseteq stored'
    BY <2>1, <2>3, <2>6
  <2>8. StoredInOrder'
    BY <2>1, <2>7
  <2> QED BY <2>1, <2>8
<1>15. CASE LastChunkIsCut
  <2>1. /\ reading'.piece = reading.piece /\ reading'.at = "ready"
        /\ UNCHANGED <<stream, stored, verdict, ending>> /\ stream = "reading"
    BY <1>h, <1>15, HandMoves DEF LastChunkIsCut
  <2> QED BY <2>1
<1>16. ASSUME NEW answer \in {"granted", "denied", "error"}, StartCold(answer) PROVE EarnedInv'
  <2>1. stream' # "reading" /\ reading' = Nothing
    BY <1>16 DEF StartCold, pieceVars
  <2>2. verdict' = "completed" => stream' = "ended" /\ ending' = "denied"
    BY <1>16 DEF StartCold
  <2> QED BY <2>1, <2>2
<1>17. ASSUME NEW ok \in BOOLEAN, RangeRefused(ok) PROVE EarnedInv'
  BY <1>17 DEF RangeRefused, Succeeds, pieceVars
<1>18. ASSUME NEW how \in {"whole", "short"}, NEW ok \in BOOLEAN, StreamEnds(how, ok)
       PROVE  EarnedInv'
  <2>1. stream' = "ended" /\ reading' = Nothing /\ UNCHANGED stored /\ ending' = how
    BY <1>18 DEF StreamEnds, Succeeds
  <2>2. CASE how = "short"
    BY <2>1, <2>2
  <2>3. CASE how = "whole"
    <3>1. /\ stream = "reading" /\ reading.at = "done" /\ reading.whole
          /\ reading.piece >= NumCold - 1
      BY <1>18, <2>3 DEF StreamEnds, Finishes
    <3>2. Whole(reading) = {reading.piece} \intersect ColdPiece
      BY <3>1 DEF Whole
    <3>3. \A p \in ColdPiece : p \in 0..reading.piece - 1 \/ p = reading.piece
      BY <1>h, <3>1, ColdAssumption DEF Hand, Handed, ColdPiece
    <3>4. stored = ColdPiece
      BY <1>h, <3>1, <3>2, <3>3
    <3> QED BY <2>1, <3>4
  <2> QED BY <2>2, <2>3
<1>19. CASE UNCHANGED coldVars
  BY <1>h, <1>1, <1>19 DEF coldVars
<1> QED BY <1>3, <1>4, <1>5, <1>6, <1>7, <1>8, <1>9, <1>10, <1>11, <1>12, <1>13,
           <1>14, <1>15, <1>16, <1>17, <1>18, <1>19 DEF ColdNext
-----------------------------------------------------------------------------
(* The type invariant holds in every state. *)
THEOREM ColdTypeCorrect == ColdSpec => []ColdTypeOK
  BY InitTypes, ColdTypeStep, TypeParts, PTL DEF ColdSpec

(* What the cold start reports has happened: a counted piece is in the file unless a
   source ended in it, and a completed transfer stored every piece unless the source
   was short or refused the range or another node held the lease (s3Streamer.js,
   onPieceReady and 'finish'). *)
THEOREM ColdStartReportsHonestly == ColdSpec => []ColdStartHonest
<1> DEFINE IInv == TypeInv /\ WrittenInv /\ EarnedInv
<1>1. ColdInit => IInv
  <2> SUFFICES ASSUME ColdInit PROVE IInv
    OBVIOUS
  <2>1. TypeInv
    BY InitTypes
  <2>2. WrittenInv
    BY HandFacts DEF ColdInit, WrittenInv, CountedIsWritten, WriterFirst, FilesMadeFirst,
           ManagerCounts, HandsAreKnown
  <2>3. EarnedInv
    BY DEF ColdInit, EarnedInv, VerdictIsEarned, HandFollowsStream, StoredInOrder,
           VerdictAtEnd
  <2> QED BY <2>1, <2>2, <2>3
<1>2. IInv /\ [ColdNext]_coldVars => IInv'
  BY ColdTypeStep, WrittenStep, EarnedStep
<1>3. IInv => ColdStartHonest
  BY DEF ColdStartHonest, WrittenInv, EarnedInv
<1> QED BY <1>1, <1>2, <1>3, PTL DEF ColdSpec

-----------------------------------------------------------------------------
(* File selection. *)
Sizes(n) == [0..n - 1 -> Nat]

(* A running sum starts at 0 and grows by one term at a time. *)
LEMMA RunningFacts ==
  ASSUME NEW n \in Nat, NEW h \in Sizes(n)
  PROVE  /\ \A k \in 0..n : Running(h, n)[k] \in Nat
         /\ Running(h, n)[0] = 0
         /\ \A k \in 0..n : k < n => Running(h, n)[k + 1] = Running(h, n)[k] + h[k]
<1>. DEFINE step == [k \in 1..n |-> [d \in Nat |-> d + h[k - 1]]]
            sum == CHOOSE f : f = [k \in 0..n |-> IF k = 0 THEN 0 ELSE f[k - 1] + h[k - 1]]
<1>1. Running(h, n) = sum
  BY DEF Running
<1>2. \A k \in 1..n : k - 1 \in 0..n /\ h[k - 1] \in Nat
  BY DEF Sizes
<1>3. step \in Steps(n, Nat)
  BY <1>2 DEF Steps
<1>4. \A k \in 1..n, d \in Nat : step[k][d] = d + h[k - 1]
  OBVIOUS
<1>. HIDE DEF step, sum
<1>5. PICK f \in [0..n -> Nat] : f[0] = 0 /\ \A k \in 1..n : f[k] = step[k][f[k - 1]]
  <2>1. Repeats(n, Nat, 0, step) # {}
    BY <1>3, Iterates
  <2>. QED BY <2>1 DEF Repeats
<1>6. f = [k \in 0..n |-> IF k = 0 THEN 0 ELSE f[k - 1] + h[k - 1]]
  <2>1. \A k \in 1..n : f[k] = f[k - 1] + h[k - 1]
    BY <1>2, <1>4, <1>5
  <2>2. \A k \in 0..n : k = 0 \/ k \in 1..n
    OBVIOUS
  <2>3. \A k \in 0..n : f[k] = IF k = 0 THEN 0 ELSE f[k - 1] + h[k - 1]
    BY <1>5, <2>1, <2>2
  <2>. QED BY <1>5, <2>3, Zenon
<1>7. sum = [k \in 0..n |-> IF k = 0 THEN 0 ELSE sum[k - 1] + h[k - 1]]
  BY <1>6 DEF sum
<1>8. sum[0] = 0 /\ \A k \in 0..n : k < n => sum[k + 1] = sum[k] + h[k]
  <2>1. 0 \in 0..n
    OBVIOUS
  <2>2. \A k \in 0..n : k < n => k + 1 \in 0..n /\ k + 1 # 0 /\ (k + 1) - 1 = k
    OBVIOUS
  <2>. QED BY <1>7, <2>1, <2>2
<1>. DEFINE U == {k \in 0..n : sum[k] \in Nat}
<1>9. 0..n \subseteq U
  <2>1. 0 \in U
    BY <1>8
  <2>2. ASSUME NEW i \in 0..n, i \in U, i < n PROVE i + 1 \in U
    <3>1. h[i] \in Nat
      BY <2>2 DEF Sizes
    <3>. QED BY <1>8, <2>2, <3>1
  <2>. HIDE DEF U
  <2>. QED BY <2>1, <2>2, UpTo
<1>. QED BY <1>1, <1>8, <1>9

(* A running sum of equal terms is equal, and one term more counts once. *)
LEMMA RunningMore ==
  ASSUME NEW n \in Nat, NEW h \in Sizes(n), NEW g \in Sizes(n), NEW p \in 0..n - 1, NEW x \in Nat,
         g[p] = h[p] + x, \A k \in 0..n - 1 : k # p => g[k] = h[k]
  PROVE  Running(g, n)[n] = Running(h, n)[n] + x
<1>. DEFINE G == Running(g, n)
            H == Running(h, n)
            U == {k \in 0..n : G[k] = H[k] + (IF k > p THEN x ELSE 0)}
<1>1. /\ \A k \in 0..n : H[k] \in Nat /\ G[k] \in Nat
      /\ H[0] = 0 /\ G[0] = 0
      /\ \A k \in 0..n : k < n => H[k + 1] = H[k] + h[k] /\ G[k + 1] = G[k] + g[k]
  BY RunningFacts
<1>2. \A k \in 0..n : k < n => h[k] \in Nat /\ g[k] \in Nat
  BY DEF Sizes
<1>. HIDE DEF G, H
<1>3. 0..n \subseteq U
  <2>1. 0 \in U
    BY <1>1
  <2>2. ASSUME NEW i \in 0..n, i \in U, i < n PROVE i + 1 \in U
    <3>1. /\ i + 1 \in 0..n /\ G[i] = H[i] + (IF i > p THEN x ELSE 0)
          /\ h[i] \in Nat /\ g[i] \in Nat /\ G[i] \in Nat /\ H[i] \in Nat
          /\ G[i + 1] = G[i] + g[i] /\ H[i + 1] = H[i] + h[i]
      BY <1>1, <1>2, <2>2
    <3>2. CASE i = p
      BY <3>1, <3>2
    <3>3. CASE i # p
      BY <3>1, <3>3, <2>2
    <3>. QED BY <3>2, <3>3
  <2>. HIDE DEF U
  <2>. QED BY <2>1, <2>2, UpTo
<1>4. n \in U /\ n > p
  BY <1>3
<1>. QED BY <1>4 DEF G, H

(* A running sum of no greater terms is no greater. *)
LEMMA RunningLess ==
  ASSUME NEW n \in Nat, NEW h \in Sizes(n), NEW g \in Sizes(n),
         \A k \in 0..n - 1 : g[k] <= h[k]
  PROVE  Running(g, n)[n] <= Running(h, n)[n]
<1>. DEFINE G == Running(g, n)
            H == Running(h, n)
            U == {k \in 0..n : G[k] <= H[k]}
<1>1. /\ \A k \in 0..n : H[k] \in Nat /\ G[k] \in Nat
      /\ H[0] = 0 /\ G[0] = 0
      /\ \A k \in 0..n : k < n => H[k + 1] = H[k] + h[k] /\ G[k + 1] = G[k] + g[k]
  BY RunningFacts
<1>2. \A k \in 0..n : k < n => h[k] \in Nat /\ g[k] \in Nat /\ g[k] <= h[k]
  BY DEF Sizes
<1>. HIDE DEF G, H
<1>3. 0..n \subseteq U
  <2>1. 0 \in U
    BY <1>1
  <2>2. ASSUME NEW i \in 0..n, i \in U, i < n PROVE i + 1 \in U
    BY <1>1, <1>2, <2>2
  <2>. HIDE DEF U
  <2>. QED BY <2>1, <2>2, UpTo
<1>. QED BY <1>3 DEF G, H

(* A running sum never falls. *)
LEMMA RunningGrows ==
  ASSUME NEW n \in Nat, NEW h \in Sizes(n), NEW k \in 0..n
  PROVE  Running(h, n)[k] <= Running(h, n)[n]
<1>. DEFINE H == Running(h, n)
            U == {i \in 0..n : i < k \/ H[k] <= H[i]}
<1>1. /\ \A i \in 0..n : H[i] \in Nat
      /\ \A i \in 0..n : i < n => H[i + 1] = H[i] + h[i]
  BY RunningFacts
<1>2. \A i \in 0..n : i < n => h[i] \in Nat
  BY DEF Sizes
<1>. HIDE DEF H
<1>3. 0..n \subseteq U
  <2>1. 0 \in U
    BY <1>1
  <2>2. ASSUME NEW i \in 0..n, i \in U, i < n PROVE i + 1 \in U
    <3>1. H[i] \in Nat /\ H[i + 1] = H[i] + h[i] /\ h[i] \in Nat /\ H[i + 1] \in Nat /\ H[k] \in Nat
      BY <1>1, <1>2, <2>2
    <3>. QED BY <3>1, <2>2
  <2>. HIDE DEF U
  <2>. QED BY <2>1, <2>2, UpTo
<1>. QED BY <1>3 DEF H

(* Whole quotients. *)
LEMMA Quotient ==
  ASSUME NEW a \in Int, NEW d \in Nat \ {0}
  PROVE  a \div d \in Int /\ (a \div d) * d <= a /\ a < (a \div d) * d + d
  OBVIOUS

(* Products grow with a factor. *)
LEMMA Product ==
  ASSUME NEW a \in Int, NEW b \in Int, NEW d \in Nat \ {0}
  PROVE  /\ a * d \in Int /\ b * d \in Int /\ (a + 1) * d = a * d + d /\ (a - 1) * d = a * d - d
         /\ a <= b => a * d <= b * d
         /\ a < b => a * d < b * d
  OBVIOUS
(* The smaller and the greater of two numbers. *)
LEMMA OfTwo ==
  ASSUME NEW a \in Int, NEW b \in Int
  PROVE  /\ Min({a, b}) = IF a <= b THEN a ELSE b
         /\ Max({a, b}) = IF a <= b THEN b ELSE a
  BY DEF Min, Max

-----------------------------------------------------------------------------
Laid == lengths \in [File -> Nat] /\ TotalLength > 0

(* The files lie end to end, and the pieces cover them. *)
LEMMA Layout ==
  ASSUME Laid
  PROVE  /\ TotalLength \in Nat
         /\ \A f \in File : Offset(f) \in Nat /\ Offset(f) + lengths[f] <= TotalLength
         /\ NumPieces \in Nat /\ NumPieces * PieceLength >= TotalLength
         /\ \A p \in Pieces : p \in Nat /\ p * PieceLength \in Nat /\ p * PieceLength < TotalLength
<1>. DEFINE R == Running(lengths, NumFiles)
<1>1. NumFiles \in Nat \ {0} /\ PieceLength \in Nat \ {0} /\ lengths \in Sizes(NumFiles)
  BY FileAssumption DEF Laid, File, Sizes
<1>2. /\ \A k \in 0..NumFiles : R[k] \in Nat /\ R[k] <= R[NumFiles]
      /\ \A k \in 0..NumFiles : k < NumFiles => R[k + 1] = R[k] + lengths[k]
  BY <1>1, RunningFacts, RunningGrows
<1>3. TotalLength = R[NumFiles] /\ \A f \in File : Offset(f) = R[f]
  BY DEF TotalLength, Offset
<1>. HIDE DEF R
<1>4. TotalLength \in Nat /\ TotalLength > 0
  BY <1>1, <1>2, <1>3 DEF Laid
<1>5. ASSUME NEW f \in File PROVE Offset(f) \in Nat /\ Offset(f) + lengths[f] <= TotalLength
  <2>1. f \in 0..NumFiles /\ f + 1 \in 0..NumFiles /\ f < NumFiles
    BY <1>1 DEF File
  <2>. QED BY <2>1, <1>2, <1>3
<1>6. NumPieces \in Nat /\ NumPieces * PieceLength >= TotalLength
      /\ (NumPieces - 1) * PieceLength < TotalLength
  <2>. DEFINE a == TotalLength + PieceLength - 1
  <2>1. a \in Int
    BY <1>1, <1>4
  <2>2. /\ NumPieces \in Int /\ NumPieces * PieceLength <= a
        /\ a < NumPieces * PieceLength + PieceLength
    <3>. HIDE DEF a
    <3>1. NumPieces = a \div PieceLength
      BY DEF NumPieces, a
    <3>. QED BY <1>1, <2>1, <3>1, Quotient
  <2>3. NumPieces * PieceLength \in Int /\ (NumPieces - 1) * PieceLength = NumPieces * PieceLength - PieceLength
    BY <1>1, <2>2, Product
  <2>4. NumPieces * PieceLength > 0 /\ NumPieces * PieceLength >= TotalLength
    BY <1>1, <1>4, <2>2, <2>3
  <2>5. ~ NumPieces < 0
    BY <1>1, <2>2, <2>4, Product
  <2>. QED BY <1>1, <1>4, <2>2, <2>3, <2>4, <2>5
<1>7. ASSUME NEW p \in Pieces
      PROVE  p \in Nat /\ p * PieceLength \in Nat /\ p * PieceLength < TotalLength
  <2>1. p \in Nat /\ p <= NumPieces - 1 /\ NumPieces - 1 \in Int
    BY <1>6 DEF Pieces
  <2>2. p * PieceLength <= (NumPieces - 1) * PieceLength /\ p * PieceLength \in Int
    BY <1>1, <2>1, Product
  <2>3. 0 * PieceLength <= p * PieceLength /\ (NumPieces - 1) * PieceLength \in Int
    BY <1>1, <2>1, Product
  <2>. QED BY <1>1, <1>4, <1>6, <2>1, <2>2, <2>3
<1>. QED BY <1>4, <1>5, <1>6, <1>7

(* How many bytes of a file of length l at offset o lie before byte b. *)
Before(b, o, l) == IF b <= o THEN 0 ELSE IF b >= o + l THEN l ELSE b - o

(* A piece brings a file just the bytes that lie between its ends, and if there are
   any the piece is one of the file. *)
LEMMA CutFacts ==
  ASSUME Laid, NEW p \in Pieces, NEW f \in File
  PROVE  /\ Overlap(p, f) \in Nat
         /\ ~Overlaps(p, f) => Overlap(p, f) = 0
         /\ Before((p + 1) * PieceLength, Offset(f), lengths[f])
              = Before(p * PieceLength, Offset(f), lengths[f]) + Overlap(p, f)
         /\ Overlap(p, f) > 0 => p \in PiecesOfFile(f)
<1>. DEFINE a == p * PieceLength
            e == PieceEnd(p)
            o == Offset(f)
            l == lengths[f]
            T == TotalLength
            d == PieceLength
<1>1. /\ a \in Nat /\ o \in Nat /\ l \in Nat /\ T \in Nat /\ d \in Nat \ {0} /\ p \in Nat
      /\ o + l <= T /\ a < T /\ (p + 1) * d = a + d
  BY Layout, Product, FileAssumption DEF Laid
<1>2. e = IF a + d <= T THEN a + d ELSE T
  BY <1>1, OfTwo DEF PieceEnd, PieceStart
<1>3. /\ Overlaps(p, f) <=> a < o + l /\ e > o
      /\ Overlap(p, f) = IF Overlaps(p, f) THEN Min({e, o + l}) - Max({a, o}) ELSE 0
  BY DEF Overlaps, Overlap, PieceStart
<1>4. /\ Min({e, o + l}) = IF e <= o + l THEN e ELSE o + l
      /\ Max({a, o}) = IF a <= o THEN o ELSE a
  <2>1. e \in Int /\ o + l \in Int
    BY <1>1, <1>2
  <2>2. a \in Int /\ o \in Int
    BY <1>1
  <2>. HIDE DEF e, a, o, l
  <2>3. Min({e, o + l}) = IF e <= o + l THEN e ELSE o + l
    BY <2>1, OfTwo
  <2>4. Max({a, o}) = IF a <= o THEN o ELSE a
    BY <2>2, OfTwo
  <2>. QED BY <2>3, <2>4
<1>5. Overlap(p, f) > 0 => p \in PiecesOfFile(f)
  <2>. SUFFICES ASSUME a < o + l, e > o PROVE p \in PiecesOfFile(f)
    BY <1>3
  <2>. DEFINE q == o \div d
              r == (o + l - 1) \div d
  <2>1. PiecesOfFile(f) = q .. r
    BY DEF PiecesOfFile
  <2>2. /\ q \in Int /\ q * d <= o /\ o < q * d + d
        /\ r \in Int /\ r * d <= o + l - 1 /\ o + l - 1 < r * d + d
    <3>1. o \in Int /\ o + l - 1 \in Int
      BY <1>1
    <3>. HIDE DEF o, l, d
    <3>. QED BY <1>1, <3>1, Quotient
  <2>3. /\ q * d \in Int /\ r * d \in Int /\ (r + 1) * d = r * d + d
        /\ p + 1 <= q => (p + 1) * d <= q * d
        /\ r + 1 <= p => (r + 1) * d <= p * d
    <3>. HIDE DEF d, q, r
    <3>1. p \in Int /\ p + 1 \in Int /\ r + 1 \in Int
      BY <1>1, <2>2
    <3>. QED BY <1>1, <2>2, <3>1, Product
  <2>4. a = p * d
    OBVIOUS
  <2>. HIDE DEF a, e, o, l, d, T, q, r
  <2>5. q * d < a + d
    BY <1>1, <1>2, <2>2, <2>3
  <2>6. a < r * d + d
    BY <1>1, <2>2, <2>3
  <2>7. ~ p + 1 <= q /\ ~ r + 1 <= p
    BY <1>1, <2>3, <2>4, <2>5, <2>6
  <2>. QED BY <1>1, <2>1, <2>2, <2>7
<1>. HIDE DEF a, e, o, l, T, d
<1>6. /\ Overlap(p, f) \in Nat
      /\ ~Overlaps(p, f) => Overlap(p, f) = 0
      /\ Before(a + d, o, l) = Before(a, o, l) + Overlap(p, f)
  BY <1>1, <1>2, <1>3, <1>4 DEF Before
<1>. QED BY <1>1, <1>5, <1>6 DEF a, d, o, l
(* What each piece holds of file f, if it is one of S. *)
Cuts(S, f) == [p \in Pieces |-> IF p \in S THEN Overlap(p, f) ELSE 0]
(* They are numbers, one for each piece, and what the pieces of S hold is their sum. *)
LEMMA CutsFacts ==
  ASSUME Laid, NEW S, NEW f \in File
  PROVE  /\ Cuts(S, f) \in Sizes(NumPieces) /\ NumPieces \in Nat
         /\ Pieces = 0..NumPieces - 1
         /\ \A p \in Pieces : Cuts(S, f)[p] = IF p \in S THEN Overlap(p, f) ELSE 0
         /\ BytesIn(S, f) = Running(Cuts(S, f), NumPieces)[NumPieces]
<1>1. \A p \in Pieces : Overlap(p, f) \in Nat
  BY CutFacts
<1>2. Pieces = 0..NumPieces - 1 /\ NumPieces \in Nat
  BY Layout DEF Pieces
<1>3. \A p \in Pieces : Cuts(S, f)[p] = IF p \in S THEN Overlap(p, f) ELSE 0
  BY DEF Cuts
<1>4. Cuts(S, f) \in [Pieces -> Nat]
  BY <1>1 DEF Cuts
<1>5. BytesIn(S, f) = Running(Cuts(S, f), NumPieces)[NumPieces]
  BY DEF BytesIn, Cuts
<1>. QED BY <1>2, <1>3, <1>4, <1>5 DEF Sizes

(* All pieces together hold the whole file. *)
LEMMA WholeFile ==
  ASSUME Laid, NEW f \in File
  PROVE  BytesIn(Pieces, f) = lengths[f]
<1>. DEFINE h == Cuts(Pieces, f)
            R == Running(h, NumPieces)
            o == Offset(f)
            l == lengths[f]
            d == PieceLength
            N == NumPieces
            U == {k \in 0..N : R[k] = Before(k * d, o, l)}
<1>1. /\ N \in Nat /\ d \in Nat \ {0} /\ o \in Nat /\ l \in Nat /\ N * d \in Int /\ N * d >= o + l
  <2>1. /\ N \in Nat /\ o \in Nat /\ o + l <= TotalLength /\ N * d >= TotalLength
        /\ TotalLength \in Nat
    BY Layout
  <2>2. d \in Nat \ {0} /\ l \in Nat
    BY FileAssumption DEF Laid
  <2>3. N * d \in Int
    BY <2>1, <2>2
  <2>. QED BY <2>1, <2>2, <2>3
<1>2. /\ \A k \in 0..N : k < N => h[k] = Overlap(k, f) /\ k \in Pieces
      /\ BytesIn(Pieces, f) = R[N] /\ h \in Sizes(N)
  BY CutsFacts
<1>3. /\ \A k \in 0..N : R[k] \in Nat
      /\ R[0] = 0 /\ \A k \in 0..N : k < N => R[k + 1] = R[k] + h[k]
  BY <1>1, <1>2, RunningFacts
<1>4. \A k \in 0..N : k < N => Before((k + 1) * d, o, l) = Before(k * d, o, l) + Overlap(k, f)
  BY <1>2, CutFacts
<1>5. 0 * d = 0 /\ Before(0, o, l) = 0
  BY <1>1 DEF Before
<1>. HIDE DEF h, R, o, l, d, N
<1>6. 0..N \subseteq U
  <2>1. 0 \in U
    BY <1>1, <1>3, <1>5
  <2>2. ASSUME NEW i \in 0..N, i \in U, i < N PROVE i + 1 \in U
    BY <1>1, <1>2, <1>3, <1>4, <2>2
  <2>. HIDE DEF U
  <2>. QED BY <1>1, <2>1, <2>2, UpTo
<1>7. R[N] = Before(N * d, o, l)
  BY <1>1, <1>6
<1>8. Before(N * d, o, l) = l
  <2>. DEFINE b == N * d
  <2>1. b \in Int /\ b >= o + l
    BY <1>1
  <2>. HIDE DEF b
  <2>2. Before(b, o, l) = l
    BY <1>1, <2>1 DEF Before
  <2>. QED BY <2>2 DEF b
<1>. QED BY <1>2, <1>7, <1>8 DEF l

(* What pieces hold of a file: nothing, a piece more, at most the file, all of it. *)
LEMMA BytesFacts ==
  ASSUME Laid, NEW S, NEW f \in File
  PROVE  /\ BytesIn(S, f) \in Nat /\ BytesIn(S, f) <= lengths[f]
         /\ S = {} => BytesIn(S, f) = 0
         /\ \A p \in Pieces \ S : BytesIn(S \union {p}, f) = BytesIn(S, f) + Overlap(p, f)
         /\ (\A p \in Pieces : Overlap(p, f) > 0 => p \in S) => BytesIn(S, f) = lengths[f]
<1>. DEFINE h == Cuts(S, f)
            w == Cuts(Pieces, f)
            N == NumPieces
<1>1. /\ N \in Nat /\ h \in Sizes(N) /\ w \in Sizes(N) /\ Pieces = 0..N - 1
      /\ \A p \in Pieces : h[p] = (IF p \in S THEN Overlap(p, f) ELSE 0) /\ w[p] = Overlap(p, f)
      /\ BytesIn(S, f) = Running(h, N)[N] /\ BytesIn(Pieces, f) = Running(w, N)[N]
  BY CutsFacts
<1>2. \A p \in Pieces : Overlap(p, f) \in Nat
  BY CutFacts
<1>3. Running(w, N)[N] = lengths[f]
  BY <1>1, WholeFile
<1>. HIDE DEF h, w, N
<1>4. Running(h, N)[N] \in Nat
  BY <1>1, RunningFacts
<1>5. Running(h, N)[N] <= Running(w, N)[N]
  <2>1. \A p \in 0..N - 1 : h[p] <= w[p]
    BY <1>1, <1>2
  <2>. QED BY <1>1, <2>1, RunningLess
<1>6. ASSUME S = {} PROVE Running(h, N)[N] = 0
  <2>. DEFINE z == [k \in 0..N - 1 |-> 0]
              Z == Running(z, N)
              U == {k \in 0..N : Z[k] = 0}
  <2>1. z \in Sizes(N) /\ \A k \in 0..N : k < N => z[k] = 0
    BY <1>1 DEF Sizes
  <2>2. h = z
    BY <1>1, <1>6 DEF Sizes
  <2>. HIDE DEF z
  <2>3. Z[0] = 0 /\ \A k \in 0..N : k < N => Z[k + 1] = Z[k] + z[k]
    BY <1>1, <2>1, RunningFacts
  <2>. HIDE DEF Z
  <2>4. 0 \in U
    BY <1>1, <2>3
  <2>5. ASSUME NEW i \in 0..N, i \in U, i < N PROVE i + 1 \in U
    BY <1>1, <2>1, <2>3, <2>5
  <2>. HIDE DEF U
  <2>6. 0..N \subseteq U
    BY <1>1, <2>4, <2>5, UpTo
  <2>. QED BY <1>1, <2>2, <2>6 DEF U, Z
<1>7. ASSUME NEW p \in Pieces \ S
      PROVE  BytesIn(S \union {p}, f) = Running(h, N)[N] + Overlap(p, f)
  <2>. DEFINE g == Cuts(S \union {p}, f)
  <2>1. /\ g \in Sizes(N) /\ BytesIn(S \union {p}, f) = Running(g, N)[N]
        /\ \A q \in Pieces : g[q] = IF q \in S \union {p} THEN Overlap(q, f) ELSE 0
    BY CutsFacts DEF N
  <2>. HIDE DEF g
  <2>2. g[p] = h[p] + Overlap(p, f) /\ \A k \in 0..N - 1 : k # p => g[k] = h[k]
    BY <1>1, <1>2, <2>1
  <2>. QED BY <1>1, <1>2, <2>1, <2>2, RunningMore
<1>8. ASSUME \A p \in Pieces : Overlap(p, f) > 0 => p \in S
      PROVE  Running(w, N)[N] <= Running(h, N)[N]
  <2>1. \A p \in 0..N - 1 : w[p] <= h[p]
    BY <1>1, <1>2, <1>8
  <2>. QED BY <1>1, <2>1, RunningLess
<1>9. lengths[f] \in Nat
  BY DEF Laid
<1>. QED BY <1>1, <1>3, <1>4, <1>5, <1>6, <1>7, <1>8, <1>9

-----------------------------------------------------------------------------
FilesTypes ==
  /\ lengths \in [File -> 0..MaxLength] /\ TotalLength > 0 /\ selected \subseteq File
  /\ filePhase \in {"none", "checking", "running", "stopped"} /\ managing \in BOOLEAN
  /\ skippedPieces \subseteq Pieces /\ have \subseteq Pieces /\ onDisk \subseteq Pieces
  /\ drifted \subseteq File
  /\ fileBytes \in [File -> Nat] /\ fileComplete \in [File -> BOOLEAN]
(* While the files are verified a new writer has counted nothing but what drifts. *)
CountsFromNothing ==
  filePhase = "checking" => \A f \in File \ drifted : fileBytes[f] = 0
(* After the first verification there is a manager. *)
WithManager == filePhase \in {"running", "stopped"} => managing
(* A file that is not empty is complete when its bytes are there. *)
CompleteIsWhole ==
  \A f \in File : lengths[f] > 0 => (fileComplete[f] <=> fileBytes[f] >= lengths[f])
(* No piece of a selected file is skipped. *)
SelectedNotSkipped ==
  managing => \A f \in selected : PiecesOfFile(f) \intersect skippedPieces = {}
FilesInv ==
  /\ FilesTypes /\ ProgressIsExact /\ CountsFromNothing /\ WithManager
  /\ CompleteIsWhole /\ SelectedNotSkipped
(* Everything but the progress depends on the lengths alone, which never change. *)
LEMMA SameLayout ==
  ASSUME lengths' = lengths
  PROVE  /\ TotalLength' = TotalLength /\ Pieces' = Pieces
         /\ \A f : PiecesOfFile(f)' = PiecesOfFile(f)
<1>1. TotalLength' = TotalLength /\ \A f : Offset(f)' = Offset(f)
  BY DEF TotalLength, Offset
<1>2. Pieces' = Pieces /\ NumPieces' = NumPieces
  BY <1>1 DEF Pieces, NumPieces
<1>3. \A f : PiecesOfFile(f)' = PiecesOfFile(f)
  BY <1>1 DEF PiecesOfFile
<1>. QED BY <1>1, <1>2, <1>3

(* What pieces hold of a file stays so. *)
LEMMA SameBytes ==
  ASSUME lengths' = lengths, NEW f
  PROVE  BytesIn(have, f)' = BytesIn(have', f)
<1>1. \A p : Overlap(p, f)' = Overlap(p, f)
  BY SameLayout DEF Overlap, Overlaps, PieceEnd, PieceStart, Offset
<1>. QED BY <1>1, SameLayout DEF BytesIn, NumPieces

(* What the parts of the invariant say after a step that keeps the lengths. *)
LEMMA NextFiles ==
  ASSUME lengths' = lengths, FilesTypes,
         selected' \subseteq File, managing' \in BOOLEAN,
         filePhase' \in {"none", "checking", "running", "stopped"},
         skippedPieces' \subseteq Pieces, have' \subseteq Pieces, onDisk' \subseteq Pieces,
         drifted' \subseteq File,
         fileBytes' \in [File -> Nat], fileComplete' \in [File -> BOOLEAN],
         managing' /\ filePhase' # "checking" =>
           \A f \in File \ drifted' : fileBytes'[f] = BytesIn(have', f),
         CountsFromNothing', WithManager',
         \A f \in File : lengths[f] > 0 => (fileComplete'[f] <=> fileBytes'[f] >= lengths[f]),
         managing' => \A f \in selected' : PiecesOfFile(f) \intersect skippedPieces' = {}
  PROVE  FilesInv'
<1>1. FilesTypes'
  BY SameLayout DEF FilesTypes, File
<1>2. ProgressIsExact'
  BY SameBytes DEF ProgressIsExact, File
<1>3. CompleteIsWhole'
  BY DEF CompleteIsWhole, File
<1>4. SelectedNotSkipped'
  BY SameLayout DEF SelectedNotSkipped
<1>. QED BY <1>1, <1>2, <1>3, <1>4 DEF FilesInv

(* A step that touches no progress. *)
LEMMA SameProgress ==
  ASSUME FilesInv, lengths' = lengths, UNCHANGED <<managing, have, onDisk, progressVars>>,
         selected' \subseteq File, skippedPieces' \subseteq Pieces,
         \/ filePhase' = filePhase
         \/ filePhase = "running" /\ filePhase' = "stopped",
         managing => \A f \in selected' : PiecesOfFile(f) \intersect skippedPieces' = {}
  PROVE  FilesInv'
<1>1. /\ managing' = managing /\ have' = have /\ onDisk' = onDisk /\ fileBytes' = fileBytes
      /\ fileComplete' = fileComplete /\ drifted' = drifted
  BY DEF progressVars
<1>2. /\ FilesTypes /\ ProgressIsExact /\ CountsFromNothing /\ WithManager /\ CompleteIsWhole
  BY DEF FilesInv
<1>3. CountsFromNothing' /\ WithManager'
  BY <1>1, <1>2 DEF CountsFromNothing, WithManager, File
<1>4. managing' /\ filePhase' # "checking" =>
        \A f \in File \ drifted' : fileBytes'[f] = BytesIn(have', f)
  BY <1>1, <1>2 DEF ProgressIsExact
<1>5. \A f \in File : lengths[f] > 0 => (fileComplete'[f] <=> fileBytes'[f] >= lengths[f])
  BY <1>1, <1>2 DEF CompleteIsWhole
<1>6. filePhase' \in {"none", "checking", "running", "stopped"}
  BY <1>2 DEF FilesTypes
<1>. QED BY <1>1, <1>2, <1>3, <1>4, <1>5, <1>6, NextFiles DEF FilesTypes

(* Nothing is there and nothing is skipped. *)
LEMMA FilesStart == FilesInit => FilesInv
<1>. SUFFICES ASSUME FilesInit PROVE FilesInv
  OBVIOUS
<1>1. FilesTypes /\ Laid
  <2>1. lengths \in [File -> Nat]
    BY FileAssumption DEF FilesInit
  <2>2. 0 \in Nat /\ fileBytes \in [File -> Nat] /\ fileComplete \in [File -> BOOLEAN]
    BY DEF FilesInit
  <2>. QED BY <2>1, <2>2 DEF FilesInit, FilesTypes, Laid
<1>2. ProgressIsExact /\ CountsFromNothing /\ WithManager
  BY DEF FilesInit, ProgressIsExact, CountsFromNothing, WithManager
<1>3. CompleteIsWhole
  BY <1>1 DEF FilesInit, CompleteIsWhole, Laid
<1>. QED BY <1>1, <1>2, <1>3 DEF FilesInv, SelectedNotSkipped, FilesInit

(* A new writer has nothing. *)
LEMMA NewWriterFiles == FilesInv /\ NewWriter => FilesInv'
<1>. SUFFICES ASSUME FilesInv, NewWriter PROVE FilesInv'
  OBVIOUS
<1>1. FilesTypes /\ Laid
  BY FileAssumption DEF FilesInv, FilesTypes, Laid
<1>2. /\ fileBytes' \in [File -> Nat] /\ fileComplete' \in [File -> BOOLEAN]
      /\ \A f \in File : fileBytes'[f] = 0 /\ fileComplete'[f] = FALSE
  <2>1. 0 \in Nat
    OBVIOUS
  <2>. QED BY <2>1 DEF NewWriter
<1>3. CountsFromNothing' /\ WithManager'
  BY <1>2 DEF NewWriter, CountsFromNothing, WithManager, File
<1>4. \A f \in File : lengths[f] > 0 => (fileComplete'[f] <=> fileBytes'[f] >= lengths[f])
  BY <1>1, <1>2 DEF Laid
<1>5. managing' => \A f \in selected' : PiecesOfFile(f) \intersect skippedPieces' = {}
  BY DEF NewWriter, FilesInv, SelectedNotSkipped
<1>. QED BY <1>1, <1>2, <1>3, <1>4, <1>5, NextFiles DEF NewWriter, FilesTypes

(* A new manager skips nothing, and the progress is counted anew if there is any. *)
LEMMA StartManagerFiles == FilesInv /\ StartManager => FilesInv'
<1>. SUFFICES ASSUME FilesInv, StartManager PROVE FilesInv'
  OBVIOUS
<1>1. FilesTypes /\ Laid /\ CountsFromNothing /\ CompleteIsWhole
  BY FileAssumption DEF FilesInv, FilesTypes, Laid
<1>2. /\ have' \subseteq Pieces /\ filePhase = "checking" /\ filePhase' = "running"
      /\ managing' = TRUE /\ skippedPieces' = {} /\ lengths' = lengths
      /\ selected' = selected /\ onDisk' = onDisk
  BY <1>1 DEF StartManager, FilesTypes
<1>3. \A f \in File : BytesIn(have', f) \in Nat /\ (have' = {} => BytesIn(have', f) = 0)
  BY <1>1, BytesFacts
<1>4. CountsFromNothing' /\ WithManager'
  BY <1>2 DEF CountsFromNothing, WithManager
<1>5. /\ fileBytes' \in [File -> Nat] /\ fileComplete' \in [File -> BOOLEAN]
      /\ drifted' \subseteq File
      /\ \A f \in File \ drifted' : fileBytes'[f] = BytesIn(have', f)
      /\ \A f \in File : lengths[f] > 0 => (fileComplete'[f] <=> fileBytes'[f] >= lengths[f])
  <2>1. CASE have' = {}
    <3>1. fileBytes' = fileBytes /\ fileComplete' = fileComplete /\ drifted' = drifted
      BY <2>1 DEF StartManager, progressVars
    <3>2. \A f \in File \ drifted' : fileBytes'[f] = BytesIn(have', f)
      BY <1>1, <1>2, <1>3, <2>1, <3>1 DEF CountsFromNothing
    <3>. QED BY <1>1, <3>1, <3>2 DEF FilesTypes, CompleteIsWhole
  <2>2. CASE have' # {}
    <3>1. /\ fileBytes' = [f \in File |-> BytesIn(have', f)]
          /\ fileComplete' = [f \in File |-> BytesIn(have', f) >= lengths[f]]
          /\ drifted' = {}
      BY <2>2 DEF StartManager
    <3>2. \A f \in File : fileBytes'[f] = BytesIn(have', f)
      BY <3>1
    <3>3. \A f \in File : fileComplete'[f] = (fileBytes'[f] >= lengths[f])
      BY <3>1
    <3>4. fileBytes' \in [File -> Nat]
      BY <1>3, <3>1
    <3>5. fileComplete' \in [File -> BOOLEAN]
      <4>1. \A f \in File : (BytesIn(have', f) >= lengths[f]) \in BOOLEAN
        BY <1>1, <1>3 DEF Laid
      <4>. QED BY <3>1, <4>1, Zenon
    <3>6. \A f \in File : fileComplete'[f] <=> fileBytes'[f] >= lengths[f]
      BY <3>3, Zenon
    <3>. QED BY <3>1, <3>2, <3>4, <3>5, <3>6, Zenon
  <2>. QED BY <2>1, <2>2
<1>. QED BY <1>1, <1>2, <1>4, <1>5, NextFiles DEF FilesTypes

(* A manager is told which pieces no selected file has. *)
LEMMA SelectionFiles ==
  FilesInv /\ (\E files \in SUBSET File : SelectFiles(files) \/ DeselectFiles(files)) => FilesInv'
<1>. SUFFICES ASSUME FilesInv, NEW files \in SUBSET File,
                     SelectFiles(files) \/ DeselectFiles(files)
              PROVE  FilesInv'
  OBVIOUS
<1>1. /\ lengths' = lengths /\ filePhase' = filePhase
      /\ UNCHANGED <<managing, have, onDisk, progressVars>>
  BY DEF SelectFiles, DeselectFiles
<1>2. selected' \subseteq File
  BY DEF SelectFiles, DeselectFiles, FilesInv, FilesTypes
<1>3. /\ skippedPieces' \subseteq Pieces
      /\ managing => \A f \in selected' : PiecesOfFile(f) \intersect skippedPieces' = {}
  <2>1. CASE selected' = {} /\ skippedPieces' = skippedPieces
    BY <2>1 DEF FilesInv, FilesTypes
  <2>2. CASE UpdatePieceSelection(selected')
    BY <2>2 DEF UpdatePieceSelection, FilesInv, FilesTypes
  <2>. QED BY <2>1, <2>2 DEF SelectFiles, DeselectFiles
<1>. QED BY <1>1, <1>2, <1>3, SameProgress

(* A piece adds to each file what the cut gives it; a file that gets nothing stays
   as it is, and one that gets a piece again drifts. *)
LEMMA WritePieceFiles == FilesInv /\ (\E p \in Pieces : WritePiece(p)) => FilesInv'
<1>. SUFFICES ASSUME FilesInv, NEW p \in Pieces, WritePiece(p) PROVE FilesInv'
  OBVIOUS
<1>1. FilesTypes /\ Laid /\ ProgressIsExact /\ CountsFromNothing /\ WithManager
  BY FileAssumption DEF FilesInv, FilesTypes, Laid
<1>2. /\ have' = (IF managing THEN have \union {p} ELSE have) /\ onDisk' = onDisk \union {p}
      /\ drifted' = IF Repeated(p) THEN drifted \union {f \in File : Overlaps(p, f)} ELSE drifted
      /\ UNCHANGED <<lengths, selected, filePhase, managing, skippedPieces>>
      /\ filePhase # "none"
  BY DEF WritePiece
<1>3. \A f \in File :
        /\ Overlap(p, f) \in Nat /\ (~Overlaps(p, f) => Overlap(p, f) = 0)
        /\ fileBytes[f] \in Nat
        /\ p \notin have => BytesIn(have \union {p}, f) = BytesIn(have, f) + Overlap(p, f)
  BY <1>1, CutFacts, BytesFacts DEF FilesTypes
<1>4. \A f \in File : fileBytes'[f] = fileBytes[f] + Overlap(p, f)
  BY DEF WritePiece
<1>5. fileBytes' \in [File -> Nat]
  <2>1. fileBytes' = [f \in File |-> fileBytes[f] + Overlap(p, f)]
    BY DEF WritePiece
  <2>2. \A f \in File : fileBytes[f] + Overlap(p, f) \in Nat
    BY <1>3
  <2>. QED BY <2>1, <2>2
<1>6. ASSUME NEW f \in File
      PROVE  /\ fileComplete'[f] \in BOOLEAN
             /\ lengths[f] > 0 => (fileComplete'[f] <=> fileBytes'[f] >= lengths[f])
  <2>1. fileComplete'[f] = IF Overlaps(p, f) THEN fileBytes'[f] >= lengths[f]
                           ELSE fileComplete[f]
    BY DEF WritePiece
  <2>2. CASE Overlaps(p, f)
    <3>1. (fileBytes'[f] >= lengths[f]) \in BOOLEAN
      BY <1>1, <1>5 DEF Laid
    <3>. QED BY <2>1, <2>2, <3>1, Zenon
  <2>3. CASE ~Overlaps(p, f)
    <3>1. fileBytes'[f] = fileBytes[f]
      BY <1>3, <1>4, <2>3
    <3>2. fileComplete[f] \in BOOLEAN
      BY <1>1 DEF FilesTypes
    <3>3. lengths[f] > 0 => (fileComplete[f] <=> fileBytes[f] >= lengths[f])
      BY DEF FilesInv, CompleteIsWhole
    <3>. QED BY <2>1, <2>3, <3>1, <3>2, <3>3, Zenon
  <2>. QED BY <2>2, <2>3
<1>7. fileComplete' \in [File -> BOOLEAN]
  BY <1>6 DEF WritePiece
<1>8. \A f \in File \ drifted' :
        f \in File \ drifted /\ (Repeated(p) => Overlap(p, f) = 0)
  BY <1>2, <1>3
<1>9. CountsFromNothing'
  <2>1. ASSUME filePhase = "checking", NEW f \in File \ drifted' PROVE fileBytes'[f] = 0
    <3>1. fileBytes[f] = 0 /\ Overlap(p, f) = 0
      BY <1>1, <1>8, <2>1 DEF CountsFromNothing, Repeated
    <3>. QED BY <1>4, <3>1
  <2>. QED BY <1>2, <2>1 DEF CountsFromNothing, File
<1>10. managing' /\ filePhase' # "checking" =>
         \A f \in File \ drifted' : fileBytes'[f] = BytesIn(have', f)
  <2>. SUFFICES ASSUME managing, filePhase # "checking", NEW f \in File \ drifted'
                PROVE  fileBytes'[f] = BytesIn(have \union {p}, f)
    BY <1>2
  <2>1. fileBytes[f] = BytesIn(have, f) /\ f \in File
    BY <1>1, <1>8 DEF ProgressIsExact
  <2>2. CASE p \in have
    <3>1. Overlap(p, f) = 0 /\ have \union {p} = have
      BY <1>8, <2>2 DEF Repeated
    <3>2. fileBytes'[f] = fileBytes[f]
      BY <1>3, <1>4, <2>1, <3>1
    <3>. QED BY <2>1, <3>1, <3>2, Zenon
  <2>3. CASE p \notin have
    BY <1>3, <1>4, <2>1, <2>3, Zenon
  <2>. QED BY <2>2, <2>3
<1>11. WithManager'
  BY <1>1, <1>2 DEF WithManager
<1>12. /\ have' \subseteq Pieces /\ onDisk' \subseteq Pieces /\ drifted' \subseteq File
       /\ skippedPieces' \subseteq Pieces
  BY <1>1, <1>2 DEF FilesTypes
<1>13. managing' => \A f \in selected' : PiecesOfFile(f) \intersect skippedPieces' = {}
  BY <1>2 DEF FilesInv, SelectedNotSkipped
<1>. QED BY <1>1, <1>2, <1>5, <1>6, <1>7, <1>9, <1>10, <1>11, <1>12, <1>13, NextFiles
         DEF FilesTypes

(* A piece from the peers makes its files drift. *)
LEMMA PieceFromPeersFiles == FilesInv /\ (\E p \in Pieces : PieceFromPeers(p)) => FilesInv'
<1>. SUFFICES ASSUME FilesInv, NEW p \in Pieces, PieceFromPeers(p) PROVE FilesInv'
  OBVIOUS
<1>1. FilesTypes /\ Laid /\ ProgressIsExact /\ WithManager /\ CompleteIsWhole
  BY FileAssumption DEF FilesInv, FilesTypes, Laid
<1>2. /\ have' = have \union {p} /\ onDisk' \in {onDisk, onDisk \union {p}}
      /\ drifted' = drifted \union {f \in File : Overlaps(p, f)}
      /\ UNCHANGED <<lengths, selected, filePhase, managing, skippedPieces, fileBytes, fileComplete>>
      /\ filePhase = "running" /\ p \notin have
  BY DEF PieceFromPeers
<1>3. ASSUME NEW f \in File \ drifted' PROVE fileBytes[f] = BytesIn(have \union {p}, f)
  <2>1. f \in File \ drifted /\ ~Overlaps(p, f)
    BY <1>2, <1>3
  <2>2. fileBytes[f] = BytesIn(have, f) /\ fileBytes[f] \in Nat
    BY <1>1, <1>2, <2>1 DEF ProgressIsExact, WithManager, FilesTypes
  <2>3. Overlap(p, f) = 0
    BY <1>1, <2>1, CutFacts
  <2>4. BytesIn(have \union {p}, f) = BytesIn(have, f) + Overlap(p, f)
    BY <1>1, <1>2, <2>1, BytesFacts
  <2>. QED BY <2>2, <2>3, <2>4
<1>4. CountsFromNothing' /\ WithManager'
  BY <1>1, <1>2 DEF CountsFromNothing, WithManager
<1>5. /\ have' \subseteq Pieces /\ onDisk' \subseteq Pieces /\ drifted' \subseteq File
  BY <1>1, <1>2 DEF FilesTypes
<1>6. managing' /\ filePhase' # "checking" =>
        \A f \in File \ drifted' : fileBytes'[f] = BytesIn(have', f)
  BY <1>2, <1>3
<1>7. managing' => \A f \in selected' : PiecesOfFile(f) \intersect skippedPieces' = {}
  BY <1>2 DEF FilesInv, SelectedNotSkipped
<1>8. \A f \in File : lengths[f] > 0 => (fileComplete'[f] <=> fileBytes'[f] >= lengths[f])
  BY <1>1, <1>2 DEF CompleteIsWhole
<1>. QED BY <1>1, <1>2, <1>4, <1>5, <1>6, <1>7, <1>8, NextFiles DEF FilesTypes

(* No step breaks the invariant. *)
LEMMA FilesKeep == FilesInv /\ [FilesNext]_fileVars => FilesInv'
<1>. SUFFICES ASSUME FilesInv, [FilesNext]_fileVars PROVE FilesInv'
  OBVIOUS
<1>1. CASE StopManager
  BY <1>1, SameProgress DEF StopManager, FilesInv, FilesTypes, SelectedNotSkipped
<1>2. CASE UNCHANGED fileVars
  BY <1>2, SameProgress DEF fileVars, FilesInv, FilesTypes, SelectedNotSkipped
<1>. QED BY <1>1, <1>2, NewWriterFiles, StartManagerFiles, SelectionFiles, WritePieceFiles,
            PieceFromPeersFiles DEF FilesNext

(* Types of the lengths, the selection, the pieces and the progress. *)
THEOREM FilesTypeCorrect == FilesSpec => []FilesTypeOK
<1>1. FilesInv => FilesTypeOK
  BY DEF FilesInv, FilesTypes, FilesTypeOK
<1>. QED BY <1>1, FilesStart, FilesKeep, PTL DEF FilesSpec

(* When nothing is left to download every selected file is whole, wherever its
   borders lie in the pieces and however often the selection was changed and the
   manager was replaced; and its progress says so unless a piece of it was downloaded,
   or written again. *)
THEOREM SelectedFilesAreWhole == FilesSpec => []SelectedAreWhole
<1>1. FilesInv => SelectedAreWhole
  <2>. SUFFICES ASSUME FilesInv PROVE SelectedAreWhole
    OBVIOUS
  <2>1. Laid /\ ProgressIsExact /\ CompleteIsWhole /\ FilesTypes
    BY FileAssumption DEF FilesInv, FilesTypes, Laid
  <2>2. ASSUME NothingLeft, NEW f \in selected PROVE BytesIn(have, f) = lengths[f] /\ f \in File
    <3>1. f \in File
      BY <2>1, <2>2 DEF FilesTypes
    <3>2. \A p \in Pieces : Overlap(p, f) > 0 => p \in have
      BY <2>1, <2>2, <3>1, CutFacts DEF FilesInv, SelectedNotSkipped, NothingLeft
    <3>. QED BY <2>1, <3>1, <3>2, BytesFacts
  <2>3. ASSUME NothingLeft, filePhase # "checking", NEW f \in selected \ drifted, lengths[f] > 0
        PROVE  fileComplete[f]
    <3>1. BytesIn(have, f) = lengths[f] /\ f \in File \ drifted
      BY <2>2, <2>3
    <3>2. fileBytes[f] = BytesIn(have, f)
      BY <2>1, <2>3, <3>1 DEF ProgressIsExact, NothingLeft
    <3>3. fileBytes[f] >= lengths[f]
      BY <2>1, <3>1, <3>2 DEF Laid
    <3>. QED BY <2>1, <2>3, <3>1, <3>3 DEF CompleteIsWhole
  <2>. QED BY <2>1, <2>2, <2>3 DEF SelectedAreWhole, NoneSkipped
<1>. QED BY <1>1, FilesStart, FilesKeep, PTL DEF FilesSpec
=============================================================================
