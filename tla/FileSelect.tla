----------------------------- MODULE FileSelect -----------------------------
(***************************************************************************)
(* Files over pieces: fileWriter.js lays the files of a torrent end to end *)
(* and cuts a piece at their borders; torrent.js turns a selection of      *)
(* files into pieces that the download manager skips.  A piece is the      *)
(* bytes of one pieceLength, the last one what is left; files may be empty *)
(* and several may share a piece.  writePiece serves the cold start, which *)
(* asks nobody what is there or skipped and repeats what it wrote; the     *)
(* download manager writes by itself, past the progress of the files.  (A  *)
(* source that ends inside a piece is ColdStart's.)                        *)
(***************************************************************************)
EXTENDS Integers, FiniteSetsExt

CONSTANTS PieceLength, NumFiles,
          MaxLength,  \* bound: the longest file
          MaxDrifted  \* bound: how many files have drifted when a piece is repeated

ASSUME FileAssumption ==
  /\ PieceLength \in Nat \ {0} /\ NumFiles \in Nat \ {0} /\ MaxLength \in Nat
  /\ MaxDrifted \in Nat

File == 0..NumFiles - 1

VARIABLES lengths,     \* of the files, from the torrent's metadata
          selected,    \* _selectedFiles; AllFiles stands for null too
          filePhase,   \* no writer yet, its verification, running, stopped
          managing,    \* there is a download manager, of this start or an earlier one
          skippedPieces, have, \* its skippedPieces and completedPieces
          onDisk,      \* pieces in the files themselves
          fileBytes,   \* _fileProgress of the newest writer: downloaded
          fileComplete, \* and complete
          drifted      \* files whose progress is not that of the pieces had

progressVars == <<fileBytes, fileComplete, drifted>>
fileVars == <<lengths, selected, filePhase, managing, skippedPieces, have, onDisk, progressVars>>
-----------------------------------------------------------------------------
(* _buildFileMap: the offset grows file by file, and is the total length at last. *)
Running(h, n) ==
  LET sum[k \in 0..n] == IF k = 0 THEN 0 ELSE sum[k - 1] + h[k - 1]
  IN  sum
Offset(f) == Running(lengths, NumFiles)[f]
TotalLength == Running(lengths, NumFiles)[NumFiles]

(* How many pieces there are, where one starts and ends. *)
NumPieces == (TotalLength + PieceLength - 1) \div PieceLength
Pieces == 0..NumPieces - 1
PieceStart(p) == p * PieceLength
PieceEnd(p) == Min({PieceStart(p) + PieceLength, TotalLength})

(* _getPiecesForFiles, _filePieceMap: from the piece of the first byte to that of the
   last, which for an empty file are the same one or none. *)
PiecesOfFileShort(f) ==                                          \* mutant
  Offset(f) \div PieceLength .. (Offset(f) + lengths[f]) \div PieceLength - 1
PiecesOfFile(f) ==
  Offset(f) \div PieceLength .. (Offset(f) + lengths[f] - 1) \div PieceLength

(* _getOverlappingFiles: the files a piece goes into, an empty one inside the piece
   among them, and how many of its bytes. *)
Overlaps(p, f) == PieceStart(p) < Offset(f) + lengths[f] /\ PieceEnd(p) > Offset(f)
Overlap(p, f) ==
  IF Overlaps(p, f)
  THEN Min({PieceEnd(p), Offset(f) + lengths[f]}) - Max({PieceStart(p), Offset(f)})
  ELSE 0

(* recalculateFileProgress: what these pieces hold of a file. *)
BytesIn(pieces, f) ==
  Running([p \in Pieces |-> IF p \in pieces THEN Overlap(p, f) ELSE 0], NumPieces)[NumPieces]
-----------------------------------------------------------------------------
FilesInit ==
  /\ lengths \in [File -> 0..MaxLength] /\ TotalLength > 0
  /\ selected = File /\ filePhase = "none" /\ managing = FALSE
  /\ skippedPieces = {} /\ have = {} /\ onDisk = {} /\ drifted = {}
  /\ fileBytes = [f \in File |-> 0] /\ fileComplete = [f \in File |-> FALSE]

(* start: a new FileWriter, whose progress begins at nothing. *)
NewWriter ==
  /\ filePhase \in {"none", "stopped"} /\ filePhase' = "checking"
  /\ fileBytes' = [f \in File |-> 0] /\ fileComplete' = [f \in File |-> FALSE]
  /\ drifted' = {}
  /\ UNCHANGED <<lengths, selected, managing, skippedPieces, have, onDisk>>
(* The verification is over, and has found some of the pieces that are in the files
   (others were damaged, or came when it had passed them); finding none it leaves the
   progress alone.  The new manager skips nothing, whatever is selected. *)
StartManager ==
  /\ filePhase = "checking" /\ filePhase' = "running" /\ managing' = TRUE
  /\ skippedPieces' = {} /\ have' \in SUBSET onDisk
  /\ IF have' = {} THEN UNCHANGED progressVars
     ELSE /\ fileBytes' = [f \in File |-> BytesIn(have', f)]
          /\ fileComplete' = [f \in File |-> BytesIn(have', f) >= lengths[f]]
          /\ drifted' = {}
  /\ UNCHANGED <<lengths, selected, onDisk>>
(* stop leaves the manager and the writer where they are. *)
StopManager ==
  /\ filePhase = "running" /\ filePhase' = "stopped"
  /\ UNCHANGED <<lengths, selected, managing, skippedPieces, have, onDisk, progressVars>>

(* _updatePieceSelection: only the manager that is there is told. *)
UpdatePieceSelection(files) ==
  skippedPieces' = IF managing
                   THEN Pieces \ UNION {PiecesOfFile(f) : f \in files} ELSE skippedPieces

(* selectFiles, selectAllFiles. *)
SelectFiles(files) ==
  /\ selected' = files /\ UpdatePieceSelection(files)
  /\ UNCHANGED <<lengths, filePhase, managing, have, onDisk, progressVars>>

(* deselectFiles: taking all away fails, after they have been taken away. *)
DeselectFiles(files) ==
  /\ selected' = selected \ files
  /\ IF selected' = {} THEN UNCHANGED skippedPieces ELSE UpdatePieceSelection(selected')
  /\ UNCHANGED <<lengths, filePhase, managing, have, onDisk, progressVars>>

(* writePiece, called by the cold start for any piece at any time, cuts it up and adds
   what each file gets to its progress; the manager, if there is one, then has it. *)
Repeated(p) == p \in have \/ filePhase = "checking"
WritePiece(p) ==
  /\ filePhase # "none"
  /\ Repeated(p) => Cardinality(drifted) <= MaxDrifted
  /\ onDisk' = onDisk \union {p}
  /\ have' = IF managing THEN have \union {p} ELSE have
  /\ fileBytes' = [f \in File |-> fileBytes[f] + Overlap(p, f)]
  /\ fileComplete' =
       [f \in File |-> IF Overlaps(p, f) THEN fileBytes'[f] >= lengths[f]
                       ELSE fileComplete[f]]
  /\ drifted' = IF Repeated(p) THEN drifted \union {f \in File : Overlaps(p, f)} ELSE drifted
  /\ UNCHANGED <<lengths, selected, filePhase, managing, skippedPieces>>

(* A wanted piece has come from the peers: _writePieceToDisk puts it into the file if
   there is only one and beside the files otherwise, and tells the writer nothing. *)
PieceFromPeers(p) ==
  /\ filePhase = "running" /\ p \notin have \union skippedPieces
  /\ have' = have \union {p}
  /\ onDisk' = IF NumFiles = 1 THEN onDisk \union {p} ELSE onDisk
  /\ drifted' = drifted \union {f \in File : Overlaps(p, f)}
  /\ UNCHANGED <<lengths, selected, filePhase, managing, skippedPieces, fileBytes, fileComplete>>

FilesNext ==
  \/ NewWriter \/ StartManager \/ StopManager
  \/ \E files \in SUBSET File : SelectFiles(files) \/ DeselectFiles(files)
  \/ \E p \in Pieces : WritePiece(p) \/ PieceFromPeers(p)

FilesSpec == FilesInit /\ [][FilesNext]_fileVars
-----------------------------------------------------------------------------
(* Type invariant. *)
FilesTypeOK ==
  /\ lengths \in [File -> 0..MaxLength] /\ selected \subseteq File
  /\ filePhase \in {"none", "checking", "running", "stopped"} /\ managing \in BOOLEAN
  /\ skippedPieces \union have \union onDisk \subseteq Pieces /\ drifted \subseteq File
  /\ fileBytes \in [File -> Nat] /\ fileComplete \in [File -> BOOLEAN]

(* Nothing is left to download. *)
NothingLeft == managing /\ Pieces \subseteq have \union skippedPieces

(* When nothing is left every byte of every selected file is in a piece that is had:
   none of its pieces was skipped, however the selection and the managers changed. *)
NoneSkipped == NothingLeft => \A f \in selected : BytesIn(have, f) = lengths[f]

(* The progress of a file is the bytes of the pieces had: the cuts at the file borders
   lose none and give none twice.  It drifts when a piece is written that is had
   already or while the files are verified, and when a piece is downloaded. *)
ProgressIsExact ==
  managing /\ filePhase # "checking" =>
    \A f \in File \ drifted : fileBytes[f] = BytesIn(have, f)

(* Both; so a selected file that has not drifted is complete when nothing is left.
   (An empty one between two pieces is never complete by writing.) *)
SelectedAreWhole ==
  /\ NoneSkipped /\ ProgressIsExact
  /\ NothingLeft /\ filePhase # "checking" =>
       \A f \in selected \ drifted : lengths[f] > 0 => fileComplete[f]
=============================================================================
