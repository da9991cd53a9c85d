------------------------- MODULE StateManagerProofs -------------------------
(***************************************************************************)
(* Proofs about the state file (StateManager), for every number of backups *)
(* and of updates: its types, that what was saved is found again whatever  *)
(* the moment of a crash, and that no step takes back what a load finds.   *)
(***************************************************************************)
EXTENDS StateManager, SequenceFacts

(* The main file and its backups by age: what load() looks at. *)
Chain == Backup \union {Main}

(* The place a save has emptied, or is about to fill. *)
Hole(v) ==
  CASE v.at = "rotate" -> v.i + 1
    [] v.at \in {"copy", "copying"} -> 0
    [] v.at = "rename" -> Main
    [] OTHER -> Gone

(* Of the contents d of the disk: what load() finds; that older places have
   older states; the places, but for the hole h, that a load passes over. *)
Found(d) ==
  LET valid == {i \in Backup : d[i] \in Version}
  IN  IF d[Main] \in Version THEN d[Main]
      ELSE IF valid = {} THEN 0 ELSE d[Min(valid)]
Ordered(d) ==
  \A p, q \in Chain : p < q /\ d[p] \in Version /\ d[q] \in Version => d[p] >= d[q]
Useless(d, h) ==
  {p \in Chain : p # h /\ d[p] \notin Version /\ \E q \in Chain : p <= q /\ d[q] # Absent}
HasBackup(d, v) == v = 0 \/ \E q \in Backup : d[q] \in Version /\ d[q] >= v

(* The save v, while the disk is d. *)
Written == {"check", "rotate", "copy", "copying", "rename"}
Newest(v, d) == v.at # "idle" => \A p \in Chain : d[p] \in Version => v.version >= d[p]
TempKept(v, d) ==
  /\ v.at = "write" => v.file = Temp /\ d[Temp] = Empty
  /\ v.at \notin {"write", "copying"} => v.file = Gone
  /\ v.at \in Written => d[Temp] = v.version
Rotating(v, d) ==
  /\ v.at \in {"rotate", "copy", "copying"} => d[Main] # Absent
  /\ v.at = "rotate" /\ v.i < MaxBackups - 1 => d[v.i + 1] \notin Version
  /\ v.at = "copy" => d[0] \notin Version
Copying(v, d) ==
  v.at = "copying" =>
    /\ v.file = 0 /\ d[0] = Empty /\ v.source # Absent
    /\ v.source \in Version =>
         v.version >= v.source /\ \A p \in Backup : d[p] \in Version => v.source >= d[p]
    /\ d[Main] \in Version => v.source = d[Main]

Mishaps == damage + crashes + faults

(* The inductive invariant, for a save s that is the only one under way: the numbers,
   the main file, the save itself, and how many places of the chain a load passes
   over, at most as many as there were mishaps. *)
SaveInv(v) ==
  /\ v.version <= stamp /\ (v.at # "idle" => v.version <= mem /\ phase # "down")
  /\ Newest(v, disk) /\ TempKept(v, disk) /\ Rotating(v, disk) /\ Copying(v, disk)
  /\ Cardinality(Useless(disk, Hole(v))) <= Mishaps
  /\ v.at = "copying" /\ BackupsLast /\ v.source \in Version => v.source >= due
  /\ v.at = "rename" /\ BackupsLast /\ v.backed => HasBackup(disk, due)
StateFacts ==
  /\ mem <= stamp /\ (BackupsLast /\ phase # "down" => mem >= due) /\ (dirty => mem = stamp) /\ (phase = "down" => ~dirty) /\ spare <= due
  /\ \A p \in Path : disk[p] \in Version => disk[p] <= stamp
  /\ BackupsLast => Found(disk) >= due
  /\ Mishaps + 1 < MaxBackups => HasBackup(disk, spare)
MainKept ==
  /\ disk[Main] = Absent => \A p \in Chain : disk[p] = Absent
  /\ damage = 0 => disk[Main] \in Version \union {Absent}
Resting(s) == \A r \in Saver \ {s} :
  save[r].at = "idle" /\ save[r].file = Gone /\ save[r].version <= stamp
StateInv(s) ==
  StateTypeOK /\ StateFacts /\ MainKept /\ Ordered(disk) /\ SaveInv(save[s]) /\ Resting(s)

(* What is shown of each step: it keeps the parts of the invariant, and what a
   load finds gets no older. *)
Steady == damage' = damage /\ BackupsLast => Found(disk') >= Found(disk)
After(s) == StateFacts' /\ MainKept' /\ Ordered(disk') /\ SaveInv(save[s])' /\ Steady

-----------------------------------------------------------------------------
(* Numbers, places and contents do not meet. *)
LEMMA PlainFacts ==
  /\ Version \subseteq Nat /\ 0 \in Version /\ Version \subseteq Content
  /\ Absent \in Content \ Version /\ Empty \in Content \ Version /\ Garbled \in Content \ Version
  /\ MaxBackups \in Nat /\ MaxBackups > 0 /\ 0 \in Backup /\ MaxBackups - 1 \in Backup
  /\ Backup \subseteq Nat /\ Backup = 0..(MaxBackups - 1)
  /\ Backup \subseteq Path /\ Main \in Path /\ Temp \in Path /\ Gone \notin Path
  /\ Main \notin Backup /\ Temp \notin Backup /\ Main # Temp /\ Chain \subseteq Path /\ Temp \notin Chain
  /\ Main \in Chain /\ Backup \subseteq Chain /\ Chain = -1..(MaxBackups - 1) /\ Main = -1 /\ Gone = -3
  BY StateAssumption DEF Version, Content, Backup, Path, Main, Temp, Gone, Chain

(* Versions are ordered as numbers are. *)
LEMMA VersionOrder ==
  /\ \A a \in Version : a \in Nat /\ a >= a /\ a >= 0
  /\ \A a, b, c \in Version : a >= b /\ b >= c => a >= c
  BY PlainFacts

(* Min and Max find what they are named for. *)
LEMMA LeastBackup ==
  ASSUME NEW T \in SUBSET Backup, T # {}
  PROVE  Min(T) \in T /\ \A i \in T : Min(T) <= i
<1>1. PICK m \in T : \A n \in T : m <= n
  BY LeastNumber, PlainFacts
<1>. QED BY <1>1 DEF Min

(* Of two versions Max is the later one (Rename keeps the later of two). *)
LEMMA GreaterOfTwo ==
  ASSUME NEW a \in Version, NEW b \in Version
  PROVE  Max({a, b}) \in Version /\ Max({a, b}) \in {a, b} /\ Max({a, b}) >= a /\ Max({a, b}) >= b
<1>. a \in Nat /\ b \in Nat
  BY PlainFacts
<1>1. \E m \in {a, b} : \A y \in {a, b} : m >= y
  <2>1. CASE a >= b
    BY <2>1
  <2>2. CASE ~(a >= b)
    BY <2>2
  <2>. QED BY <2>1, <2>2
<1>. QED BY <1>1 DEF Max

(* The progress of one save. *)
SaveRecord == [at : Progress, version : Version, file : Path \union {Gone},
               i : Backup, source : Content, backed : BOOLEAN]

(* The fields of a save's progress. *)
LEMMA SaveFields ==
  ASSUME NEW v \in SaveRecord
  PROVE  /\ v.at \in Progress /\ v.version \in Version /\ v.file \in Path \union {Gone}
         /\ v.i \in Backup /\ v.source \in Content /\ v.backed \in BOOLEAN
  BY DEF SaveRecord

(* A save that is not under way has no file open. *)
LEMMA IdleFields ==
  /\ Idle \in SaveRecord /\ Idle.at = "idle" /\ Idle.version = 0 /\ Idle.file = Gone
  /\ Idle.backed = TRUE
  BY PlainFacts DEF Idle, SaveRecord, Progress

(* A save that goes on to the next step: what it keeps and what it sets. *)
LEMMA SaveUpdates ==
  ASSUME NEW v \in SaveRecord, NEW pc \in Progress, NEW f \in Path \union {Gone},
         NEW k \in Backup, NEW c \in Content, NEW b \in BOOLEAN
  PROVE  /\ [v EXCEPT !.at = pc, !.file = f] \in SaveRecord
         /\ [v EXCEPT !.at = pc, !.i = k] \in SaveRecord
         /\ [v EXCEPT !.at = pc, !.file = f, !.source = c] \in SaveRecord
         /\ [v EXCEPT !.at = pc, !.file = f, !.backed = b] \in SaveRecord
  BY DEF SaveRecord

(* A save whose file a rename has moved. *)
LEMMA FileUpdate ==
  ASSUME NEW v \in SaveRecord, NEW f \in Path \union {Gone}
  PROVE  [v EXCEPT !.file = f] \in SaveRecord
  BY DEF SaveRecord

(* A save that begins, and one that recovers a backup. *)
LEMMA BegunFields ==
  ASSUME NEW n \in Version, NEW i \in Backup
  PROVE  /\ Begun(n) \in SaveRecord /\ Begun(n).at = "open" /\ Begun(n).version = n
         /\ Begun(n).file = Gone
         /\ [Begun(n) EXCEPT !.i = i] \in SaveRecord /\ [Begun(n) EXCEPT !.i = i].at = "open"
         /\ [Begun(n) EXCEPT !.i = i].version = n /\ [Begun(n) EXCEPT !.i = i].file = Gone
  BY PlainFacts DEF Begun, Idle, SaveRecord, Progress

(* A backup that is taken is a version, and the save of it a save. *)
LEMMA RecoverTypes ==
  ASSUME StateTypeOK, NEW s \in Saver, NEW j \in Nat \union {-1}, Older(j) # {},
         Recover(s, Min(Older(j)))
  PROVE  mem' \in Version /\ save' \in [Saver -> SaveRecord] /\ phase' = "loading"
<1>1. PICK i : i = Min(Older(j))
  OBVIOUS
<1>2. i \in Backup /\ disk[i] \in Version
  BY <1>1, LeastBackup DEF Older
<1>3. [Begun(disk[i]) EXCEPT !.i = i] \in SaveRecord
  BY <1>2, BegunFields
<1>. QED BY <1>1, <1>2, <1>3 DEF Recover, StateTypeOK, SaveRecord

(* What a load finds is a version. *)
LEMMA FoundIsVersion ==
  ASSUME NEW d \in [Path -> Content]
  PROVE  Found(d) \in Version
<1>. DEFINE valid == {i \in Backup : d[i] \in Version}
<1>1. CASE d[Main] \in Version
  BY <1>1 DEF Found
<1>2. CASE d[Main] \notin Version /\ valid = {}
  BY <1>2, PlainFacts DEF Found
<1>3. CASE d[Main] \notin Version /\ valid # {}
  <2>1. Min(valid) \in valid
    BY <1>3, LeastBackup
  <2>. QED BY <1>3, <2>1 DEF Found
<1>. QED BY <1>1, <1>2, <1>3

(* What load() finds, by the name that takes the disk as an argument. *)
LEMMA LoadedIsFound == Loaded = Found(disk)
  BY DEF Loaded, Found

(* Renames keep types. *)
LEMMA MovedTypes ==
  ASSUME disk \in [Path -> Content], save \in [Saver -> SaveRecord],
         NEW from \in Path, NEW to \in Path \union {Gone}
  PROVE  DiskMoved(from, to) \in [Path -> Content] /\ SavesMoved(from, to) \in [Saver -> SaveRecord]
<1>1. DiskMoved(from, to) \in [Path -> Content]
  BY PlainFacts DEF DiskMoved
<1>2. \A s \in Saver : [save[s] EXCEPT !.file = to] \in SaveRecord /\ [save[s] EXCEPT !.file = Gone] \in SaveRecord
  BY FileUpdate, PlainFacts
<1>3. SavesMoved(from, to) \in [Saver -> SaveRecord]
  BY <1>2 DEF SavesMoved
<1>. QED BY <1>1, <1>3

(* Writing a file keeps the type of the disk. *)
LEMMA WriteTypes ==
  ASSUME disk \in [Path -> Content], NEW f \in Path \union {Gone}, NEW c \in Content,
         WriteFile(f, c)
  PROVE  disk' \in [Path -> Content]
<1>1. CASE f = Gone
  BY <1>1 DEF WriteFile
<1>2. CASE f # Gone
  BY <1>2, PlainFacts DEF WriteFile
<1>. QED BY <1>1, <1>2

(* One save replaced by a record. *)
LEMMA OneSave ==
  ASSUME NEW S, NEW T, NEW f \in [S -> T], NEW x \in S, NEW r \in T
  PROVE  [f EXCEPT ![x] = r] \in [S -> T]
  OBVIOUS

(* The types, with the progress of a save by its name. *)
LEMMA TypesByName ==
  StateTypeOK <=> /\ mem \in Version /\ stamp \in Version /\ due \in Version /\ spare \in Version
                  /\ dirty \in BOOLEAN /\ phase \in {"down", "loading", "up"}
                  /\ disk \in [Path -> Content] /\ save \in [Saver -> SaveRecord]
                  /\ crashes \in Nat /\ damage \in Nat /\ faults \in Nat
                  /\ overlapped \in BOOLEAN /\ slipped \in BOOLEAN
  BY DEF StateTypeOK, SaveRecord

(* Every step of one save keeps the types. *)
LEMMA SaveStepTypes ==
  ASSUME StateTypeOK, NEW s \in Saver, SaveSteps(s)
  PROVE  StateTypeOK'
<1>. USE TypesByName
<1>. DEFINE v == save[s]
<1>1. v \in SaveRecord
  OBVIOUS
<1>2. /\ v.version \in Version /\ v.file \in Path \union {Gone} /\ v.i \in Backup
      /\ v.source \in Content
  BY <1>1, SaveFields
<1>. HIDE DEF v
<1>3. ASSUME Save(s) PROVE StateTypeOK'
  <2>1. Begun(mem) \in SaveRecord
    BY BegunFields, PlainFacts
  <2>2. save' \in [Saver -> SaveRecord] /\ overlapped' \in BOOLEAN
    BY <1>3, <2>1, OneSave DEF Save
  <2>. QED BY <1>3, <2>2 DEF Save, StateTypeOK, SaveRecord
<1>4. ASSUME Open(s) PROVE StateTypeOK'
  <2>1. [v EXCEPT !.at = "write", !.file = Temp] \in SaveRecord
    BY <1>1, SaveUpdates, PlainFacts DEF Progress
  <2>2. save' \in [Saver -> SaveRecord]
    BY <1>4, <2>1, OneSave DEF Open, v
  <2>3. disk' \in [Path -> Content]
    BY <1>4, PlainFacts DEF Open
  <2>. QED BY <1>4, <2>2, <2>3 DEF Open, SaveStep, history, StateTypeOK, SaveRecord
<1>5. ASSUME Write(s) PROVE StateTypeOK'
  <2>1. [v EXCEPT !.at = "check", !.file = Gone] \in SaveRecord
    BY <1>1, SaveUpdates, PlainFacts DEF Progress
  <2>2. save' \in [Saver -> SaveRecord]
    BY <1>5, <2>1, OneSave DEF Write, v
  <2>3. disk' \in [Path -> Content]
    BY <1>2, <1>5, PlainFacts, WriteTypes DEF Write, v
  <2>. QED BY <1>5, <2>2, <2>3 DEF Write, SaveStep, history, StateTypeOK, SaveRecord
<1>6. ASSUME WriteFails(s) PROVE StateTypeOK'
  <2>1. v.i \in Nat \union {-1} /\ save[s].i = v.i
    BY <1>2, PlainFacts DEF v
  <2>2. CASE phase = "loading" /\ Older(v.i) # {}
    <3>1. Recover(s, Min(Older(v.i))) /\ slipped' = TRUE
      BY <1>6, <2>1, <2>2 DEF WriteFails
    <3>2. mem' \in Version /\ save' \in [Saver -> SaveRecord] /\ phase' = "loading"
      BY <2>1, <2>2, <3>1, RecoverTypes
    <3>. QED BY <1>6, <3>1, <3>2 DEF WriteFails, StateTypeOK, SaveRecord
  <2>3. CASE ~(phase = "loading" /\ Older(v.i) # {})
    <3>1. save' = [save EXCEPT ![s] = Idle] /\ phase' = "up" /\ UNCHANGED <<mem, slipped>>
      BY <1>6, <2>1, <2>3 DEF WriteFails
    <3>2. save' \in [Saver -> SaveRecord]
      BY <3>1, IdleFields, OneSave
    <3>. QED BY <1>6, <3>1, <3>2 DEF WriteFails, StateTypeOK, SaveRecord
  <2>. QED BY <2>2, <2>3
<1>7. ASSUME Check(s) PROVE StateTypeOK'
  <2>1. PICK pc \in {"rename", "rotate"} : save' = [save EXCEPT ![s].at = pc, ![s].i = MaxBackups - 1]
    BY <1>7 DEF Check
  <2>2. [v EXCEPT !.at = pc, !.i = MaxBackups - 1] \in SaveRecord
    BY <1>1, SaveUpdates, PlainFacts DEF Progress
  <2>3. save' \in [Saver -> SaveRecord]
    BY <2>1, <2>2, OneSave DEF v
  <2>. QED BY <1>7, <2>3 DEF Check, SaveStep, history, StateTypeOK, SaveRecord
<1>8. ASSUME Rotate(s) PROVE StateTypeOK'
  <2>. DEFINE to == IF v.i = MaxBackups - 1 THEN Gone ELSE v.i + 1
              w == IF disk[v.i] # Absent THEN SavesMoved(v.i, to) ELSE save
              pc == IF v.i = 0 THEN "copy" ELSE "rotate"
              k == IF v.i = 0 THEN 0 ELSE v.i - 1
  <2>1. to \in Path \union {Gone} /\ v.i \in Path /\ pc \in Progress /\ k \in Backup
    BY <1>2, PlainFacts, SMTT(30) DEF Progress
  <2>2. /\ disk' = IF disk[v.i] # Absent THEN DiskMoved(v.i, to) ELSE disk
        /\ save' = [w EXCEPT ![s].at = pc, ![s].i = k]
    BY <1>8 DEF Rotate, RotateFrom, v
  <2>. HIDE DEF to, pc, k
  <2>3. w \in [Saver -> SaveRecord] /\ disk' \in [Path -> Content]
    BY <2>1, <2>2, MovedTypes
  <2>. HIDE DEF w
  <2>4. w[s] \in SaveRecord
    BY <2>3
  <2>5. [w[s] EXCEPT !.at = pc, !.i = k] \in SaveRecord
    BY <2>1, <2>4, SaveUpdates, PlainFacts
  <2>6. save' \in [Saver -> SaveRecord]
    BY <2>2, <2>3, <2>5, OneSave
  <2>. QED BY <1>8, <2>3, <2>6 DEF Rotate, RotateFrom, SaveStep, history, StateTypeOK, SaveRecord
<1>9. ASSUME CopyStart(s) PROVE StateTypeOK'
  <2>1. [v EXCEPT !.at = "copying", !.file = 0, !.source = disk[Main]] \in SaveRecord
    BY <1>1, SaveUpdates, PlainFacts DEF Progress
  <2>2. save' \in [Saver -> SaveRecord]
    BY <1>9, <2>1, OneSave DEF CopyStart, v
  <2>3. disk' \in [Path -> Content]
    BY <1>9, PlainFacts DEF CopyStart
  <2>. QED BY <1>9, <2>2, <2>3 DEF CopyStart, SaveStep, history, StateTypeOK, SaveRecord
<1>10. ASSUME CopyEnd(s) PROVE StateTypeOK'
  <2>1. [v EXCEPT !.at = "rename", !.file = Gone] \in SaveRecord
    BY <1>1, SaveUpdates, PlainFacts DEF Progress
  <2>2. save' \in [Saver -> SaveRecord]
    BY <1>10, <2>1, OneSave DEF CopyEnd, v
  <2>3. disk' \in [Path -> Content]
    BY <1>2, <1>10, WriteTypes DEF CopyEnd, v
  <2>. QED BY <1>10, <2>2, <2>3 DEF CopyEnd, SaveStep, history, StateTypeOK, SaveRecord
<1>11. ASSUME CopyFails(s) PROVE StateTypeOK'
  <2>1. [v EXCEPT !.at = "rename", !.file = Gone, !.backed = FALSE] \in SaveRecord
    BY <1>1, SaveUpdates, PlainFacts DEF Progress
  <2>2. save' \in [Saver -> SaveRecord]
    BY <1>11, <2>1, OneSave DEF CopyFails, v
  <2>. QED BY <1>11, <2>2 DEF CopyFails, StateTypeOK, SaveRecord
<1>12. ASSUME Rename(s) PROVE StateTypeOK'
  <2>1. CASE disk[Temp] = Absent
    <3>1. save' \in [Saver -> SaveRecord]
      BY <1>12, <2>1, IdleFields, OneSave DEF Rename, history
    <3>. QED BY <1>12, <2>1, <3>1 DEF Rename, history, StateTypeOK, SaveRecord
  <2>2. CASE disk[Temp] # Absent
    <3>1. SavesMoved(Temp, Main) \in [Saver -> SaveRecord] /\ DiskMoved(Temp, Main) \in [Path -> Content]
      BY MovedTypes, PlainFacts
    <3>2. save' \in [Saver -> SaveRecord] /\ disk' \in [Path -> Content]
      BY <1>12, <2>2, <3>1, IdleFields, OneSave DEF Rename, history
    <3>3. Max({due, v.version}) \in Version
      BY <1>2, GreaterOfTwo, PlainFacts
    <3>4. due' = Max({due, v.version}) /\ spare' \in {due, 0} /\ dirty' = FALSE
      BY <1>12, <2>2 DEF Rename, history, v
    <3>. QED BY <1>12, <3>2, <3>3, <3>4, PlainFacts DEF Rename, history, StateTypeOK, SaveRecord
  <2>. QED BY <2>1, <2>2
<1>. QED
  BY <1>3, <1>4, <1>5, <1>6, <1>7, <1>8, <1>9, <1>10, <1>11, <1>12 DEF SaveSteps

(* The types hold at the start, and every step keeps them. *)
LEMMA StateTypeStarts == StateInit => StateTypeOK
<1>. SUFFICES ASSUME StateInit PROVE StateTypeOK
  OBVIOUS
<1>1. save \in [Saver -> SaveRecord] /\ disk \in [Path -> Content]
  BY IdleFields, PlainFacts DEF StateInit
<1>. QED BY <1>1, TypesByName, PlainFacts DEF StateInit

(* Every step keeps the types. *)
LEMMA StateTypeStep == StateTypeOK /\ [StateNext]_vars => StateTypeOK'
<1>. SUFFICES ASSUME StateTypeOK, [StateNext]_vars PROVE StateTypeOK'
  OBVIOUS
<1>. USE TypesByName
<1>1. ASSUME Update PROVE StateTypeOK'
  <2>1. stamp + 1 \in Version
    BY <1>1, StateAssumption DEF Update, history, Version
  <2>. QED BY <1>1, <2>1 DEF Update, history, StateTypeOK, SaveRecord
<1>2. ASSUME Crash PROVE StateTypeOK'
  <2>1. save' \in [Saver -> SaveRecord] /\ crashes' \in Nat
    BY <1>2, IdleFields DEF Crash
  <2>. QED BY <1>2, <2>1, PlainFacts DEF Crash, StateTypeOK, SaveRecord
<1>3. ASSUME Load PROVE StateTypeOK'
  <2>1. CASE disk[Main] \in Version \/ Older(-1) = {}
    <3>1. mem' \in Version /\ phase' = "up" /\ UNCHANGED save
      BY <1>3, <2>1, FoundIsVersion, LoadedIsFound DEF Load, history
    <3>. QED BY <1>3, <3>1 DEF Load, history, StateTypeOK, SaveRecord
  <2>2. CASE ~(disk[Main] \in Version \/ Older(-1) = {})
    <3>1. PICK s \in Saver : Recover(s, Min(Older(-1)))
      BY <1>3, <2>2 DEF Load, history
    <3>2. mem' \in Version /\ save' \in [Saver -> SaveRecord] /\ phase' = "loading"
      BY <2>2, <3>1, RecoverTypes
    <3>. QED BY <1>3, <3>2 DEF Load, history, StateTypeOK, SaveRecord
  <2>. QED BY <2>1, <2>2
<1>4. ASSUME Damage PROVE StateTypeOK'
  <2>1. disk' \in [Path -> Content]
    BY <1>4, PlainFacts DEF Damage, history
  <2>. QED BY <1>4, <2>1, PlainFacts DEF Damage, history, StateTypeOK, SaveRecord
<1>5. CASE UNCHANGED vars
  BY <1>5 DEF vars, history, StateTypeOK
<1>. QED BY <1>1, <1>2, <1>3, <1>4, <1>5, SaveStepTypes DEF StateNext

(* The state in memory, the files and the saves under way keep their types, for
   any number of overlapping saves. *)
THEOREM StateTypeCorrect == StateSpec => []StateTypeOK
<1>. QED BY StateTypeStarts, StateTypeStep, PTL DEF StateSpec

-----------------------------------------------------------------------------
(* With older states in older places a load finds the newest state there is. *)
LEMMA FoundFacts ==
  ASSUME NEW d \in [Path -> Content], Ordered(d)
  PROVE  /\ \A p \in Chain : d[p] \in Version => Found(d) >= d[p]
         /\ Found(d) = 0 \/ \E p \in Chain : d[p] = Found(d) /\ d[p] \in Version
         /\ d[Main] \in Version => Found(d) = d[Main]
         /\ d[Main] \notin Version => HasBackup(d, Found(d))
<1>. DEFINE valid == {i \in Backup : d[i] \in Version}
<1>0. \A p \in Chain : p = Main \/ p \in Backup
  BY DEF Chain
<1>1. CASE d[Main] \in Version
  <2>1. Found(d) = d[Main]
    BY <1>1 DEF Found
  <2>2. \A p \in Backup : Main \in Chain /\ p \in Chain /\ Main < p
    BY PlainFacts
  <2>3. \A p \in Chain : d[p] \in Version => d[Main] >= d[p]
    BY <1>0, <1>1, <2>2, VersionOrder DEF Ordered
  <2>. QED BY <1>1, <2>1, <2>3, PlainFacts
<1>2. CASE d[Main] \notin Version /\ valid = {}
  <2>1. Found(d) = 0
    BY <1>2 DEF Found
  <2>. QED BY <1>0, <1>2, <2>1 DEF HasBackup
<1>3. CASE d[Main] \notin Version /\ valid # {}
  <2>1. Min(valid) \in valid /\ \A i \in valid : Min(valid) <= i
    BY <1>3, LeastBackup
  <2>2. Found(d) = d[Min(valid)]
    BY <1>3 DEF Found
  <2>3. PICK m : m = Min(valid)
    OBVIOUS
  <2>4. m \in Backup /\ m \in Chain /\ d[m] \in Version /\ Found(d) = d[m]
    BY <2>1, <2>2, <2>3, PlainFacts
  <2>5. \A p \in Chain : d[p] \in Version => d[m] >= d[p]
    <3>. TAKE p \in Chain
    <3>1. HAVE d[p] \in Version
    <3>2. p \in valid /\ m <= p /\ p \in Nat /\ m \in Nat
      BY <1>0, <1>3, <2>1, <2>3, <2>4, <3>1, PlainFacts
    <3>3. d[p] \in Nat
      BY <3>1, PlainFacts
    <3>. QED BY <2>4, <3>1, <3>2, <3>3 DEF Ordered
  <2>6. HasBackup(d, d[m])
    BY <2>4, VersionOrder DEF HasBackup
  <2>. QED BY <1>3, <2>4, <2>5, <2>6
<1>. QED BY <1>1, <1>2, <1>3

(* What a load finds does not get older when every state is still there, or a
   newer one. *)
LEMMA FoundGrows ==
  ASSUME NEW d \in [Path -> Content], NEW e \in [Path -> Content], Ordered(d), Ordered(e),
         \A p \in Chain : d[p] \in Version => \E q \in Chain : e[q] \in Version /\ e[q] >= d[p]
  PROVE  Found(e) >= Found(d)
<1>1. Found(e) \in Nat
  BY FoundIsVersion, PlainFacts
<1>2. CASE Found(d) = 0
  BY <1>1, <1>2
<1>3. ASSUME NEW p \in Chain, d[p] = Found(d), d[p] \in Version PROVE Found(e) >= Found(d)
  <2>1. PICK q \in Chain : e[q] \in Version /\ e[q] >= d[p]
    BY <1>3
  <2>2. Found(e) >= e[q]
    BY <2>1, FoundFacts
  <2>3. Found(e) \in Version
    BY FoundIsVersion
  <2>. QED BY <1>3, <2>1, <2>2, <2>3, VersionOrder
<1>. QED BY <1>2, <1>3, FoundFacts

(* Only the places of the chain matter. *)
LEMMA SameChain ==
  ASSUME NEW d \in [Path -> Content], NEW e \in [Path -> Content], \A p \in Chain : e[p] = d[p]
  PROVE  /\ Found(e) = Found(d) /\ Ordered(e) <=> Ordered(d)
         /\ \A h : Useless(e, h) = Useless(d, h)
         /\ \A n : HasBackup(e, n) <=> HasBackup(d, n)
<1>1. {i \in Backup : e[i] \in Version} = {i \in Backup : d[i] \in Version} /\ e[Main] = d[Main]
  BY PlainFacts
<1>2. \A T \in SUBSET Backup : T # {} => e[Min(T)] = d[Min(T)]
  BY LeastBackup, PlainFacts
<1>3. Found(e) = Found(d)
  <2>. DEFINE T == {i \in Backup : d[i] \in Version}
  <2>1. Found(d) = IF d[Main] \in Version THEN d[Main] ELSE IF T = {} THEN 0 ELSE d[Min(T)]
    BY DEF Found
  <2>2. Found(e) = IF e[Main] \in Version THEN e[Main] ELSE IF T = {} THEN 0 ELSE e[Min(T)]
    BY <1>1 DEF Found
  <2>3. T \in SUBSET Backup
    OBVIOUS
  <2>. HIDE DEF T
  <2>. QED BY <1>1, <1>2, <2>1, <2>2, <2>3
<1>4. Ordered(e) <=> Ordered(d)
  BY DEF Ordered
<1>5. \A h : Useless(e, h) = Useless(d, h)
  BY DEF Useless
<1>6. \A n : HasBackup(e, n) <=> HasBackup(d, n)
  BY PlainFacts DEF HasBackup
<1>. QED BY <1>3, <1>4, <1>5, <1>6

(* Counting useless places. *)
LEMMA UselessFinite ==
  ASSUME NEW d, NEW h
  PROVE  IsFiniteSet(Useless(d, h)) /\ Cardinality(Useless(d, h)) \in Nat
<1>1. IsFiniteSet(Chain)
  BY FS_Interval, PlainFacts
<1>2. Useless(d, h) \subseteq Chain
  BY DEF Useless
<1>. QED BY <1>1, <1>2, CountPart

(* No place more is useless when all that are now were before. *)
LEMMA NoMoreUseless ==
  ASSUME NEW d, NEW h, NEW e, NEW g, Useless(e, g) \subseteq Useless(d, h)
  PROVE  Cardinality(Useless(e, g)) <= Cardinality(Useless(d, h))
  BY UselessFinite, CountPart

(* At most one place more. *)
LEMMA OneMoreUseless ==
  ASSUME NEW d, NEW h, NEW e, NEW g, NEW x, Useless(e, g) \subseteq Useless(d, h) \union {x}
  PROVE  Cardinality(Useless(e, g)) <= Cardinality(Useless(d, h)) + 1
  BY UselessFinite, CountMore

(* One place useless instead of another leaves their number as it was. *)
LEMMA ExchangedUseless ==
  ASSUME NEW d, NEW h, NEW e, NEW g, NEW x \in Useless(d, h), NEW y,
         Useless(e, g) \subseteq (Useless(d, h) \ {x}) \union {y}
  PROVE  Cardinality(Useless(e, g)) <= Cardinality(Useless(d, h))
<1>. DEFINE rest == Useless(d, h) \ {x}
<1>1. IsFiniteSet(rest) /\ Cardinality(rest) \in Nat /\ Cardinality(rest) + 1 <= Cardinality(Useless(d, h))
  BY UselessFinite, CountLess, CountPart
<1>2. Cardinality(Useless(e, g)) <= Cardinality(rest) + 1
  BY <1>1, CountMore
<1>. HIDE DEF rest
<1>. QED BY <1>1, <1>2, UselessFinite

(* Where only the last backup is of use, all the places before it are useless. *)
LEMMA ManyUseless ==
  ASSUME NEW d \in [Path -> Content], NEW h, h \notin Chain \ {MaxBackups - 1},
         d[MaxBackups - 1] # Absent, NEW first \in {Main, 0},
         \A p \in Chain : first <= p /\ p < MaxBackups - 1 => d[p] \notin Version
  PROVE  Cardinality(Useless(d, h)) >= MaxBackups - 1 - first
<1>. DEFINE T == first..(MaxBackups - 2)
<1>1. \A p \in T : p \in Chain /\ p <= MaxBackups - 1 /\ p # MaxBackups - 1 /\ first <= p /\ p < MaxBackups - 1
  BY PlainFacts
<1>2. MaxBackups - 1 \in Chain
  BY PlainFacts
<1>3. T \subseteq Useless(d, h)
  BY <1>1, <1>2 DEF Useless
<1>4. Cardinality(T) = MaxBackups - 1 - first
  <2>1. first \in Int /\ MaxBackups \in Nat /\ MaxBackups - 2 \in Int /\ first <= MaxBackups - 1
    BY PlainFacts
  <2>2. Cardinality(T) = IF first > MaxBackups - 2 THEN 0 ELSE (MaxBackups - 2) - first + 1
    BY <2>1, FS_Interval
  <2>. HIDE DEF T
  <2>. QED BY <2>1, <2>2
<1>. HIDE DEF T
<1>. QED BY <1>3, <1>4, UselessFinite, CountPart

-----------------------------------------------------------------------------
(* One step of a rotation: the file at i, if there is one, moves one place on,
   the oldest one out of the chain. *)
Rotated(d, i) ==
  IF d[i] = Absent THEN d
  ELSE [p \in Path |-> IF p = i THEN Absent ELSE IF p = i + 1 THEN d[i] ELSE d[p]]

(* What a step of the rotation leaves at each place. *)
LEMMA RotatedPlaces ==
  ASSUME NEW d \in [Path -> Content], NEW i \in Backup, NEW e, e = Rotated(d, i)
  PROVE  /\ e \in [Path -> Content] /\ e[Main] = d[Main] /\ e[Temp] = d[Temp]
         /\ e[i] = Absent
         /\ i < MaxBackups - 1 =>
              i + 1 \in Backup /\ e[i + 1] = IF d[i] = Absent THEN d[i + 1] ELSE d[i]
         /\ \A p \in Chain : p # i /\ p # i + 1 => e[p] = d[p]
         /\ d[i] = Absent => e = d
<1>1. i \in Nat /\ i \in Path /\ Main # i /\ Main # i + 1 /\ Temp # i /\ Temp # i + 1
  BY PlainFacts DEF Temp
<1>2. i < MaxBackups - 1 => i + 1 \in Backup /\ i + 1 \in Path /\ i + 1 # i
  BY PlainFacts
<1>. QED BY <1>1, <1>2, PlainFacts DEF Rotated

(* A step of a rotation leaves older states in older places, and makes no place
   useless but the one it moves. *)
LEMMA RotatedOrder ==
  ASSUME NEW d \in [Path -> Content], NEW i \in Backup, NEW e, e = Rotated(d, i), Ordered(d)
  PROVE  Ordered(e)
<1>. SUFFICES ASSUME NEW p \in Chain, NEW q \in Chain, p < q, e[p] \in Version, e[q] \in Version
              PROVE  e[p] >= e[q]
  BY DEF Ordered
<1>0. p \in Int /\ q \in Int /\ i \in Nat /\ MaxBackups \in Nat /\ i <= MaxBackups - 1 /\ i \in Chain
      /\ p <= MaxBackups - 1 /\ q <= MaxBackups - 1 /\ Absent \notin Version
  BY PlainFacts
<1>1. p # i /\ q # i
  BY <1>0, RotatedPlaces
<1>2. CASE d[i] = Absent
  BY <1>2, RotatedPlaces DEF Ordered
<1>3. CASE d[i] # Absent /\ p = i + 1
  <2>1. e[p] = d[i] /\ e[q] = d[q] /\ i < q
    BY <1>0, <1>1, <1>3, RotatedPlaces
  <2>. QED BY <1>0, <2>1 DEF Ordered
<1>4. CASE d[i] # Absent /\ q = i + 1
  <2>1. e[q] = d[i] /\ e[p] = d[p] /\ p < i
    BY <1>0, <1>1, <1>4, RotatedPlaces
  <2>. QED BY <1>0, <2>1 DEF Ordered
<1>5. CASE p # i + 1 /\ q # i + 1
  BY <1>0, <1>1, <1>5, RotatedPlaces DEF Ordered
<1>. QED BY <1>2, <1>3, <1>4, <1>5

(* A useless file stays useless where it is moved; no other becomes so. *)
LEMMA RotatedUseless ==
  ASSUME NEW d \in [Path -> Content], NEW i \in Backup, NEW e, e = Rotated(d, i)
  PROVE  Cardinality(Useless(e, i)) <= Cardinality(Useless(d, i + 1))
<1>0. i \in Nat /\ i \in Chain /\ i # i + 1 /\ MaxBackups \in Nat /\ \A p \in Chain : p \in Int /\ p <= MaxBackups - 1
  BY PlainFacts
<1>1. i \notin Useless(e, i)
  BY DEF Useless
<1>2. ASSUME NEW p \in Useless(e, i), p # i + 1 PROVE p \in Useless(d, i + 1)
  <2>1. p \in Chain /\ p # i /\ e[p] \notin Version
    BY DEF Useless
  <2>2. PICK q \in Chain : p <= q /\ e[q] # Absent
    BY DEF Useless
  <2>3. d[p] \notin Version
    BY <1>2, <2>1, RotatedPlaces
  <2>4. CASE q = i + 1
    <3>1. CASE d[i] = Absent
      BY <1>2, <2>1, <2>2, <2>3, <3>1, RotatedPlaces DEF Useless
    <3>2. CASE d[i] # Absent
      <4>1. p <= i
        BY <1>0, <1>2, <2>1, <2>2, <2>4
      <4>. QED BY <1>0, <1>2, <2>1, <2>3, <3>2, <4>1 DEF Useless
    <3>. QED BY <3>1, <3>2
  <2>5. CASE q # i + 1
    <3>1. d[q] # Absent
      BY <2>2, <2>5, RotatedPlaces
    <3>. QED BY <1>2, <2>1, <2>2, <2>3, <3>1 DEF Useless
  <2>. QED BY <2>4, <2>5
<1>3. ASSUME i + 1 \in Useless(e, i) PROVE i \in Useless(d, i + 1)
  <2>1. i + 1 \in Chain /\ e[i + 1] \notin Version /\ i < MaxBackups - 1
    BY <1>0, <1>3 DEF Useless
  <2>2. PICK q \in Chain : i + 1 <= q /\ e[q] # Absent
    BY <1>3 DEF Useless
  <2>3. d[i] \notin Version
    BY <2>1, RotatedPlaces, PlainFacts, SMTT(30)
  <2>4. CASE d[i] # Absent
    BY <1>0, <2>3, <2>4 DEF Useless
  <2>5. CASE d[i] = Absent
    <3>1. d[q] # Absent /\ i <= q
      BY <1>0, <2>2, <2>5, RotatedPlaces
    <3>. QED BY <1>0, <2>2, <2>3, <3>1 DEF Useless
  <2>. QED BY <2>4, <2>5
<1>4. CASE i \in Useless(d, i + 1)
  <2>1. Useless(e, i) \subseteq (Useless(d, i + 1) \ {i}) \union {i + 1}
    BY <1>1, <1>2
  <2>. QED BY <1>4, <2>1, ExchangedUseless
<1>5. CASE i \notin Useless(d, i + 1)
  <2>1. Useless(e, i) \subseteq Useless(d, i + 1)
    BY <1>2, <1>3, <1>5
  <2>. QED BY <2>1, NoMoreUseless
<1>. QED BY <1>4, <1>5

(* A step of a rotation takes away a state only at the end of the chain, and
   that is the only one when all places before it are useless. *)
LEMMA RotatedKeeps ==
  ASSUME NEW d \in [Path -> Content], NEW i \in Backup, NEW e, e = Rotated(d, i), Ordered(d),
         i < MaxBackups - 1 => d[i + 1] \notin Version,
         NEW m \in Nat, Cardinality(Useless(d, i + 1)) <= m
  PROVE  /\ m < MaxBackups \/ d[Main] \in Version => Found(e) >= Found(d)
         /\ m + 1 < MaxBackups => \A n \in Version : HasBackup(d, n) => HasBackup(e, n)
<1>0. /\ i \in Nat /\ i \in Chain /\ MaxBackups \in Nat /\ Backup \subseteq Chain /\ Main \in Chain
      /\ \A p \in Chain : p \in Int /\ p <= MaxBackups - 1
      /\ Absent \notin Version /\ i <= MaxBackups - 1 /\ Main # i /\ Main # i + 1
  BY PlainFacts
<1>1. e \in [Path -> Content] /\ Ordered(e)
  BY RotatedPlaces, RotatedOrder
<1>2. CASE i < MaxBackups - 1
  <2>1. \A p \in Chain : d[p] \in Version =>
          \E q \in Chain : e[q] = d[p] /\ (p \in Backup => q \in Backup)
    <3>. TAKE p \in Chain
    <3>. HAVE d[p] \in Version
    <3>1. CASE p = i
      BY <1>0, <1>2, <3>1, RotatedPlaces
    <3>2. CASE p # i
      BY <1>0, <1>2, <3>2, RotatedPlaces
    <3>. QED BY <3>1, <3>2
  <2>2. Found(e) >= Found(d)
    BY <1>1, <2>1, FoundGrows, VersionOrder
  <2>3. \A n \in Version : HasBackup(d, n) => HasBackup(e, n)
    BY <1>0, <2>1 DEF HasBackup
  <2>. QED BY <2>2, <2>3
<1>3. CASE i = MaxBackups - 1
  <2>1. i + 1 \notin Chain /\ i + 1 \notin Chain \ {MaxBackups - 1} /\ Main < i /\ Main \in {Main, 0}
        /\ 0 \in {Main, 0} /\ Main = -1
    BY <1>0, <1>3, PlainFacts
  <2>2. \A p \in Chain : p # i => e[p] = d[p]
    BY <2>1, RotatedPlaces
  <2>3. ASSUME m < MaxBackups PROVE Found(e) >= Found(d)
    <3>1. CASE \E p \in Chain : p # i /\ d[p] \in Version
      <4>1. PICK p \in Chain : p # i /\ d[p] \in Version
        BY <3>1
      <4>2. p < i
        BY <1>0, <1>3, <4>1
      <4>3. \A q \in Chain : d[q] \in Version => \E r \in Chain : e[r] \in Version /\ e[r] >= d[q]
        <5>. TAKE q \in Chain
        <5>. HAVE d[q] \in Version
        <5>1. CASE q # i
          BY <2>2, <5>1, VersionOrder
        <5>2. CASE q = i
          BY <1>0, <2>2, <4>1, <4>2, <5>2 DEF Ordered
        <5>. QED BY <5>1, <5>2
      <4>. QED BY <1>1, <4>3, FoundGrows
    <3>2. CASE \A p \in Chain : p # i => d[p] \notin Version
      <4>1. CASE d[i] # Absent
        <5>1. Cardinality(Useless(d, i + 1)) >= MaxBackups - 1 - Main
          BY <1>0, <1>3, <2>1, <3>2, <4>1, ManyUseless
        <5>. QED BY <1>0, <2>1, <2>3, <5>1, UselessFinite
      <4>2. CASE d[i] = Absent
        <5>1. e = d /\ Found(d) \in Nat
          BY <4>2, RotatedPlaces, FoundIsVersion, VersionOrder
        <5>. QED BY <5>1
      <4>. QED BY <4>1, <4>2
    <3>. QED BY <3>1, <3>2
  <2>4. ASSUME d[Main] \in Version PROVE Found(e) >= Found(d)
    <3>1. Found(e) = e[Main] /\ Found(d) = d[Main] /\ e[Main] = d[Main]
      BY <1>0, <1>1, <2>4, RotatedPlaces, FoundFacts
    <3>. QED BY <2>4, <3>1, VersionOrder
  <2>5. ASSUME m + 1 < MaxBackups, NEW n \in Version, HasBackup(d, n) PROVE HasBackup(e, n)
    <3>1. CASE n = 0
      BY <3>1 DEF HasBackup
    <3>2. ASSUME NEW q \in Backup, d[q] \in Version, d[q] >= n PROVE HasBackup(e, n)
      <4>1. CASE q # i
        BY <1>0, <2>2, <3>2, <4>1 DEF HasBackup
      <4>2. CASE q = i /\ \E p \in Backup : p # i /\ d[p] \in Version
        <5>1. PICK p \in Backup : p # i /\ d[p] \in Version
          BY <4>2
        <5>2. d[p] >= d[i]
          BY <1>0, <1>3, <3>2, <4>2, <5>1 DEF Ordered
        <5>3. e[p] \in Version /\ e[p] >= n
          BY <1>0, <2>2, <3>2, <4>2, <5>1, <5>2, VersionOrder
        <5>. QED BY <5>3 DEF HasBackup
      <4>3. CASE q = i /\ \A p \in Backup : p # i => d[p] \notin Version
        <5>1. \A p \in Chain : 0 <= p /\ p < MaxBackups - 1 => p \in Backup /\ p # i
          BY <1>0, <1>3, PlainFacts
        <5>2. d[MaxBackups - 1] # Absent /\ \A p \in Chain : 0 <= p /\ p < MaxBackups - 1 => d[p] \notin Version
          BY <1>0, <1>3, <3>2, <4>3, <5>1
        <5>3. Cardinality(Useless(d, i + 1)) >= MaxBackups - 1 - 0
          BY <2>1, <5>2, ManyUseless
        <5>. QED BY <1>0, <2>5, <5>3, UselessFinite
      <4>. QED BY <4>1, <4>2, <4>3
    <3>. QED BY <2>5, <3>1, <3>2 DEF HasBackup
  <2>. QED BY <2>3, <2>4, <2>5
<1>. QED BY <1>0, <1>2, <1>3

-----------------------------------------------------------------------------
(* The fields of a save that goes on to its next step. *)
LEMMA GoesOn ==
  ASSUME NEW v \in SaveRecord, NEW pc \in Progress, NEW f \in Path \union {Gone}
  PROVE  LET w == [v EXCEPT !.at = pc, !.file = f]
         IN  w.at = pc /\ w.file = f /\ w.version = v.version /\ w.source = v.source /\ w.backed = v.backed
  BY DEF SaveRecord

(* The same for a step of the rotation, with the next place. *)
LEMMA GoesOnAtIndex ==
  ASSUME NEW v \in SaveRecord, NEW pc \in Progress, NEW k \in Backup
  PROVE  LET w == [v EXCEPT !.at = pc, !.i = k]
         IN  w.at = pc /\ w.i = k /\ w.file = v.file /\ w.version = v.version /\ w.backed = v.backed
  BY DEF SaveRecord

(* The same when the copy of the main file begins. *)
LEMMA GoesOnCopying ==
  ASSUME NEW v \in SaveRecord, NEW c \in Content
  PROVE  LET w == [v EXCEPT !.at = "copying", !.file = 0, !.source = c]
         IN  w.at = "copying" /\ w.file = 0 /\ w.source = c /\ w.version = v.version /\ w.backed = v.backed
  BY DEF SaveRecord

(* The same when that copy fails. *)
LEMMA GoesOnUnbacked ==
  ASSUME NEW v \in SaveRecord
  PROVE  LET w == [v EXCEPT !.at = "rename", !.file = Gone, !.backed = FALSE]
         IN  w.at = "rename" /\ w.file = Gone /\ w.version = v.version /\ w.backed = FALSE
  BY DEF SaveRecord

(* A rename takes no open file along when no save has one. *)
LEMMA NoFileMoved ==
  ASSUME save \in [Saver -> SaveRecord], \A x \in Saver : save[x].file = Gone,
         NEW from \in Path, NEW to
  PROVE  SavesMoved(from, to) = save
<1>1. ASSUME NEW x \in Saver PROVE SavesMoved(from, to)[x] = save[x]
  <2>1. PICK v \in SaveRecord : v = save[x]
    OBVIOUS
  <2>2. v.file = Gone /\ v.file # from
    BY <2>1, PlainFacts
  <2>3. [v EXCEPT !.file = Gone] = v
    BY <2>1, <2>2 DEF SaveRecord
  <2>. QED BY <2>1, <2>2, <2>3 DEF SavesMoved
<1>2. SavesMoved(from, to) = [x \in Saver |-> SavesMoved(from, to)[x]] /\ save = [x \in Saver |-> save[x]]
  BY DEF SavesMoved
<1>. QED BY <1>1, <1>2

(* A save that has no file open moves no other save's file. *)
LEMMA NoneMoved ==
  ASSUME NEW s \in Saver, StateInv(s), save[s].file = Gone, NEW from \in Path, NEW to
  PROVE  SavesMoved(from, to) = save
<1>1. \A x \in Saver : save[x].file = Gone
  BY DEF StateInv, Resting
<1>. QED BY <1>1, NoFileMoved, TypesByName DEF StateInv

(* An old enough version is in a backup when a newer one is; and what is in a
   backup is found. *)
LEMMA HasOlderBackup ==
  ASSUME NEW d, NEW a \in Version, NEW b \in Version, a >= b, HasBackup(d, a)
  PROVE  HasBackup(d, b)
<1>1. CASE a = 0
  BY <1>1, VersionOrder DEF HasBackup
<1>2. CASE a # 0
  BY <1>2, VersionOrder DEF HasBackup
<1>. QED BY <1>1, <1>2

(* A load finds at least what a backup has. *)
LEMMA BackupIsFound ==
  ASSUME NEW d \in [Path -> Content], Ordered(d), NEW n \in Version, HasBackup(d, n)
  PROVE  Found(d) >= n
<1>1. Found(d) \in Version
  BY FoundIsVersion
<1>2. CASE n = 0
  BY <1>1, <1>2, VersionOrder
<1>3. ASSUME NEW q \in Backup, d[q] \in Version, d[q] >= n PROVE Found(d) >= n
  <2>1. Found(d) >= d[q]
    BY <1>3, FoundFacts, PlainFacts
  <2>. QED BY <1>1, <1>3, <2>1, VersionOrder
<1>. QED BY <1>2, <1>3 DEF HasBackup

(* A step that changes no place of the chain, and no number but perhaps that
   of the failures, and leaves nothing of a state in the temporary file that
   was not in memory. *)
LEMMA QuietStep ==
  ASSUME StateTypeOK, StateTypeOK', StateFacts, MainKept, Ordered(disk),
         UNCHANGED <<mem, stamp, due, spare, crashes, damage, dirty>>, faults' >= faults,
         phase' = "down" <=> phase = "down",
         \A p \in Chain : disk'[p] = disk[p], disk'[Temp] \in Version => disk'[Temp] <= stamp
  PROVE  /\ StateFacts' /\ MainKept' /\ Ordered(disk') /\ Steady
         /\ Mishaps \in Nat /\ Mishaps' = Mishaps + (faults' - faults)
         /\ faults' = faults => Mishaps' = Mishaps
         /\ BackupsLast' => BackupsLast
         /\ \A h : Useless(disk', h) = Useless(disk, h)
         /\ \A n : HasBackup(disk', n) <=> HasBackup(disk, n)
<1>1. disk \in [Path -> Content] /\ disk' \in [Path -> Content] /\ MaxBackups \in Nat
      /\ {crashes, damage, faults, faults'} \subseteq Nat
  BY PlainFacts DEF StateTypeOK
<1>2. /\ Found(disk') = Found(disk) /\ Ordered(disk')
      /\ \A h : Useless(disk', h) = Useless(disk, h)
      /\ \A n : HasBackup(disk', n) <=> HasBackup(disk, n)
  BY <1>1, SameChain
<1>3. \A p \in Path : p \in Chain \/ p = Temp
  BY DEF Path, Chain
<1>4. Mishaps' = Mishaps + (faults' - faults) /\ Mishaps \in Nat /\ Mishaps' >= Mishaps /\ Mishaps' \in Nat
  BY <1>1 DEF Mishaps
<1>5. BackupsLast' => BackupsLast
  BY <1>1 DEF BackupsLast
<1>6. StateFacts'
  BY <1>1, <1>2, <1>3, <1>4, <1>5 DEF StateFacts
<1>7. MainKept'
  BY PlainFacts DEF MainKept
<1>. QED BY <1>1, <1>2, <1>4, <1>5, <1>6, <1>7, FoundIsVersion, VersionOrder DEF Steady

(* open(): the temporary file, which is not in the chain, is emptied. *)
LEMMA OpenKeeps ==
  ASSUME NEW s \in Saver, StateInv(s), StateTypeOK', Open(s)
  PROVE  After(s)
<1>0. PICK v : v = save[s]
  OBVIOUS
<1>1. PICK w : w = save'[s]
  OBVIOUS
<1>2. /\ v \in SaveRecord /\ v.at = "open" /\ w = [v EXCEPT !.at = "write", !.file = Temp]
      /\ disk \in [Path -> Content] /\ disk' = [disk EXCEPT ![Temp] = Empty] /\ disk' \in [Path -> Content]
      /\ UNCHANGED <<mem, stamp, due, spare, crashes, damage, faults, dirty, phase>> /\ faults \in Nat
  BY <1>0, <1>1, TypesByName, PlainFacts DEF Open, At, SaveStep, history, StateInv
<1>3. w.at = "write" /\ w.file = Temp /\ w.version = v.version
  BY <1>2, GoesOn, PlainFacts DEF Progress
<1>4. (\A p \in Chain : disk'[p] = disk[p]) /\ disk'[Temp] = Empty
  BY <1>2, PlainFacts
<1>5. /\ StateFacts' /\ MainKept' /\ Ordered(disk') /\ Steady /\ Mishaps' = Mishaps
      /\ \A h : Useless(disk', h) = Useless(disk, h)
  <2>1. StateTypeOK /\ StateTypeOK' /\ StateFacts /\ MainKept /\ Ordered(disk)
    BY DEF StateInv
  <2>2. UNCHANGED <<mem, stamp, due, spare, crashes, damage, dirty>> /\ faults' >= faults
    BY <1>2
  <2>3. (phase' = "down" <=> phase = "down") /\ (disk'[Temp] \in Version => disk'[Temp] <= stamp)
    BY <1>2, <1>4, PlainFacts
  <2>. QED BY <1>2, <1>4, <2>1, <2>2, <2>3, QuietStep
<1>6. Hole(v) = Gone /\ Hole(w) = Gone
  BY <1>2, <1>3 DEF Hole
<1>7. Newest(w, disk') /\ TempKept(w, disk') /\ Rotating(w, disk') /\ Copying(w, disk')
  BY <1>0, <1>2, <1>3, <1>4 DEF StateInv, SaveInv, Newest, TempKept, Rotating, Copying, Written
<1>8. SaveInv(w)'
  BY <1>0, <1>2, <1>3, <1>5, <1>6, <1>7 DEF SaveInv, StateInv
<1>. QED BY <1>1, <1>5, <1>8 DEF SaveInv, After

(* writeFile(): the temporary file, empty until now, holds the save's version. *)
LEMMA WriteKeeps ==
  ASSUME NEW s \in Saver, StateInv(s), StateTypeOK', Write(s)
  PROVE  After(s)
<1>0. PICK v : v = save[s]
  OBVIOUS
<1>1. PICK w : w = save'[s]
  OBVIOUS
<1>2. /\ v \in SaveRecord /\ v.at = "write" /\ w = [v EXCEPT !.at = "check", !.file = Gone]
      /\ disk \in [Path -> Content] /\ WriteFile(v.file, v.version) /\ disk' \in [Path -> Content]
      /\ UNCHANGED <<mem, stamp, due, spare, crashes, damage, faults, dirty, phase>>
  <2>1. v \in SaveRecord /\ disk \in [Path -> Content] /\ disk' \in [Path -> Content]
    BY <1>0, TypesByName DEF StateInv, StateTypeOK
  <2>2. v.at = "write" /\ w = [v EXCEPT !.at = "check", !.file = Gone]
    BY <1>0, <1>1, <2>1, TypesByName DEF Write, At, StateInv
  <2>3. WriteFile(v.file, v.version)
    BY <1>0 DEF Write
  <2>4. UNCHANGED <<mem, stamp, due, spare, crashes, damage, faults, dirty, phase>>
    BY DEF Write, SaveStep, history
  <2>. QED BY <2>1, <2>2, <2>3, <2>4
<1>3. w.at = "check" /\ w.file = Gone /\ w.version = v.version /\ v.version \in Version
  BY <1>2, GoesOn, SaveFields, PlainFacts DEF Progress
<1>4. (\A p \in Chain : disk'[p] = disk[p]) /\ disk'[Temp] = v.version
  <2>1. v.file = Temp /\ disk[Temp] = Empty
    BY <1>0, <1>2 DEF StateInv, SaveInv, TempKept
  <2>2. disk' = [disk EXCEPT ![Temp] = v.version]
    BY <1>2, <2>1, PlainFacts DEF WriteFile
  <2>. QED BY <1>2, <2>2, PlainFacts
<1>5. /\ StateFacts' /\ MainKept' /\ Ordered(disk') /\ Steady /\ Mishaps \in Nat
      /\ Mishaps' = Mishaps /\ (BackupsLast' => BackupsLast)
      /\ \A h : Useless(disk', h) = Useless(disk, h)
      /\ \A n : HasBackup(disk', n) <=> HasBackup(disk, n)
  <2>1. StateTypeOK /\ StateTypeOK' /\ StateFacts /\ MainKept /\ Ordered(disk) /\ faults \in Nat
    BY TypesByName DEF StateInv
  <2>2. UNCHANGED <<mem, stamp, due, spare, crashes, damage, dirty>> /\ faults' = faults
    BY <1>2
  <2>3. (phase' = "down" <=> phase = "down") /\ (disk'[Temp] \in Version => disk'[Temp] <= stamp)
    BY <1>0, <1>2, <1>4, PlainFacts DEF StateInv, StateFacts, SaveInv
  <2>4. faults' - faults = 0 /\ faults' >= faults
    BY <2>1, <2>2
  <2>. QED BY <1>2, <1>4, <2>1, <2>2, <2>3, <2>4, QuietStep
<1>6. Hole(v) = Gone /\ Hole(w) = Gone
  BY <1>2, <1>3 DEF Hole
<1>7. Newest(w, disk') /\ TempKept(w, disk') /\ Rotating(w, disk') /\ Copying(w, disk')
  BY <1>0, <1>2, <1>3, <1>4 DEF StateInv, SaveInv, Newest, TempKept, Rotating, Copying, Written
<1>8. SaveInv(w)'
  BY <1>0, <1>2, <1>3, <1>5, <1>6, <1>7 DEF SaveInv, StateInv
<1>. QED BY <1>1, <1>5, <1>8 DEF SaveInv, After

(* A save that ends here: nothing is left of it. *)
LEMMA IdleSave ==
  ASSUME NEW d
  PROVE  /\ Newest(Idle, d) /\ TempKept(Idle, d) /\ Rotating(Idle, d) /\ Copying(Idle, d)
         /\ Hole(Idle) = Gone
  BY IdleFields DEF Newest, TempKept, Rotating, Copying, Hole, Written

(* The write fails, and no older backup is taken: one mishap more, and the chain as
   it was. *)
LEMMA WriteFailsKeeps ==
  ASSUME NEW s \in Saver, StateInv(s), StateTypeOK', WriteFails(s), ~slipped'
  PROVE  After(s)
<1>0. PICK v : v = save[s]
  OBVIOUS
<1>1. PICK w : w = save'[s]
  OBVIOUS
<1>2. /\ v \in SaveRecord /\ v.at = "write" /\ w = Idle /\ disk \in [Path -> Content]
      /\ disk' = disk /\ faults' = faults + 1 /\ phase' = "up"
      /\ UNCHANGED <<mem, stamp, due, spare, crashes, damage, dirty>>
  <2>1. ~(phase = "loading" /\ Older(save[s].i) # {})
    BY DEF WriteFails
  <2>2. save' = [save EXCEPT ![s] = Idle] /\ phase' = "up" /\ UNCHANGED mem
    BY <2>1 DEF WriteFails
  <2>. QED BY <1>0, <1>1, <2>2, TypesByName, PlainFacts DEF WriteFails, At, StateInv
<1>4. (\A p \in Chain : disk'[p] = disk[p]) /\ disk'[Temp] = disk[Temp]
  BY <1>2
<1>5. /\ StateFacts' /\ MainKept' /\ Ordered(disk') /\ Steady /\ Mishaps \in Nat
      /\ Mishaps' = Mishaps + 1 /\ (BackupsLast' => BackupsLast)
      /\ \A h : Useless(disk', h) = Useless(disk, h)
      /\ \A n : HasBackup(disk', n) <=> HasBackup(disk, n)
  <2>1. StateTypeOK /\ StateTypeOK' /\ StateFacts /\ MainKept /\ Ordered(disk) /\ faults \in Nat
    BY TypesByName DEF StateInv
  <2>2. UNCHANGED <<mem, stamp, due, spare, crashes, damage, dirty>> /\ faults' = faults + 1
    BY <1>2
  <2>3. (phase' = "down" <=> phase = "down") /\ (disk'[Temp] \in Version => disk'[Temp] <= stamp)
    BY <1>0, <1>2, <1>4, PlainFacts DEF StateInv, StateFacts, SaveInv
  <2>4. faults' - faults = 1 /\ faults' >= faults
    BY <2>1, <2>2
  <2>. QED BY <1>2, <1>4, <2>1, <2>2, <2>3, <2>4, QuietStep
<1>6. Hole(v) = Gone /\ v.version >= 0
  BY <1>2, SaveFields, VersionOrder DEF Hole
<1>7. Cardinality(Useless(disk, Gone)) <= Mishaps /\ Cardinality(Useless(disk, Gone)) \in Nat
  BY <1>0, <1>6, UselessFinite DEF StateInv, SaveInv
<1>8. stamp >= 0
  BY TypesByName, VersionOrder DEF StateInv
<1>9. SaveInv(w)'
  BY <1>2, <1>5, <1>7, <1>8, IdleSave, IdleFields DEF SaveInv
<1>. QED BY <1>1, <1>5, <1>9 DEF SaveInv, After

(* A copy that fails leaves a place that is of no use: one mishap more. *)
LEMMA CopyFailsKeeps ==
  ASSUME NEW s \in Saver, StateInv(s), StateTypeOK', CopyFails(s)
  PROVE  After(s)
<1>0. PICK v : v = save[s]
  OBVIOUS
<1>1. PICK w : w = save'[s]
  OBVIOUS
<1>2. /\ v \in SaveRecord /\ v.at = "copying" /\ w = [v EXCEPT !.at = "rename", !.file = Gone, !.backed = FALSE]
      /\ disk \in [Path -> Content]
      /\ disk' = disk /\ faults' = faults + 1 /\ phase' = phase
      /\ UNCHANGED <<mem, stamp, due, spare, crashes, damage, dirty>>
  BY <1>0, <1>1, TypesByName, PlainFacts DEF CopyFails, At, StateInv
<1>3. w.at = "rename" /\ w.file = Gone /\ w.version = v.version /\ w.backed = FALSE
  BY <1>2, GoesOnUnbacked
<1>4. (\A p \in Chain : disk'[p] = disk[p]) /\ disk'[Temp] = disk[Temp]
  BY <1>2
<1>5. /\ StateFacts' /\ MainKept' /\ Ordered(disk') /\ Steady /\ Mishaps \in Nat
      /\ Mishaps' = Mishaps + 1 /\ (BackupsLast' => BackupsLast)
      /\ \A h : Useless(disk', h) = Useless(disk, h)
      /\ \A n : HasBackup(disk', n) <=> HasBackup(disk, n)
  <2>1. StateTypeOK /\ StateTypeOK' /\ StateFacts /\ MainKept /\ Ordered(disk) /\ faults \in Nat
    BY TypesByName DEF StateInv
  <2>2. UNCHANGED <<mem, stamp, due, spare, crashes, damage, dirty>> /\ faults' = faults + 1
    BY <1>2
  <2>3. (phase' = "down" <=> phase = "down") /\ (disk'[Temp] \in Version => disk'[Temp] <= stamp)
    BY <1>0, <1>2, <1>4, PlainFacts DEF StateInv, StateFacts, SaveInv
  <2>4. faults' - faults = 1 /\ faults' >= faults
    BY <2>1, <2>2
  <2>. QED BY <1>2, <1>4, <2>1, <2>2, <2>3, <2>4, QuietStep
<1>6. Hole(v) = 0 /\ Hole(w) = Main
  BY <1>2, <1>3 DEF Hole
<1>7. Cardinality(Useless(disk, Main)) <= Mishaps + 1
  <2>1. Useless(disk, Main) \subseteq Useless(disk, 0) \union {0}
    BY DEF Useless
  <2>2. Cardinality(Useless(disk, 0)) <= Mishaps
    BY <1>0, <1>6 DEF StateInv, SaveInv
  <2>3. Cardinality(Useless(disk, Main)) <= Cardinality(Useless(disk, 0)) + 1
    BY <2>1, OneMoreUseless
  <2>4. Cardinality(Useless(disk, Main)) \in Nat /\ Cardinality(Useless(disk, 0)) \in Nat
    BY UselessFinite
  <2>. QED BY <1>5, <2>2, <2>3, <2>4
<1>8. Newest(w, disk') /\ TempKept(w, disk') /\ Rotating(w, disk') /\ Copying(w, disk')
  BY <1>0, <1>2, <1>3 DEF StateInv, SaveInv, Newest, TempKept, Rotating, Copying, Written
<1>9. SaveInv(w)'
  BY <1>0, <1>2, <1>3, <1>5, <1>6, <1>7, <1>8 DEF SaveInv, StateInv
<1>. QED BY <1>1, <1>5, <1>9 DEF SaveInv, After

(* Whether there is a main file: without one there are no backups, and nothing
   was saved. *)
LEMMA CheckKeeps ==
  ASSUME NEW s \in Saver, StateInv(s), StateTypeOK', Check(s)
  PROVE  After(s)
<1>0. PICK v : v = save[s]
  OBVIOUS
<1>1. PICK w : w = save'[s]
  OBVIOUS
<1>2. /\ v \in SaveRecord /\ v.at = "check" /\ disk \in [Path -> Content]
      /\ disk' = disk
      /\ w = [v EXCEPT !.at = IF disk[Main] = Absent THEN "rename" ELSE "rotate", !.i = MaxBackups - 1]
      /\ UNCHANGED <<mem, stamp, due, spare, crashes, damage, faults, dirty, phase>>
  BY <1>0, <1>1, TypesByName, PlainFacts DEF Check, At, SaveStep, history, StateInv
<1>3. /\ w.at = IF disk[Main] = Absent THEN "rename" ELSE "rotate"
      /\ w.i = MaxBackups - 1 /\ w.file = v.file /\ w.version = v.version
  BY <1>2, GoesOnAtIndex, PlainFacts DEF Progress
<1>4. (\A p \in Chain : disk'[p] = disk[p]) /\ disk'[Temp] = disk[Temp]
  BY <1>2
<1>5. /\ StateFacts' /\ MainKept' /\ Ordered(disk') /\ Steady /\ Mishaps \in Nat
      /\ Mishaps' = Mishaps /\ (BackupsLast' => BackupsLast)
      /\ \A h : Useless(disk', h) = Useless(disk, h)
      /\ \A n : HasBackup(disk', n) <=> HasBackup(disk, n)
  <2>1. StateTypeOK /\ StateTypeOK' /\ StateFacts /\ MainKept /\ Ordered(disk) /\ faults \in Nat
    BY TypesByName DEF StateInv
  <2>2. UNCHANGED <<mem, stamp, due, spare, crashes, damage, dirty>> /\ faults' = faults
    BY <1>2
  <2>3. (phase' = "down" <=> phase = "down") /\ (disk'[Temp] \in Version => disk'[Temp] <= stamp)
    BY <1>0, <1>2, <1>4, PlainFacts DEF StateInv, StateFacts, SaveInv
  <2>4. faults' - faults = 0 /\ faults' >= faults
    BY <2>1, <2>2
  <2>. QED BY <1>2, <1>4, <2>1, <2>2, <2>3, <2>4, QuietStep
<1>6. Hole(v) = Gone
  BY <1>2 DEF Hole
<1>7. Cardinality(Useless(disk, Hole(w))) <= Mishaps
  <2>1. Useless(disk, Hole(w)) \subseteq Useless(disk, Gone)
    BY PlainFacts DEF Useless
  <2>2. Cardinality(Useless(disk, Gone)) <= Mishaps
    BY <1>0, <1>6 DEF StateInv, SaveInv
  <2>. QED BY <1>5, <2>1, <2>2, NoMoreUseless, UselessFinite
<1>8. Newest(w, disk') /\ TempKept(w, disk') /\ Rotating(w, disk') /\ Copying(w, disk')
  <2>1. MaxBackups \in Nat
    BY PlainFacts
  <2>. QED BY <1>0, <1>2, <1>3, <2>1 DEF StateInv, SaveInv, Newest, TempKept, Rotating, Copying, Written
<1>9. ASSUME w.at = "rename", BackupsLast PROVE HasBackup(disk, due)
  <2>1. disk[Main] = Absent /\ \A p \in Chain : disk[p] \notin Version
    BY <1>3, <1>9, PlainFacts DEF StateInv, MainKept
  <2>2. Found(disk) = 0 /\ Found(disk) >= due /\ due \in Nat
    BY <1>2, <1>9, <2>1, FoundFacts, TypesByName, VersionOrder DEF StateInv, StateFacts
  <2>. QED BY <2>2 DEF HasBackup
<1>10. SaveInv(w)'
  BY <1>0, <1>2, <1>3, <1>5, <1>7, <1>8, <1>9 DEF SaveInv, StateInv
<1>. QED BY <1>1, <1>5, <1>10 DEF SaveInv, After

(* save(): the version of a state in memory that is dirty is the newest. *)
LEMMA SaveKeeps ==
  ASSUME NEW s \in Saver, StateInv(s), StateTypeOK', Save(s)
  PROVE  After(s)
<1>0. PICK v : v = save[s]
  OBVIOUS
<1>1. PICK w : w = save'[s]
  OBVIOUS
<1>2. /\ v \in SaveRecord /\ v.at = "idle" /\ disk \in [Path -> Content] /\ mem \in Version
      /\ disk' = disk /\ phase = "up" /\ dirty
      /\ w = Begun(mem)
      /\ UNCHANGED <<mem, stamp, due, spare, crashes, damage, faults, dirty, phase>>
  BY <1>0, <1>1, TypesByName, PlainFacts DEF Save, Saving, StateInv
<1>3. w.at = "open" /\ w.version = mem /\ w.file = Gone
  BY <1>2, BegunFields, PlainFacts
<1>4. (\A p \in Chain : disk'[p] = disk[p]) /\ disk'[Temp] = disk[Temp]
  BY <1>2
<1>5. /\ StateFacts' /\ MainKept' /\ Ordered(disk') /\ Steady /\ Mishaps \in Nat
      /\ Mishaps' = Mishaps /\ (BackupsLast' => BackupsLast)
      /\ \A h : Useless(disk', h) = Useless(disk, h)
      /\ \A n : HasBackup(disk', n) <=> HasBackup(disk, n)
  <2>1. StateTypeOK /\ StateTypeOK' /\ StateFacts /\ MainKept /\ Ordered(disk) /\ faults \in Nat
    BY TypesByName DEF StateInv
  <2>2. UNCHANGED <<mem, stamp, due, spare, crashes, damage, dirty>> /\ faults' = faults
    BY <1>2
  <2>3. (phase' = "down" <=> phase = "down") /\ (disk'[Temp] \in Version => disk'[Temp] <= stamp)
    BY <1>0, <1>2, <1>4, PlainFacts DEF StateInv, StateFacts, SaveInv
  <2>4. faults' - faults = 0 /\ faults' >= faults
    BY <2>1, <2>2
  <2>. QED BY <1>2, <1>4, <2>1, <2>2, <2>3, <2>4, QuietStep
<1>6. Hole(v) = Gone /\ Hole(w) = Gone
  BY <1>2, <1>3 DEF Hole
<1>7. Newest(w, disk') /\ TempKept(w, disk') /\ Rotating(w, disk') /\ Copying(w, disk')
  <2>1. mem = stamp /\ \A p \in Chain : disk[p] \in Version => stamp >= disk[p]
    BY <1>2, PlainFacts DEF StateInv, StateFacts
  <2>. QED BY <1>2, <1>3, <2>1 DEF Newest, TempKept, Rotating, Copying, Written
<1>8. SaveInv(w)'
  BY <1>0, <1>2, <1>3, <1>5, <1>6, <1>7 DEF SaveInv, StateInv, StateFacts
<1>. QED BY <1>1, <1>5, <1>8 DEF SaveInv, After

(* The steps that move states along the chain, or put one in: what a load finds
   is not older, and what was due, and what was spare, is still there. *)
LEMMA ChainStep ==
  ASSUME StateTypeOK, StateTypeOK', StateFacts, Ordered(disk), Ordered(disk'),
         UNCHANGED <<mem, stamp, due, spare, crashes, damage, faults, dirty, phase>>,
         \A p \in Path : disk'[p] \in Version => disk'[p] <= stamp,
         BackupsLast => Found(disk') >= Found(disk),
         Mishaps + 1 < MaxBackups => \A n \in Version : HasBackup(disk, n) => HasBackup(disk', n)
  PROVE  /\ StateFacts' /\ Steady /\ Mishaps' = Mishaps /\ Mishaps \in Nat
         /\ BackupsLast' <=> BackupsLast
<1>1. disk \in [Path -> Content] /\ disk' \in [Path -> Content] /\ due \in Version /\ spare \in Version
      /\ {crashes, damage, faults} \subseteq Nat
  BY DEF StateTypeOK
<1>2. Mishaps' = Mishaps /\ Mishaps \in Nat /\ (BackupsLast' <=> BackupsLast)
  BY <1>1 DEF Mishaps, BackupsLast
<1>3. Found(disk) \in Version /\ Found(disk') \in Version
  BY <1>1, FoundIsVersion
<1>4. BackupsLast => Found(disk') >= due
  BY <1>1, <1>3, VersionOrder DEF StateFacts
<1>5. Mishaps + 1 < MaxBackups => HasBackup(disk', spare)
  BY <1>1 DEF StateFacts
<1>6. StateFacts'
  BY <1>2, <1>4, <1>5 DEF StateFacts
<1>. QED BY <1>2, <1>6 DEF Steady

(* _rotateBackups, one place: a state is lost only at the end of the chain, and
   then, with fewer mishaps than backups, one before it is of use. *)
LEMMA RotateKeeps ==
  ASSUME NEW s \in Saver, StateInv(s), StateTypeOK', Rotate(s)
  PROVE  After(s)
<1>0. PICK v : v = save[s]
  OBVIOUS
<1>1. PICK w : w = save'[s]
  OBVIOUS
<1>2. v \in SaveRecord /\ disk \in [Path -> Content] /\ v.at = "rotate" /\ v.i \in Backup /\ v.file = Gone
  <2>1. v \in SaveRecord /\ disk \in [Path -> Content] /\ v.at = "rotate"
    BY <1>0, TypesByName DEF StateInv, Rotate, RotateFrom, At
  <2>. QED BY <1>0, <2>1, SaveFields DEF StateInv, SaveInv, TempKept
<1>3. disk' = Rotated(disk, v.i)
  <2>1. CASE disk[v.i] = Absent
    BY <1>0, <2>1 DEF Rotate, RotateFrom, Rotated
  <2>2. CASE disk[v.i] # Absent
    <3>. DEFINE to == IF v.i = MaxBackups - 1 THEN Gone ELSE v.i + 1
    <3>1. disk' = DiskMoved(v.i, to)
      BY <1>0, <2>2 DEF Rotate, RotateFrom
    <3>2. /\ \A p \in Path : p = to <=> p = v.i + 1
          /\ v.i # to
      BY <1>2, PlainFacts DEF Path, Temp
    <3>. HIDE DEF to
    <3>3. \A p \in Path : disk'[p] = IF p = v.i THEN Absent ELSE IF p = v.i + 1 THEN disk[v.i] ELSE disk[p]
      <4>1. \A p \in Path : disk'[p] = CASE p = v.i -> Absent [] p = to -> disk[v.i] [] OTHER -> disk[p]
        BY <3>1 DEF DiskMoved
      <4>2. \A p \in Path : disk'[p] = IF p = v.i THEN Absent ELSE IF p = to THEN disk[v.i] ELSE disk[p]
        <5>. TAKE p \in Path
        <5>1. CASE p = v.i
          BY <3>2, <4>1, <5>1
        <5>2. CASE p # v.i /\ p = to
          BY <3>2, <4>1, <5>2
        <5>3. CASE p # v.i /\ p # to
          BY <4>1, <5>3
        <5>. QED BY <5>1, <5>2, <5>3
      <4>. QED BY <3>2, <4>2
    <3>4. disk' = [p \in Path |-> disk'[p]]
      BY <3>1 DEF DiskMoved
    <3>. QED BY <2>2, <3>3, <3>4 DEF Rotated
  <2>. QED BY <2>1, <2>2
<1>4. /\ w.at = IF v.i = 0 THEN "copy" ELSE "rotate"
      /\ w.i = IF v.i = 0 THEN 0 ELSE v.i - 1
      /\ w.file = Gone /\ w.version = v.version
  <2>. DEFINE pc == IF v.i = 0 THEN "copy" ELSE "rotate"
              k == IF v.i = 0 THEN 0 ELSE v.i - 1
              to == IF v.i = MaxBackups - 1 THEN Gone ELSE v.i + 1
  <2>1. pc \in Progress /\ k \in Backup /\ v.i \in Path
    BY <1>2, PlainFacts DEF Progress
  <2>2. SavesMoved(v.i, to) = save
    <3>1. save[s].file = Gone
      BY <1>0, <1>2 DEF StateInv, SaveInv, TempKept
    <3>. QED BY <2>1, <3>1, NoneMoved
  <2>3. w = [v EXCEPT !.at = pc, !.i = k]
    BY <1>0, <1>1, <2>2, TypesByName DEF Rotate, RotateFrom, StateInv
  <2>. HIDE DEF pc, k
  <2>4. w.at = pc /\ w.i = k /\ w.file = v.file /\ w.version = v.version
    BY <1>2, <2>1, <2>3, GoesOnAtIndex
  <2>. QED BY <1>2, <2>4 DEF pc, k
<1>5. UNCHANGED <<mem, stamp, due, spare, crashes, damage, faults, dirty, phase>>
  BY DEF Rotate, RotateFrom, SaveStep, history
<1>6. Hole(v) = v.i + 1 /\ Hole(w) = v.i
  BY <1>2, <1>4, PlainFacts DEF Hole
<1>7. /\ StateTypeOK /\ StateTypeOK' /\ StateFacts /\ MainKept /\ Ordered(disk)
      /\ SaveInv(v) /\ disk[Main] # Absent
      /\ v.i < MaxBackups - 1 => disk[v.i + 1] \notin Version
      /\ Cardinality(Useless(disk, v.i + 1)) <= Mishaps
  BY <1>0, <1>2, <1>6 DEF StateInv, SaveInv, Rotating
<1>8. Mishaps \in Nat /\ (BackupsLast => Mishaps < MaxBackups \/ disk[Main] \in Version)
  BY <1>7, TypesByName DEF BackupsLast, Mishaps, MainKept
<1>9. /\ disk'[Main] = disk[Main] /\ disk'[Temp] = disk[Temp] /\ disk'[v.i] = Absent
      /\ Ordered(disk')
      /\ Cardinality(Useless(disk', v.i)) <= Cardinality(Useless(disk, v.i + 1))
      /\ BackupsLast => Found(disk') >= Found(disk)
      /\ Mishaps + 1 < MaxBackups => \A n \in Version : HasBackup(disk, n) => HasBackup(disk', n)
  BY <1>2, <1>3, <1>7, <1>8, RotatedPlaces, RotatedOrder, RotatedUseless, RotatedKeeps
<1>10. \A p \in Path : disk'[p] = Absent \/ \E q \in Path : disk'[p] = disk[q]
  <2>1. v.i \in Path
    BY <1>2, PlainFacts
  <2>. QED BY <1>2, <1>3, <2>1 DEF Rotated
<1>11. StateFacts' /\ Steady /\ Mishaps' = Mishaps /\ (BackupsLast' <=> BackupsLast)
  <2>1. \A p \in Path : disk'[p] \in Version => disk'[p] <= stamp
    BY <1>7, <1>10, PlainFacts DEF StateFacts
  <2>. QED BY <1>5, <1>7, <1>9, <2>1, ChainStep
<1>12. MainKept'
  BY <1>5, <1>7, <1>9 DEF MainKept
<1>13. Newest(w, disk') /\ TempKept(w, disk') /\ Rotating(w, disk') /\ Copying(w, disk')
  <2>1. \A p \in Chain : disk'[p] \in Version => w.version >= disk'[p]
    <3>1. Newest(v, disk)
      BY <1>7 DEF SaveInv
    <3>2. \A p \in Chain : disk'[p] = Absent \/ \E q \in Chain : disk'[p] = disk[q]
      BY <1>2, <1>3, PlainFacts DEF Rotated
    <3>. QED BY <1>2, <1>4, <3>1, <3>2, PlainFacts DEF Newest
  <2>2. TempKept(v, disk)
    BY <1>7 DEF SaveInv
  <2>3. v.i \in Nat /\ (v.i - 1) + 1 = v.i /\ disk'[v.i] \notin Version
    BY <1>2, <1>9, PlainFacts
  <2>. QED BY <1>2, <1>4, <1>7, <1>9, <2>1, <2>2, <2>3 DEF Newest, TempKept, Rotating, Copying, Written
<1>14. SaveInv(w)'
  <2>1. Cardinality(Useless(disk', v.i)) <= Mishaps
    BY <1>7, <1>8, <1>9, UselessFinite
  <2>. QED BY <1>2, <1>4, <1>5, <1>6, <1>7, <1>11, <1>13, <2>1 DEF SaveInv
<1>. QED BY <1>1, <1>9, <1>11, <1>12, <1>14 DEF SaveInv, After

(* copyFile() begins: the first backup, whose place is free, is empty. *)
LEMMA CopyStartKeeps ==
  ASSUME NEW s \in Saver, StateInv(s), StateTypeOK', CopyStart(s)
  PROVE  After(s)
<1>0. PICK v : v = save[s]
  OBVIOUS
<1>1. PICK w : w = save'[s]
  OBVIOUS
<1>2. /\ v \in SaveRecord /\ v.at = "copy" /\ disk \in [Path -> Content] /\ disk[Main] \in Content
      /\ w = [v EXCEPT !.at = "copying", !.file = 0, !.source = disk[Main]]
      /\ disk' = [disk EXCEPT ![0] = Empty] /\ disk' \in [Path -> Content]
      /\ UNCHANGED <<mem, stamp, due, spare, crashes, damage, faults, dirty, phase>>
  BY <1>0, <1>1, TypesByName, PlainFacts DEF CopyStart, At, SaveStep, history, StateInv
<1>3. w.at = "copying" /\ w.file = 0 /\ w.source = disk[Main] /\ w.version = v.version
  BY <1>2, GoesOnCopying
<1>4. /\ StateTypeOK /\ StateTypeOK' /\ StateFacts /\ MainKept /\ Ordered(disk) /\ SaveInv(v)
      /\ disk[Main] # Absent /\ disk[0] \notin Version
      /\ Cardinality(Useless(disk, 0)) <= Mishaps
  BY <1>0, <1>2 DEF StateInv, SaveInv, Rotating, Hole
<1>5. /\ \A p \in Path : p # 0 => disk'[p] = disk[p]
      /\ disk'[0] = Empty /\ Empty \notin Version /\ disk'[Main] = disk[Main] /\ disk'[Temp] = disk[Temp]
      /\ 0 \in Backup /\ 0 \in Path /\ Chain \subseteq Path /\ Backup \subseteq Chain /\ Main \in Chain
  BY <1>2, PlainFacts
<1>6. Ordered(disk')
  BY <1>4, <1>5 DEF Ordered
<1>7. Found(disk') >= Found(disk)
  <2>1. \A p \in Chain : disk[p] \in Version => \E q \in Chain : disk'[q] \in Version /\ disk'[q] >= disk[p]
    BY <1>4, <1>5, VersionOrder
  <2>. QED BY <1>2, <1>4, <1>6, <2>1, FoundGrows
<1>8. \A n \in Version : HasBackup(disk, n) => HasBackup(disk', n)
  BY <1>4, <1>5 DEF HasBackup
<1>9. Cardinality(Useless(disk', 0)) <= Mishaps
  <2>1. ASSUME NEW p \in Useless(disk', 0) PROVE p \in Useless(disk, 0)
    <3>1. p \in Chain /\ p # 0 /\ disk'[p] \notin Version
      BY DEF Useless
    <3>2. PICK q \in Chain : p <= q /\ disk'[q] # Absent
      BY DEF Useless
    <3>3. CASE p = Main
      BY <1>4, <1>5, <3>1, <3>3, PlainFacts DEF Useless
    <3>4. CASE p # Main
      <4>1. p \in Nat /\ q # 0
        BY <3>1, <3>2, <3>4, PlainFacts DEF Chain
      <4>. QED BY <1>5, <3>1, <3>2, <4>1 DEF Useless
    <3>. QED BY <3>3, <3>4
  <2>2. Cardinality(Useless(disk', 0)) <= Cardinality(Useless(disk, 0))
    BY <2>1, NoMoreUseless
  <2>3. Mishaps \in Nat
    BY <1>4, TypesByName DEF Mishaps
  <2>. QED BY <1>4, <2>2, <2>3, UselessFinite
<1>10. StateFacts' /\ Steady /\ Mishaps' = Mishaps /\ (BackupsLast' <=> BackupsLast)
  <2>1. \A p \in Path : disk'[p] \in Version => disk'[p] <= stamp
    BY <1>4, <1>5 DEF StateFacts
  <2>. QED BY <1>2, <1>4, <1>6, <1>7, <1>8, <2>1, ChainStep
<1>11. MainKept'
  BY <1>2, <1>4, <1>5 DEF MainKept
<1>12. Newest(w, disk') /\ TempKept(w, disk') /\ Rotating(w, disk')
  BY <1>2, <1>3, <1>4, <1>5 DEF SaveInv, Newest, TempKept, Rotating, Written
<1>13. Copying(w, disk')
  <2>1. disk[Main] \in Version => w.version >= disk[Main]
    BY <1>2, <1>3, <1>4, <1>5 DEF SaveInv, Newest
  <2>2. \A p \in Backup : Main < p
    BY PlainFacts
  <2>3. disk[Main] \in Version => \A p \in Backup : disk'[p] \in Version => disk[Main] >= disk'[p]
    BY <1>4, <1>5, <2>2 DEF Ordered
  <2>. QED BY <1>3, <1>4, <1>5, <2>1, <2>3 DEF Copying
<1>14. BackupsLast /\ w.source \in Version => w.source >= due
  BY <1>2, <1>3, <1>4, FoundFacts DEF StateFacts
<1>15. SaveInv(w)'
  <2>1. Hole(w) = 0
    BY <1>3 DEF Hole
  <2>. QED BY <1>2, <1>3, <1>4, <1>9, <1>10, <1>12, <1>13, <1>14, <2>1 DEF SaveInv
<1>. QED BY <1>1, <1>6, <1>10, <1>11, <1>15 DEF SaveInv, After

(* copyFile() ends: the first backup has what the main file had when it began. *)
LEMMA CopyEndKeeps ==
  ASSUME NEW s \in Saver, StateInv(s), StateTypeOK', CopyEnd(s)
  PROVE  After(s)
<1>0. PICK v : v = save[s]
  OBVIOUS
<1>1. PICK w : w = save'[s]
  OBVIOUS
<1>2. v \in SaveRecord /\ v.at = "copying" /\ v.source \in Content /\ disk \in [Path -> Content]
      /\ disk' \in [Path -> Content]
  <2>1. v \in SaveRecord /\ v.at = "copying" /\ disk \in [Path -> Content] /\ disk' \in [Path -> Content]
    BY <1>0, TypesByName DEF CopyEnd, At, StateInv, StateTypeOK
  <2>. QED BY <2>1, SaveFields
<1>3. /\ StateTypeOK /\ StateTypeOK' /\ StateFacts /\ MainKept /\ Ordered(disk) /\ SaveInv(v)
      /\ v.file = 0 /\ disk[0] = Empty /\ v.source # Absent /\ disk[Main] # Absent
      /\ v.source \in Version =>
           v.version >= v.source /\ \A p \in Backup : disk[p] \in Version => v.source >= disk[p]
      /\ disk[Main] \in Version => v.source = disk[Main]
      /\ Cardinality(Useless(disk, 0)) <= Mishaps
  BY <1>0, <1>2 DEF StateInv, SaveInv, Rotating, Copying, Hole
<1>4. w.at = "rename" /\ w.file = Gone /\ w.version = v.version /\ w.backed = v.backed
  <2>1. w = [v EXCEPT !.at = "rename", !.file = Gone]
    BY <1>0, <1>1, TypesByName DEF CopyEnd, StateInv
  <2>. QED BY <1>2, <2>1, GoesOn, PlainFacts DEF Progress
<1>5. /\ \A p \in Path : p # 0 => disk'[p] = disk[p]
      /\ disk'[0] = v.source /\ disk[0] \notin Version /\ disk'[Main] = disk[Main] /\ disk'[Temp] = disk[Temp]
      /\ 0 \in Backup /\ 0 \in Path /\ Chain \subseteq Path /\ Backup \subseteq Chain /\ Main \in Chain
  <2>1. WriteFile(v.file, v.source)
    BY <1>0 DEF CopyEnd
  <2>2. disk' = [disk EXCEPT ![0] = v.source]
    BY <1>3, <2>1, PlainFacts DEF WriteFile
  <2>. QED BY <1>2, <1>3, <2>2, PlainFacts
<1>6. UNCHANGED <<mem, stamp, due, spare, crashes, damage, faults, dirty, phase>>
  BY DEF CopyEnd, SaveStep, history
<1>7. Ordered(disk')
  <2>. SUFFICES ASSUME NEW p \in Chain, NEW q \in Chain, p < q, disk'[p] \in Version, disk'[q] \in Version
                PROVE  disk'[p] >= disk'[q]
    BY DEF Ordered
  <2>1. CASE p = 0
    <3>1. q \in Backup /\ q # 0
      BY <2>1, PlainFacts DEF Chain
    <3>. QED BY <1>3, <1>5, <2>1, <3>1
  <2>2. CASE q = 0
    <3>1. p = Main
      BY <2>2, PlainFacts DEF Chain
    <3>. QED BY <1>3, <1>5, <2>2, <3>1, VersionOrder
  <2>3. CASE p # 0 /\ q # 0
    BY <1>3, <1>5, <2>3 DEF Ordered
  <2>. QED BY <2>1, <2>2, <2>3
<1>8. Found(disk') >= Found(disk)
  <2>1. \A p \in Chain : disk[p] \in Version => \E q \in Chain : disk'[q] \in Version /\ disk'[q] >= disk[p]
    BY <1>5, VersionOrder
  <2>. QED BY <1>2, <1>3, <1>7, <2>1, FoundGrows
<1>9. \A n \in Version : HasBackup(disk, n) => HasBackup(disk', n)
  BY <1>5 DEF HasBackup
<1>10. Cardinality(Useless(disk', Main)) <= Mishaps
  <2>1. ASSUME NEW p \in Useless(disk', Main), p # 0 PROVE p \in Useless(disk, 0) /\ p # Main
    <3>1. p \in Chain /\ p # Main /\ disk'[p] \notin Version
      BY DEF Useless
    <3>2. PICK q \in Chain : p <= q /\ disk'[q] # Absent
      BY DEF Useless
    <3>3. p \in Nat /\ q # 0
      BY <2>1, <3>1, <3>2, PlainFacts DEF Chain
    <3>. QED BY <1>5, <2>1, <3>1, <3>2, <3>3 DEF Useless
  <2>2. CASE v.source \in Version
    <3>1. 0 \notin Useless(disk', Main)
      BY <1>5, <2>2 DEF Useless
    <3>2. Cardinality(Useless(disk', Main)) <= Cardinality(Useless(disk, 0))
      BY <2>1, <3>1, NoMoreUseless
    <3>. QED BY <1>3, <3>2, UselessFinite, TypesByName DEF Mishaps
  <2>3. CASE v.source \notin Version
    <3>1. Main \in Useless(disk, 0)
      BY <1>3, <1>5, <2>3, PlainFacts DEF Useless
    <3>2. Useless(disk', Main) \subseteq (Useless(disk, 0) \ {Main}) \union {0}
      BY <2>1
    <3>3. Cardinality(Useless(disk', Main)) <= Cardinality(Useless(disk, 0))
      BY <3>1, <3>2, ExchangedUseless
    <3>. QED BY <1>3, <3>3, UselessFinite, TypesByName DEF Mishaps
  <2>. QED BY <2>2, <2>3
<1>11. StateFacts' /\ Steady /\ Mishaps' = Mishaps /\ (BackupsLast' <=> BackupsLast)
  <2>1. v.source \in Version => v.source <= stamp
    <3>1. v.version <= stamp /\ v.version \in Version /\ stamp \in Version
      BY <1>2, <1>3, SaveFields, TypesByName DEF SaveInv
    <3>. QED BY <1>3, <3>1, VersionOrder
  <2>2. \A p \in Path : disk'[p] \in Version => disk'[p] <= stamp
    BY <1>3, <1>5, <2>1 DEF StateFacts
  <2>. QED BY <1>3, <1>6, <1>7, <1>8, <1>9, <2>2, ChainStep
<1>12. MainKept'
  BY <1>3, <1>5, <1>6 DEF MainKept
<1>13. Newest(w, disk') /\ TempKept(w, disk') /\ Rotating(w, disk') /\ Copying(w, disk')
  BY <1>2, <1>3, <1>4, <1>5 DEF SaveInv, Newest, TempKept, Rotating, Copying, Written
<1>14. ASSUME BackupsLast PROVE HasBackup(disk', due)
  <2>1. due \in Version /\ Found(disk) \in Version /\ Found(disk) >= due
    BY <1>2, <1>3, <1>14, FoundIsVersion, TypesByName DEF StateFacts
  <2>2. CASE v.source \in Version
    <3>1. v.source >= due
      BY <1>2, <1>3, <1>14, <2>2 DEF SaveInv
    <3>. QED BY <1>5, <2>2, <3>1 DEF HasBackup
  <2>3. CASE v.source \notin Version
    <3>1. HasBackup(disk, Found(disk))
      BY <1>2, <1>3, <2>3, FoundFacts
    <3>2. HasBackup(disk, due)
      BY <2>1, <3>1, HasOlderBackup
    <3>. QED BY <1>9, <2>1, <3>2
  <2>. QED BY <2>2, <2>3
<1>15. SaveInv(w)'
  <2>1. Hole(w) = Main
    BY <1>4 DEF Hole
  <2>. QED BY <1>2, <1>3, <1>4, <1>6, <1>10, <1>11, <1>13, <1>14, <2>1 DEF SaveInv
<1>. QED BY <1>1, <1>7, <1>11, <1>12, <1>15 DEF SaveInv, After

(* rename(): the main file is the newest state; what was due has been copied. *)
LEMMA RenameKeeps ==
  ASSUME NEW s \in Saver, StateInv(s), StateTypeOK', Rename(s)
  PROVE  After(s)
<1>0. PICK v : v = save[s]
  OBVIOUS
<1>1. PICK w : w = save'[s]
  OBVIOUS
<1>2. v \in SaveRecord /\ v.at = "rename" /\ v.version \in Version /\ disk \in [Path -> Content]
      /\ disk' \in [Path -> Content] /\ due \in Version /\ spare \in Version /\ due' \in Version
      /\ mem \in Version /\ stamp \in Version
  <2>1. v \in SaveRecord /\ v.at = "rename" /\ disk \in [Path -> Content] /\ disk' \in [Path -> Content]
        /\ due \in Version /\ spare \in Version /\ due' \in Version /\ mem \in Version /\ stamp \in Version
    BY <1>0, TypesByName DEF Rename, history, At, StateInv, StateTypeOK
  <2>. QED BY <2>1, SaveFields
<1>3. /\ StateTypeOK /\ StateTypeOK' /\ StateFacts /\ MainKept /\ Ordered(disk) /\ SaveInv(v)
      /\ disk[Temp] = v.version /\ v.file = Gone
      /\ \A p \in Chain : disk[p] \in Version => v.version >= disk[p]
      /\ Cardinality(Useless(disk, Main)) <= Mishaps
      /\ BackupsLast /\ v.backed => HasBackup(disk, due)
  BY <1>0, <1>2 DEF StateInv, SaveInv, TempKept, Newest, Written, Hole
<1>4. /\ disk' = DiskMoved(Temp, Main) /\ w = Idle /\ dirty' = FALSE
      /\ due' = Max({due, v.version}) /\ spare' = (IF v.backed THEN due ELSE 0) /\ phase' = "up"
      /\ UNCHANGED <<mem, stamp, crashes, damage, faults>>
  <2>1. disk[Temp] # Absent
    BY <1>2, <1>3, PlainFacts
  <2>2. SavesMoved(Temp, Main) = save
    BY <1>0, <1>3, NoneMoved, PlainFacts
  <2>. QED BY <1>0, <1>1, <1>3, <2>1, <2>2, TypesByName DEF Rename, history
<1>5. /\ disk'[Main] = v.version /\ disk'[Temp] = Absent
      /\ \A p \in Backup : disk'[p] = disk[p]
      /\ \A p \in Chain : p = Main \/ p \in Backup
      /\ Main \in Chain /\ Backup \subseteq Chain /\ Absent \notin Version
  BY <1>2, <1>3, <1>4, PlainFacts DEF DiskMoved, Chain
<1>6. Ordered(disk')
  <2>1. \A p \in Chain : p < Main => p \notin Backup /\ p # Main
    BY PlainFacts
  <2>. QED BY <1>3, <1>5, <2>1, PlainFacts DEF Ordered
<1>7. Found(disk') = v.version /\ v.version >= Found(disk)
  <2>1. Found(disk') = v.version
    BY <1>2, <1>5, <1>6, FoundFacts
  <2>2. v.version >= Found(disk)
    BY <1>2, <1>3, FoundFacts, VersionOrder
  <2>. QED BY <2>1, <2>2
<1>8. due' >= due /\ due' >= v.version /\ due' \in {due, v.version}
  BY <1>2, <1>4, GreaterOfTwo
<1>9. Mishaps' = Mishaps /\ Mishaps \in Nat /\ (BackupsLast' <=> BackupsLast)
      /\ (Mishaps + 1 < MaxBackups => BackupsLast)
  <2>1. {crashes, damage, faults} \subseteq Nat /\ MaxBackups \in Nat
    BY <1>3, TypesByName, PlainFacts
  <2>. QED BY <1>4, <2>1 DEF Mishaps, BackupsLast
<1>10. BackupsLast => Found(disk') >= due'
  <2>1. BackupsLast => v.version >= due
    BY <1>2, <1>3, <1>7, FoundIsVersion, VersionOrder DEF StateFacts
  <2>. QED BY <1>2, <1>7, <1>8, <2>1, VersionOrder
<1>11. Mishaps + 1 < MaxBackups => HasBackup(disk', spare')
  <2>1. \A n : HasBackup(disk, n) => HasBackup(disk', n)
    BY <1>5 DEF HasBackup
  <2>2. HasBackup(disk', 0)
    BY DEF HasBackup
  <2>. QED BY <1>3, <1>4, <1>9, <2>1, <2>2
<1>12. StateFacts'
  <2>1. \A p \in Path : disk'[p] \in Version => disk'[p] <= stamp
    <3>1. v.version <= stamp /\ \A p \in Path : p \in Backup \/ p = Main \/ p = Temp
      BY <1>3 DEF SaveInv, Path
    <3>. QED BY <1>3, <1>5, <3>1, PlainFacts DEF StateFacts
  <2>2. spare' <= due'
    BY <1>2, <1>4, <1>8, VersionOrder
  <2>3. ASSUME BackupsLast' PROVE mem' >= due'
    <3>1. v.version <= mem /\ mem >= due
      BY <1>2, <1>3, <1>9, <2>3 DEF SaveInv, StateFacts
    <3>2. due' \in {due, v.version} /\ mem \in Nat /\ due \in Nat /\ v.version \in Nat
      BY <1>2, <1>4, <1>8, GreaterOfTwo, TypesByName, VersionOrder DEF StateInv
    <3>. QED BY <1>4, <3>1, <3>2
  <2>. QED BY <1>3, <1>4, <1>9, <1>10, <1>11, <2>1, <2>2, <2>3 DEF StateFacts
<1>13. MainKept'
  BY <1>2, <1>4, <1>5 DEF MainKept
<1>14. Cardinality(Useless(disk', Gone)) <= Mishaps
  <2>1. ASSUME NEW p \in Useless(disk', Gone) PROVE p \in Useless(disk, Main)
    <3>1. p \in Backup /\ disk'[p] \notin Version
      BY <1>2, <1>5 DEF Useless
    <3>2. PICK q \in Chain : p <= q /\ disk'[q] # Absent
      BY DEF Useless
    <3>3. q \in Backup /\ p \in Chain /\ p # Main
      BY <1>5, <3>1, <3>2, PlainFacts
    <3>. QED BY <1>5, <3>1, <3>2, <3>3 DEF Useless
  <2>2. Cardinality(Useless(disk', Gone)) <= Cardinality(Useless(disk, Main))
    BY <2>1, NoMoreUseless
  <2>. QED BY <1>3, <1>9, <2>2, UselessFinite
<1>15. SaveInv(w)'
  BY <1>2, <1>4, <1>9, <1>14, IdleSave, IdleFields, VersionOrder DEF SaveInv
<1>16. Steady
  BY <1>7 DEF Steady
<1>. QED BY <1>1, <1>6, <1>12, <1>13, <1>15, <1>16 DEF SaveInv, After

-----------------------------------------------------------------------------
(* An update makes a newer state in memory; the files stay as they are. *)
LEMMA UpdateKeeps ==
  ASSUME NEW s \in Saver, StateInv(s), Update
  PROVE  After(s)
<1>1. /\ stamp \in Nat /\ stamp' = stamp + 1 /\ mem' = stamp + 1 /\ dirty' = TRUE /\ phase = "up"
      /\ disk \in [Path -> Content] /\ save[s] \in SaveRecord
      /\ UNCHANGED <<phase, disk, save, due, spare, crashes, damage, faults>>
  BY TypesByName, VersionOrder DEF Update, history, StateInv
<1>2. Mishaps' = Mishaps /\ (BackupsLast' <=> BackupsLast)
  BY <1>1 DEF Mishaps, BackupsLast
<1>3. StateFacts'
  <2>1. \A p \in Path : disk[p] \in Version => disk[p] <= stamp + 1
    BY <1>1, VersionOrder DEF StateInv, StateFacts
  <2>2. BackupsLast' => mem' >= due'
    BY <1>1, <1>2, TypesByName, VersionOrder DEF StateInv, StateFacts
  <2>. QED BY <1>1, <1>2, <2>1, <2>2 DEF StateInv, StateFacts
<1>4. MainKept' /\ Ordered(disk')
  BY <1>1 DEF StateInv, MainKept
<1>5. PICK v \in SaveRecord : v = save[s] /\ v = save'[s]
  BY <1>1
<1>6. SaveInv(v)'
  <2>1. v.version <= stamp + 1
    BY <1>1, <1>5, SaveFields, VersionOrder DEF StateInv, SaveInv
  <2>. QED BY <1>1, <1>2, <1>5, <2>1 DEF StateInv, SaveInv
<1>7. Steady
  BY <1>1, FoundIsVersion, VersionOrder DEF Steady
<1>. QED BY <1>3, <1>4, <1>5, <1>6, <1>7 DEF SaveInv, After

(* A crash in the middle of a save leaves the save's hole behind: one mishap
   more, one useless place more. *)
LEMMA CrashKeeps ==
  ASSUME NEW s \in Saver, StateInv(s), Crash
  PROVE  After(s)
<1>1. PICK v \in SaveRecord : v = save[s]
  BY TypesByName DEF StateInv
<1>2. PICK w : w = save'[s]
  OBVIOUS
<1>3. /\ stamp \in Version /\ due \in Version /\ {crashes, damage, faults} \subseteq Nat
      /\ disk \in [Path -> Content] /\ MaxBackups \in Nat
      /\ w = Idle /\ mem' = 0 /\ dirty' = FALSE /\ phase' = "down"
      /\ crashes' = IF v.at # "idle" THEN crashes + 1 ELSE crashes
      /\ UNCHANGED <<stamp, disk, due, spare, damage, faults>>
  <2>1. (\E r \in Saver : Saving(r)) <=> v.at # "idle"
    BY <1>1 DEF StateInv, Resting, Saving
  <2>. QED BY <1>1, <1>2, <2>1, TypesByName, PlainFacts DEF StateInv, Crash
<1>4. /\ Mishaps \in Nat /\ Mishaps' = IF v.at # "idle" THEN Mishaps + 1 ELSE Mishaps
      /\ BackupsLast' => BackupsLast
  BY <1>3 DEF Mishaps, BackupsLast
<1>5. StateFacts'
  BY <1>3, <1>4, VersionOrder DEF StateInv, StateFacts
<1>6. MainKept' /\ Ordered(disk')
  BY <1>3 DEF StateInv, MainKept
<1>7. Cardinality(Useless(disk, Gone)) <= Mishaps'
  <2>1. Cardinality(Useless(disk, Hole(v))) <= Mishaps
    BY <1>1 DEF StateInv, SaveInv
  <2>2. CASE v.at = "idle"
    <3>1. Hole(v) = Gone
      BY <2>2 DEF Hole
    <3>. QED BY <1>4, <2>1, <2>2, <3>1
  <2>3. CASE v.at # "idle"
    <3>1. Useless(disk, Gone) \subseteq Useless(disk, Hole(v)) \union {Hole(v)}
      BY DEF Useless
    <3>2. Cardinality(Useless(disk, Gone)) <= Cardinality(Useless(disk, Hole(v))) + 1
      BY <3>1, OneMoreUseless
    <3>3. Cardinality(Useless(disk, Gone)) \in Nat /\ Cardinality(Useless(disk, Hole(v))) \in Nat
      BY UselessFinite
    <3>. QED BY <1>4, <2>1, <2>3, <3>2, <3>3
  <2>. QED BY <2>2, <2>3
<1>8. SaveInv(w)'
  BY <1>3, <1>7, IdleSave, IdleFields, VersionOrder DEF SaveInv
<1>9. Steady
  BY <1>3, FoundIsVersion, VersionOrder DEF Steady
<1>. QED BY <1>2, <1>5, <1>6, <1>8, <1>9 DEF SaveInv, After

(* Where the main file is of no use, what a load finds is the first backup. *)
LEMMA FirstBackup ==
  ASSUME disk[Main] \notin Version, Older(-1) # {}
  PROVE  /\ Found(disk) = disk[Min(Older(-1))] /\ disk[Min(Older(-1))] \in Version
         /\ Min(Older(-1)) \in Backup
<1>1. Older(-1) = {i \in Backup : disk[i] \in Version}
  BY PlainFacts DEF Older
<1>2. Min(Older(-1)) \in Older(-1)
  BY <1>1, LeastBackup
<1>. QED BY <1>1, <1>2 DEF Found

(* Loading takes the state that is found, and saves it if it was a backup's.  s is
   the save that recovers, or any. *)
LEMMA LoadKeeps ==
  ASSUME NEW s \in Saver, StateInv(s), StateTypeOK', Load,
         disk[Main] \in Version \/ Older(-1) = {} \/ Recover(s, Min(Older(-1)))
  PROVE  After(s)
<1>1. PICK v \in SaveRecord : v = save[s]
  BY TypesByName DEF StateInv
<1>2. PICK w : w = save'[s]
  OBVIOUS
<1>3. /\ stamp \in Version /\ disk \in [Path -> Content] /\ save \in [Saver -> SaveRecord]
      /\ v.at = "idle" /\ ~dirty /\ phase = "down"
      /\ UNCHANGED <<dirty, stamp, disk, due, spare, crashes, damage, faults>>
  BY <1>1, TypesByName DEF StateInv, Load, history, SaveInv, StateFacts
<1>4. Found(disk) \in Version /\ Found(disk) <= stamp /\ \A p \in Chain : disk[p] \in Version => Found(disk) >= disk[p]
  <2>1. \A p \in Chain : disk[p] \in Version => disk[p] <= stamp
    BY PlainFacts DEF StateInv, StateFacts
  <2>. QED BY <1>3, <2>1, FoundFacts, FoundIsVersion, VersionOrder DEF StateInv
<1>5. Mishaps' = Mishaps /\ (BackupsLast' <=> BackupsLast)
  BY <1>3 DEF Mishaps, BackupsLast
<1>6. /\ mem' = Found(disk) /\ phase' # "down"
      /\ w = v \/ (w.at = "open" /\ w.version = Found(disk) /\ w.file = Gone)
  <2>1. CASE disk[Main] \in Version \/ Older(-1) = {}
    BY <1>1, <1>2, <2>1, LoadedIsFound DEF Load
  <2>2. CASE ~(disk[Main] \in Version \/ Older(-1) = {})
    <3>1. PICK i : i = Min(Older(-1))
      OBVIOUS
    <3>2. i \in Backup /\ disk[i] \in Version /\ Found(disk) = disk[i]
      BY <2>2, <3>1, FirstBackup
    <3>3. mem' = disk[i] /\ phase' = "loading" /\ w = [Begun(disk[i]) EXCEPT !.i = i]
      BY <1>2, <1>3, <2>2, <3>1 DEF Recover
    <3>. QED BY <3>2, <3>3, BegunFields
  <2>. QED BY <2>1, <2>2
<1>7. StateFacts'
  <2>1. mem' \in Nat /\ due \in Nat
    BY <1>4, <1>6, TypesByName, VersionOrder DEF StateInv
  <2>. QED BY <1>3, <1>4, <1>5, <1>6, <2>1 DEF StateInv, StateFacts
<1>8. MainKept' /\ Ordered(disk')
  BY <1>3 DEF StateInv, MainKept
<1>9. SaveInv(w)'
  <2>1. CASE w = v
    BY <1>1, <1>3, <1>5, <2>1 DEF StateInv, SaveInv, Hole
  <2>2. CASE w.at = "open" /\ w.version = Found(disk) /\ w.file = Gone
    <3>1. Found(disk) \in Nat
      BY <1>4, VersionOrder
    <3>2. Hole(v) = Gone /\ Hole(w) = Gone
      BY <1>3, <2>2 DEF Hole
    <3>3. Newest(w, disk) /\ TempKept(w, disk) /\ Rotating(w, disk) /\ Copying(w, disk)
      BY <1>4, <2>2 DEF Newest, TempKept, Rotating, Copying, Written
    <3>4. w.version <= mem' /\ w.version <= stamp
      BY <1>4, <1>6, <2>2, <3>1
    <3>. QED BY <1>1, <1>3, <1>4, <1>5, <1>6, <2>2, <3>2, <3>3, <3>4 DEF StateInv, SaveInv
  <2>. QED BY <1>6, <2>1, <2>2
<1>10. Steady
  BY <1>3, <1>4, VersionOrder DEF Steady
<1>. QED BY <1>2, <1>7, <1>8, <1>9, <1>10 DEF SaveInv, After

(* The main file is damaged: one mishap more, one useless place more, and the
   state before it is in a backup. *)
LEMMA DamageKeeps ==
  ASSUME NEW s \in Saver, StateInv(s), StateTypeOK', Damage
  PROVE  After(s)
<1>1. PICK v \in SaveRecord : v = save[s] /\ v = save'[s]
  BY TypesByName DEF StateInv, Damage, history
<1>2. /\ stamp \in Version /\ due \in Version /\ spare \in Version /\ {crashes, damage, faults} \subseteq Nat
      /\ disk \in [Path -> Content] /\ disk' \in [Path -> Content] /\ MaxBackups \in Nat
      /\ disk[Main] # Absent /\ damage' = damage + 1 /\ due' = spare /\ spare' = 0
      /\ disk' = [disk EXCEPT ![Main] = Garbled]
      /\ UNCHANGED <<mem, dirty, phase, stamp, crashes, faults>>
  BY TypesByName, PlainFacts DEF StateInv, Damage, history, StateTypeOK
<1>3. /\ StateFacts /\ MainKept /\ Ordered(disk) /\ SaveInv(v)
  BY <1>1 DEF StateInv
<1>4. /\ disk'[Main] = Garbled /\ Garbled \notin Version /\ Garbled # Absent /\ disk'[Temp] = disk[Temp]
      /\ \A p \in Path : p # Main => disk'[p] = disk[p]
      /\ \A p \in Backup : disk'[p] = disk[p] /\ p \in Chain /\ p # Main
      /\ Chain \subseteq Path /\ Main \in Chain /\ \A p \in Chain : p = Main \/ p \in Backup
  BY <1>2, StateAssumption, PlainFacts DEF Chain
<1>5. Mishaps \in Nat /\ Mishaps' = Mishaps + 1 /\ (BackupsLast' => BackupsLast /\ Mishaps + 1 < MaxBackups)
  BY <1>2 DEF Mishaps, BackupsLast
<1>6. Ordered(disk')
  BY <1>3, <1>4 DEF Ordered
<1>7. \A n : HasBackup(disk, n) => HasBackup(disk', n)
  BY <1>4 DEF HasBackup
<1>8. StateFacts'
  <2>1. \A p \in Path : disk'[p] \in Version => disk'[p] <= stamp
    BY <1>3, <1>4 DEF StateFacts
  <2>2. BackupsLast' => Found(disk') >= spare
    BY <1>2, <1>3, <1>5, <1>6, <1>7, BackupIsFound DEF StateFacts
  <2>3. HasBackup(disk', 0)
    BY DEF HasBackup
  <2>4. BackupsLast' /\ phase' # "down" => mem' >= due'
    <3>1. mem \in Nat /\ due \in Nat /\ spare \in Nat
      BY TypesByName, VersionOrder DEF StateInv
    <3>. QED BY <1>2, <1>3, <1>5, <3>1 DEF StateFacts
  <2>. QED BY <1>2, <1>3, <2>1, <2>2, <2>3, <2>4, VersionOrder DEF StateFacts
<1>9. MainKept'
  BY <1>2, <1>4 DEF MainKept
<1>10. Cardinality(Useless(disk', Hole(v))) <= Mishaps + 1
  <2>1. ASSUME NEW p \in Useless(disk', Hole(v)), p # Main PROVE p \in Useless(disk, Hole(v))
    <3>1. p \in Backup /\ p # Hole(v) /\ disk'[p] \notin Version
      BY <1>4, <2>1 DEF Useless
    <3>2. PICK q \in Chain : p <= q /\ disk'[q] # Absent
      BY DEF Useless
    <3>3. q \in Backup
      BY <1>4, <3>1, <3>2, PlainFacts
    <3>. QED BY <1>4, <3>1, <3>2, <3>3 DEF Useless
  <2>2. Cardinality(Useless(disk', Hole(v))) <= Cardinality(Useless(disk, Hole(v))) + 1
    BY <2>1, OneMoreUseless
  <2>3. Cardinality(Useless(disk', Hole(v))) \in Nat /\ Cardinality(Useless(disk, Hole(v))) \in Nat
    BY UselessFinite
  <2>4. Cardinality(Useless(disk, Hole(v))) <= Mishaps
    BY <1>3 DEF SaveInv
  <2>. QED BY <1>5, <2>2, <2>3, <2>4
<1>11. Newest(v, disk') /\ TempKept(v, disk') /\ Rotating(v, disk') /\ Copying(v, disk')
  <2>1. Newest(v, disk')
    BY <1>3, <1>4 DEF SaveInv, Newest
  <2>2. TempKept(v, disk')
    BY <1>3, <1>4 DEF SaveInv, TempKept
  <2>3. Rotating(v, disk')
    <3>1. v.i \in Backup /\ (v.i < MaxBackups - 1 => v.i + 1 \in Backup) /\ 0 \in Backup
      BY SaveFields, PlainFacts
    <3>. QED BY <1>3, <1>4, <3>1 DEF SaveInv, Rotating
  <2>4. Copying(v, disk')
    BY <1>3, <1>4, PlainFacts DEF SaveInv, Copying
  <2>. QED BY <2>1, <2>2, <2>3, <2>4
<1>12. BackupsLast' => BackupsLast /\ due >= spare
  BY <1>3, <1>5 DEF StateFacts
<1>13. v.source \in Version /\ v.source >= due /\ due >= spare => v.source >= spare
  BY <1>2, VersionOrder
<1>14. HasBackup(disk, due) /\ due >= spare => HasBackup(disk', spare)
  BY <1>2, <1>7, HasOlderBackup
<1>15. SaveInv(v)'
  BY <1>2, <1>3, <1>5, <1>10, <1>11, <1>12, <1>13, <1>14 DEF SaveInv
<1>16. Steady
  BY <1>2 DEF Steady
<1>. QED BY <1>1, <1>6, <1>8, <1>9, <1>15, <1>16 DEF SaveInv, After

-----------------------------------------------------------------------------
(* Where no save is under way, any save may be the next one. *)
LEMMA AnySave ==
  ASSUME NEW s \in Saver, StateInv(s), save[s].at = "idle", NEW r \in Saver
  PROVE  StateInv(r)
<1>1. PICK v \in SaveRecord : v = save[s]
  BY TypesByName DEF StateInv
<1>2. PICK w \in SaveRecord : w = save[r]
  BY TypesByName DEF StateInv
<1>3. \A x \in Saver : save[x].at = "idle" /\ save[x].file = Gone /\ save[x].version <= stamp
  <2>1. v.at = "idle" /\ v.file = Gone /\ v.version <= stamp
    BY <1>1 DEF StateInv, SaveInv, TempKept
  <2>. QED BY <1>1, <2>1 DEF StateInv, Resting
<1>4. Hole(v) = Gone /\ Hole(w) = Gone /\ w.at = "idle" /\ w.file = Gone /\ w.version <= stamp
  BY <1>1, <1>2, <1>3 DEF Hole
<1>5. Newest(w, disk) /\ TempKept(w, disk) /\ Rotating(w, disk) /\ Copying(w, disk)
  BY <1>4 DEF Newest, TempKept, Rotating, Copying, Written
<1>6. SaveInv(w)
  BY <1>1, <1>4, <1>5 DEF StateInv, SaveInv
<1>7. Resting(r)
  BY <1>3 DEF Resting
<1>. QED BY <1>2, <1>6, <1>7 DEF StateInv

(* The other saves rest during a save's steps, and the steps of the process. *)
LEMMA OthersRest ==
  ASSUME NEW s \in Saver, StateInv(s), StateTypeOK', stamp' >= stamp,
         NEW r \in Saver \ {s}, save'[r] = save[r] \/ save'[r] = Idle
  PROVE  save'[r].at = "idle" /\ save'[r].file = Gone /\ save'[r].version <= stamp'
<1>1. stamp \in Nat /\ stamp' \in Nat
  BY VersionOrder DEF StateInv, StateTypeOK
<1>2. CASE save'[r] = Idle
  BY <1>1, <1>2, IdleFields
<1>3. CASE save'[r] = save[r]
  <2>1. PICK v \in SaveRecord : v = save[r]
    BY TypesByName DEF StateInv
  <2>2. v.version \in Nat
    BY <2>1, SaveFields, VersionOrder
  <2>. QED BY <1>1, <1>3, <2>1, <2>2 DEF StateInv, Resting
<1>. QED BY <1>2, <1>3

(* No step of a save but its beginning is taken by a save at rest. *)
LEMMA RestingOnlyBegins ==
  ASSUME NEW r \in Saver, save[r].at = "idle", SaveSteps(r)
  PROVE  Save(r)
  BY DEF SaveSteps, Open, Write, WriteFails, Check, Rotate, RotateFrom, CopyStart, CopyEnd,
         CopyFails, Rename, At

(* The steps of s leave the other saves alone. *)
LEMMA RestingKept ==
  ASSUME NEW s \in Saver, StateInv(s), StateTypeOK', ~slipped', SaveSteps(s)
  PROVE  Resting(s)'
<1>1. stamp' = stamp /\ stamp \in Nat
  <2>1. stamp \in Nat
    BY TypesByName, VersionOrder DEF StateInv
  <2>. QED BY <2>1 DEF SaveSteps, Save, Open, Write, WriteFails, Check,
     Rotate, RotateFrom, CopyStart, CopyEnd, CopyFails, Rename, SaveStep, history
<1>2. save \in [Saver -> SaveRecord]
  BY TypesByName DEF StateInv
<1>3. save[s].at \notin {"write", "copying"} => save[s].file = Gone
  BY DEF StateInv, SaveInv, TempKept
<1>4. \A r \in Saver \ {s} : save'[r] = save[r]
  <2>1. CASE Rotate(s)
    <3>1. save[s].file = Gone /\ save[s].i \in Path
      BY <1>2, <1>3, <2>1, SaveFields, PlainFacts DEF Rotate, RotateFrom, At
    <3>2. \A to : SavesMoved(save[s].i, to) = save
      BY <3>1, NoneMoved
    <3>. DEFINE to == IF save[s].i = MaxBackups - 1 THEN Gone ELSE save[s].i + 1
                w == IF disk[save[s].i] # Absent THEN SavesMoved(save[s].i, to) ELSE save
                pc == IF save[s].i = 0 THEN "copy" ELSE "rotate"
                k == IF save[s].i = 0 THEN 0 ELSE save[s].i - 1
    <3>3. save' = [w EXCEPT ![s].at = pc, ![s].i = k]
      BY <2>1 DEF Rotate, RotateFrom
    <3>4. w = save
      BY <3>2
    <3>. HIDE DEF w, pc, k
    <3>. QED BY <1>2, <3>3, <3>4
  <2>2. CASE Rename(s)
    <3>1. save[s].file = Gone
      BY <1>3, <2>2 DEF Rename, At
    <3>2. SavesMoved(Temp, Main) = save
      BY <3>1, NoneMoved, PlainFacts
    <3>. QED BY <1>2, <2>2, <3>2 DEF Rename
  <2>3. CASE WriteFails(s)
    <3>1. save' = [save EXCEPT ![s] = Idle]
      BY <2>3 DEF WriteFails
    <3>. QED BY <1>2, <3>1
  <2>4. CASE Save(s) \/ Open(s) \/ Write(s) \/ Check(s) \/ CopyStart(s) \/ CopyEnd(s) \/ CopyFails(s)
    BY <1>2, <2>4 DEF Save, Open, Write, Check, CopyStart, CopyEnd, CopyFails, Go
  <2>. QED BY <2>1, <2>2, <2>3, <2>4 DEF SaveSteps
<1>5. ASSUME NEW r \in Saver \ {s}
      PROVE  save'[r].at = "idle" /\ save'[r].file = Gone /\ save'[r].version <= stamp'
  BY <1>1, <1>4, OthersRest
<1>. QED BY <1>5 DEF Resting

(* The invariant of the only save under way: at the start, and with every step. *)
LEMMA StateInvStarts ==
  ASSUME NEW s \in Saver, StateInit
  PROVE  StateInv(s)
<1>1. StateTypeOK
  BY StateTypeStarts
<1>2. /\ disk = [p \in Path |-> Absent] /\ disk \in [Path -> Content] /\ save[s] = Idle
      /\ mem = 0 /\ stamp = 0 /\ due = 0 /\ spare = 0 /\ crashes = 0 /\ damage = 0 /\ faults = 0
      /\ phase = "up" /\ dirty = FALSE
  BY <1>1, TypesByName DEF StateInit
<1>3. \A p \in Path : disk[p] = Absent /\ Absent \notin Version
  BY <1>2, PlainFacts
<1>4. disk[Main] = Absent /\ \A p \in Chain : disk[p] = Absent /\ disk[p] \notin Version
  BY <1>3, PlainFacts
<1>5. Ordered(disk) /\ MainKept
  <2>1. Ordered(disk)
    BY <1>4 DEF Ordered
  <2>2. MainKept
    BY <1>4 DEF MainKept
  <2>. QED BY <2>1, <2>2
<1>6. StateFacts
  <2>1. Found(disk) \in Nat
    BY <1>2, FoundIsVersion, VersionOrder
  <2>. QED BY <1>2, <1>3, <2>1 DEF StateFacts, HasBackup
<1>7. Cardinality(Useless(disk, Gone)) <= Mishaps
  <2>1. Useless(disk, Gone) = {}
    BY <1>4 DEF Useless
  <2>. QED BY <1>2, <2>1, FS_EmptySet DEF Mishaps
<1>8. SaveInv(Idle)
  BY <1>2, <1>7, IdleSave, IdleFields DEF SaveInv
<1>9. Resting(s)
  BY <1>2, IdleFields DEF StateInit, Resting
<1>. QED BY <1>1, <1>2, <1>5, <1>6, <1>8, <1>9 DEF StateInv

(* Every step that neither begins a second save nor takes an older backup keeps the
   invariant, of the same save or of the one that begins, and, but for damage, what
   a load finds. *)
LEMMA StateInvStep ==
  ASSUME NEW s \in Saver, StateInv(s), ~overlapped', ~slipped', [StateNext]_vars
  PROVE  (\E r \in Saver : StateInv(r)') /\ Steady
<1>1. StateTypeOK'
  BY StateTypeStep DEF StateInv
<1>2. CASE UNCHANGED vars
  <2>1. StateInv(s)'
    BY <1>2 DEF vars, history, StateInv, StateTypeOK, StateFacts, MainKept, SaveInv, Mishaps, BackupsLast, Resting
  <2>2. Found(disk) \in Nat
    BY FoundIsVersion, VersionOrder, TypesByName DEF StateInv
  <2>. QED BY <1>2, <2>1, <2>2 DEF vars, history, Steady
<1>3. ASSUME NEW r \in Saver, StateInv(r), SaveSteps(r) PROVE StateInv(r)' /\ Steady
  <2>1. After(r)
    BY <1>1, <1>3, SaveKeeps, OpenKeeps, WriteKeeps, WriteFailsKeeps, CheckKeeps, RotateKeeps,
       CopyStartKeeps, CopyEndKeeps, CopyFailsKeeps, RenameKeeps DEF SaveSteps
  <2>2. Resting(r)'
    BY <1>1, <1>3, RestingKept
  <2>. QED BY <1>1, <2>1, <2>2 DEF After, StateInv
<1>4. ASSUME NEW r \in Saver, SaveSteps(r) PROVE (\E x \in Saver : StateInv(x)') /\ Steady
  <2>1. CASE r = s
    BY <1>3, <1>4, <2>1
  <2>2. CASE r # s
    <3>1. Save(r)
      BY <1>4, <2>2, RestingOnlyBegins DEF StateInv, Resting
    <3>2. save[s].at = "idle"
      BY <3>1 DEF Save, Saving
    <3>3. StateInv(r)
      BY <3>2, AnySave
    <3>. QED BY <1>3, <1>4, <3>3
  <2>. QED BY <2>1, <2>2
<1>5. ASSUME Load PROVE (\E r \in Saver : StateInv(r)') /\ Steady
  <2>1. save[s].at = "idle" /\ phase = "down"
    BY <1>5 DEF Load, StateInv, SaveInv
  <2>2. PICK r \in Saver : /\ disk[Main] \in Version \/ Older(-1) = {} \/ Recover(r, Min(Older(-1)))
                           /\ \A x \in Saver \ {r} : save'[x] = save[x]
    <3>1. CASE disk[Main] \in Version \/ Older(-1) = {}
      BY <1>5, <3>1 DEF Load
    <3>2. CASE ~(disk[Main] \in Version \/ Older(-1) = {})
      BY <1>5, <3>2, TypesByName DEF Load, Recover, StateInv
    <3>. QED BY <3>1, <3>2
  <2>3. StateInv(r)
    BY <2>1, AnySave
  <2>4. After(r)
    BY <1>1, <1>5, <2>2, <2>3, LoadKeeps
  <2>5. stamp' = stamp /\ stamp \in Nat
    BY <1>5, TypesByName, VersionOrder DEF Load, history, StateInv
  <2>6. ASSUME NEW x \in Saver \ {r}
        PROVE  save'[x].at = "idle" /\ save'[x].file = Gone /\ save'[x].version <= stamp'
    BY <1>1, <2>2, <2>3, <2>5, OthersRest
  <2>7. Resting(r)'
    BY <2>6 DEF Resting
  <2>. QED BY <1>1, <2>4, <2>7 DEF After, StateInv
<1>6. ASSUME Update \/ Crash \/ Damage PROVE StateInv(s)' /\ Steady
  <2>1. After(s)
    BY <1>1, <1>6, UpdateKeeps, CrashKeeps, DamageKeeps
  <2>2. stamp' >= stamp /\ \A x \in Saver \ {s} : save'[x] = save[x] \/ save'[x] = Idle
    <3>1. stamp \in Nat
      BY TypesByName, VersionOrder DEF StateInv
    <3>. QED BY <1>6, <3>1 DEF Update, Crash, Damage, history
  <2>3. ASSUME NEW x \in Saver \ {s}
        PROVE  save'[x].at = "idle" /\ save'[x].file = Gone /\ save'[x].version <= stamp'
    BY <1>1, <2>2, OthersRest
  <2>4. Resting(s)'
    BY <2>3 DEF Resting
  <2>. QED BY <1>1, <2>1, <2>4 DEF After, StateInv
<1>. QED BY <1>2, <1>4, <1>5, <1>6 DEF StateNext

(* What no step takes back: that two saves overlapped, that an older backup was
   taken.  Until then the invariant holds of some save. *)
Undisturbed == ~overlapped /\ ~slipped
SomeInv == StateTypeOK /\ (Undisturbed => \E s \in Saver : StateInv(s))

(* The first of those steps is the only one that ends it. *)
LEMMA UndisturbedBefore ==
  ASSUME StateTypeOK, [StateNext]_vars, Undisturbed'
  PROVE  Undisturbed
<1>. USE DEF Undisturbed
<1>0. overlapped \in BOOLEAN /\ slipped \in BOOLEAN
  BY TypesByName
<1>1. ASSUME NEW s \in Saver, SaveSteps(s) PROVE Undisturbed
  <2>1. CASE Save(s)
    BY <2>1 DEF Save
  <2>2. CASE WriteFails(s)
    BY <1>0, <2>2 DEF WriteFails
  <2>3. CASE UNCHANGED <<overlapped, slipped>>
    BY <2>3
  <2>4. Save(s) \/ WriteFails(s) \/ UNCHANGED <<overlapped, slipped>>
    BY <1>1 DEF SaveSteps, Open, Write, Check, Rotate, RotateFrom, CopyStart, CopyEnd, CopyFails,
       Rename, SaveStep, history
  <2>. QED BY <2>1, <2>2, <2>3, <2>4
<1>2. CASE Update \/ Crash \/ Load \/ Damage \/ UNCHANGED vars
  <2>1. UNCHANGED <<overlapped, slipped>>
    BY <1>2 DEF Update, Crash, Load, Damage, vars, history
  <2>. QED BY <2>1
<1>. QED BY <1>1, <1>2 DEF StateNext

(* The invariant at the start, and with every step. *)
LEMMA SomeInvHolds ==
  /\ StateInit => SomeInv
  /\ SomeInv /\ [StateNext]_vars => SomeInv'
<1>1. ASSUME StateInit PROVE SomeInv
  <2>1. PICK s \in Saver : TRUE
    BY StateAssumption
  <2>. QED BY <1>1, <2>1, StateTypeStarts, StateInvStarts DEF SomeInv
<1>2. ASSUME SomeInv, [StateNext]_vars PROVE SomeInv'
  <2>1. StateTypeOK /\ StateTypeOK'
    BY <1>2, StateTypeStep DEF SomeInv
  <2>2. ASSUME Undisturbed' PROVE \E r \in Saver : StateInv(r)'
    <3>1. PICK s \in Saver : StateInv(s)
      BY <1>2, <2>1, <2>2, UndisturbedBefore DEF SomeInv
    <3>. QED BY <1>2, <2>2, <3>1, StateInvStep DEF Undisturbed
  <2>. QED BY <2>1, <2>2 DEF SomeInv
<1>. QED BY <1>1, <1>2

(* At every moment, a crash in the middle of a save included, the next load finds
   what the last successful save wrote, or after damage what the save before it left
   in the backups, and a process goes on with no older state; for any number of
   saves, until two of them overlap or a recovery cannot be saved. *)
THEOREM SavedStateSurvives == StateSpec => []SavedSurvives
<1>1. ASSUME SomeInv PROVE SavedSurvives
  <2>1. ASSUME Sound PROVE Loaded >= due /\ (phase # "down" => mem >= due)
    <3>1. PICK s \in Saver : StateInv(s)
      BY <1>1, <2>1 DEF SomeInv, Undisturbed, Sound
    <3>. QED BY <2>1, <3>1, LoadedIsFound DEF StateInv, StateFacts, Sound
  <2>. QED BY <2>1 DEF SavedSurvives
<1>. QED BY <1>1, SomeInvHolds, PTL DEF StateSpec

(* And no step of the code makes a load find an older state than before it: the
   step that overlaps or that gives up a backup changes nothing yet. *)
THEOREM LoadNeverGoesBack == StateSpec => NeverGoesBack
<1>1. ASSUME SomeInv, [StateNext]_vars
      PROVE  [damage' = damage /\ Sound => Loaded' >= Loaded]_vars
  <2>1. SUFFICES ASSUME damage' = damage, Sound PROVE Loaded' >= Loaded
    OBVIOUS
  <2>2. Loaded = Found(disk) /\ Loaded' = Found(disk')
    BY DEF Loaded, Found
  <2>3. PICK s \in Saver : StateInv(s)
    BY <1>1, <2>1 DEF SomeInv, Undisturbed, Sound
  <2>4. CASE Undisturbed'
    BY <1>1, <2>1, <2>2, <2>3, <2>4, StateInvStep DEF Steady, Sound, Undisturbed
  <2>5. CASE ~Undisturbed'
    <3>1. overlapped \in BOOLEAN /\ slipped \in BOOLEAN /\ overlapped' \in BOOLEAN /\ slipped' \in BOOLEAN
      BY <1>1, StateTypeStep DEF SomeInv, StateTypeOK
    <3>2. ~UNCHANGED <<overlapped, slipped>>
      BY <2>1, <2>5, <3>1 DEF Sound, Undisturbed
    <3>3. disk' = disk
      <4>1. ASSUME NEW r \in Saver, SaveSteps(r) PROVE disk' = disk
        <5>1. CASE Save(r) \/ WriteFails(r)
          BY <5>1 DEF Save, WriteFails
        <5>2. CASE ~(Save(r) \/ WriteFails(r))
          BY <3>2, <4>1, <5>2 DEF SaveSteps, Open, Write, Check, Rotate, RotateFrom, CopyStart,
             CopyEnd, CopyFails, Rename, SaveStep, history
        <5>. QED BY <5>1, <5>2
      <4>. QED BY <1>1, <3>2, <4>1 DEF StateNext, Update, Crash, Load, Damage, vars, history
    <3>4. Found(disk) \in Nat
      BY <1>1, FoundIsVersion, VersionOrder, TypesByName DEF SomeInv
    <3>. QED BY <2>2, <3>3, <3>4
  <2>. QED BY <2>4, <2>5
<1>. QED BY <1>1, SomeInvHolds, PTL DEF StateSpec, NeverGoesBack
=============================================================================
