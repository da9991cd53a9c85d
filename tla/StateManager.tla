---------------------------- MODULE StateManager ----------------------------
(***************************************************************************)
(* The torrent engine's state file (stateManager.js): the state in memory, *)
(* the main file, the temporary file of a save, the rotated backups, and a *)
(* process that dies between any two file operations and loads again.      *)
(*                                                                         *)
(* A state is known by the number of the update that made it, 0 being the  *)
(* empty one.  A path leads to a file, and a save that has a file open     *)
(* writes to that file wherever a rename has taken it.                     *)
(***************************************************************************)
EXTENDS Integers, FiniteSetsExt

CONSTANTS Saver,       \* saves that may be under way at the same time
          MaxBackups,  \* backups kept
          Absent, Empty, Garbled, \* no file; a truncated one; a mixed one
          MaxVersion,  \* bound: updates
          MaxCrashes,  \* bound: crashes in the middle of a save
          MaxDamage,   \* bound: main files damaged from outside
          MaxDisk      \* bound: writes that fail

ASSUME StateAssumption ==
  /\ Saver # {} /\ MaxBackups \in Nat \ {0} /\ MaxVersion \in Nat
  /\ {Absent, Empty, Garbled} \intersect Int = {}
  /\ Absent # Empty /\ Absent # Garbled /\ Empty # Garbled

Version == 0..MaxVersion
Backup == 0..(MaxBackups - 1)
Main == -1
Temp == -2
Gone == -3   \* where an unlinked file is
Path == Backup \union {Main, Temp}

VARIABLES
  mem,     \* version of the state in memory
  dirty,   \* _isDirty
  phase,   \* of the process: "down", "loading", "up"
  stamp,   \* number of updates made so far
  disk,    \* content at each path
  save,    \* progress of each save
  due,     \* version the last successful save left on disk
  spare,   \* version its rotation left in the backups
  crashes, damage, faults, \* what happened so far
  overlapped, \* a save began while another was under way
  slipped     \* a load went on to an older backup than the newest valid one

history == <<crashes, damage, faults, overlapped, slipped>>
vars == <<mem, dirty, phase, stamp, disk, save, due, spare, history>>

Idle == [at |-> "idle", version |-> 0, file |-> Gone, i |-> 0, source |-> Absent, backed |-> TRUE]
Saving(s) == save[s].at # "idle"

StateInit ==
  /\ mem = 0 /\ dirty = FALSE /\ phase = "up" /\ stamp = 0
  /\ disk = [p \in Path |-> Absent]
  /\ save = [s \in Saver |-> Idle]
  /\ due = 0 /\ spare = 0 /\ crashes = 0 /\ damage = 0 /\ faults = 0
  /\ overlapped = FALSE /\ slipped = FALSE

(* What load() finds: the main file or the first backup that is valid, else
   the empty state. *)
Loaded ==
  LET valid == {i \in Backup : disk[i] \in Version}
  IN  IF disk[Main] \in Version THEN disk[Main]
      ELSE IF valid = {} THEN 0 ELSE disk[Min(valid)]

(* rename, and unlink as a rename to nowhere: open files follow theirs. *)
DiskMoved(from, to) ==
  [p \in Path |-> CASE p = from -> Absent [] p = to -> disk[from] [] OTHER -> disk[p]]
SavesMoved(from, to) ==
  [s \in Saver |-> CASE save[s].file = from -> [save[s] EXCEPT !.file = to]
                    [] save[s].file = to   -> [save[s] EXCEPT !.file = Gone]
                    [] OTHER               -> save[s]]

(* Writing v from the start of a file: on top of something else it may leave
   the tail of what was there. *)
WriteFile(file, v) ==
  IF file = Gone THEN UNCHANGED disk
  ELSE \E c \in IF disk[file] = Empty THEN {v} ELSE {v, Garbled} :
         disk' = [disk EXCEPT ![file] = c]

At(s, pc) == save[s].at = pc
Go(s, pc) == save' = [save EXCEPT ![s].at = pc]
SaveStep == UNCHANGED <<mem, stamp, due, spare, history>>

Begun(v) == [Idle EXCEPT !.at = "open", !.version = v]

(* load() takes the state of backup i and saves it at once, as the main file. *)
Recover(s, i) ==
  /\ mem' = disk[i]
  /\ phase' = "loading"
  /\ save' = [save EXCEPT ![s] = [Begun(disk[i]) EXCEPT !.i = i]]

-----------------------------------------------------------------------------
(* setTorrentState, removeTorrentState, updateSettings: the engine calls them
   at any time, a save in progress or not. *)
Update ==
  /\ phase = "up" /\ stamp < MaxVersion
  /\ stamp' = stamp + 1 /\ mem' = stamp + 1
  /\ dirty' = TRUE
  /\ UNCHANGED <<phase, disk, save, due, spare, history>>

(* save(), from flush() or from the timer when the state is dirty: the state is
   turned into text before the first await. *)
Save(s) ==
  /\ phase = "up" /\ dirty /\ ~Saving(s)
  /\ save' = [save EXCEPT ![s] = Begun(mem)]
  /\ overlapped' = (overlapped \/ \E r \in Saver : Saving(r))
  /\ UNCHANGED <<mem, dirty, phase, stamp, disk, due, spare, crashes, damage, faults, slipped>>

OpenInPlace(s) ==                                                \* mutant
  /\ At(s, "open") /\ SaveStep
  /\ disk' = [disk EXCEPT ![Main] = Empty]
  /\ save' = [save EXCEPT ![s].at = "write", ![s].file = Main]
  /\ UNCHANGED <<dirty, phase>>
Open(s) ==
  /\ At(s, "open") /\ SaveStep
  /\ disk' = [disk EXCEPT ![Temp] = Empty]
  /\ save' = [save EXCEPT ![s].at = "write", ![s].file = Temp]
  /\ UNCHANGED <<dirty, phase>>
Write(s) ==
  /\ At(s, "write") /\ SaveStep
  /\ WriteFile(save[s].file, save[s].version)
  /\ save' = [save EXCEPT ![s].at = "check", ![s].file = Gone]
  /\ UNCHANGED <<dirty, phase>>

(* The write fails: save() throws, the flag stays.  When it was the save of a state
   that load() found in a backup, the exception ends in the catch of that backup and
   the loop goes on to the next older one; with none left the last state loaded
   stays, and initialize() goes on. *)
Older(i) == {j \in Backup : j > i /\ disk[j] \in Version}
WriteFails(s) ==
  /\ At(s, "write") /\ faults < MaxDisk
  /\ faults' = faults + 1
  /\ IF phase = "loading" /\ Older(save[s].i) # {}
     THEN /\ Recover(s, Min(Older(save[s].i)))
          /\ slipped' = TRUE
     ELSE /\ save' = [save EXCEPT ![s] = Idle]
          /\ phase' = "up"
          /\ UNCHANGED <<mem, slipped>>
  /\ UNCHANGED <<dirty, stamp, disk, due, spare, crashes, damage, overlapped>>

CheckUnrotated(s) ==                                             \* mutant
  /\ At(s, "check") /\ SaveStep
  /\ Go(s, "rename")
  /\ UNCHANGED <<dirty, phase, disk>>
Check(s) ==
  /\ At(s, "check") /\ SaveStep
  /\ save' = [save EXCEPT ![s].at = IF disk[Main] = Absent THEN "rename" ELSE "rotate",
                          ![s].i = MaxBackups - 1]
  /\ UNCHANGED <<dirty, phase, disk>>

(* _rotateBackups: one file after the other from the oldest, which is removed,
   then a copy of the main file. *)
RotateFrom(s, first) ==
  LET i == save[s].i
      to == IF i = MaxBackups - 1 THEN Gone ELSE i + 1
      there == disk[i] # Absent
  IN  /\ At(s, "rotate") /\ SaveStep
      /\ disk' = IF there THEN DiskMoved(i, to) ELSE disk
      /\ save' = [(IF there THEN SavesMoved(i, to) ELSE save) EXCEPT
                    ![s].at = IF i = first THEN "copy" ELSE "rotate",
                    ![s].i = IF i = first THEN 0 ELSE i - 1]
      /\ UNCHANGED <<dirty, phase>>
RotateTooFar(s) == RotateFrom(s, -1)                             \* mutant
Rotate(s) == RotateFrom(s, 0)
CopyStart(s) ==
  /\ At(s, "copy") /\ SaveStep
  /\ disk' = [disk EXCEPT ![0] = Empty]
  /\ save' = [save EXCEPT ![s].at = "copying", ![s].file = 0, ![s].source = disk[Main]]
  /\ UNCHANGED <<dirty, phase>>
CopyEnd(s) ==
  /\ At(s, "copying") /\ SaveStep
  /\ WriteFile(save[s].file, save[s].source)
  /\ save' = [save EXCEPT ![s].at = "rename", ![s].file = Gone]
  /\ UNCHANGED <<dirty, phase>>

(* A rotation that fails is only logged. *)
CopyFails(s) ==
  /\ At(s, "copying") /\ faults < MaxDisk
  /\ faults' = faults + 1
  /\ save' = [save EXCEPT ![s].at = "rename", ![s].file = Gone, ![s].backed = FALSE]
  /\ UNCHANGED <<mem, dirty, phase, stamp, disk, due, spare, crashes, damage, overlapped,
                 slipped>>

(* The temporary file becomes the main file; only now the flag is cleared.
   Another save may have taken the temporary file: this one then throws. *)
Rename(s) ==
  /\ At(s, "rename")
  /\ phase' = "up"
  /\ IF disk[Temp] = Absent
     THEN /\ save' = [save EXCEPT ![s] = Idle]
          /\ UNCHANGED <<disk, dirty, due, spare>>
     ELSE /\ disk' = DiskMoved(Temp, Main)
          /\ save' = [SavesMoved(Temp, Main) EXCEPT ![s] = Idle]
          /\ dirty' = FALSE
          /\ due' = Max({due, save[s].version})
          /\ spare' = IF save[s].backed THEN due ELSE 0
  /\ UNCHANGED <<mem, stamp, history>>

-----------------------------------------------------------------------------
(* The process dies; starts and loads, by itself before anything else runs. *)
Crash ==
  /\ phase # "down"
  /\ IF \E s \in Saver : Saving(s)
     THEN crashes < MaxCrashes /\ crashes' = crashes + 1
     ELSE UNCHANGED crashes
  /\ phase' = "down" /\ mem' = 0 /\ dirty' = FALSE
  /\ save' = [s \in Saver |-> Idle]
  /\ UNCHANGED <<stamp, disk, due, spare, damage, faults, overlapped, slipped>>
Load ==
  /\ phase = "down"
  /\ IF disk[Main] \in Version \/ Older(-1) = {}
     THEN mem' = Loaded /\ phase' = "up" /\ UNCHANGED save
     ELSE \E s \in Saver : Recover(s, Min(Older(-1)))
  /\ UNCHANGED <<dirty, stamp, disk, due, spare, history>>

(* Something else damages the main file: what the backups are there for. *)
Damage ==
  /\ damage < MaxDamage /\ disk[Main] # Absent
  /\ damage' = damage + 1
  /\ disk' = [disk EXCEPT ![Main] = Garbled]
  /\ due' = spare /\ spare' = 0
  /\ UNCHANGED <<mem, dirty, phase, stamp, save, crashes, faults, overlapped, slipped>>

SaveSteps(s) ==
  \/ Save(s) \/ Open(s) \/ Write(s) \/ WriteFails(s) \/ Check(s) \/ Rotate(s)
  \/ CopyStart(s) \/ CopyEnd(s) \/ CopyFails(s) \/ Rename(s)
StateNext == Update \/ Crash \/ Load \/ Damage \/ \E s \in Saver : SaveSteps(s)
StateSpec == StateInit /\ [][StateNext]_vars
-----------------------------------------------------------------------------
(* Type invariant. *)
Content == Version \union {Absent, Empty, Garbled}
Progress == {"idle", "open", "write", "check", "rotate", "copy", "copying", "rename"}
StateTypeOK ==
  /\ {mem, stamp, due, spare} \subseteq Version
  /\ dirty \in BOOLEAN /\ phase \in {"down", "loading", "up"}
  /\ disk \in [Path -> Content]
  /\ save \in [Saver -> [at : Progress, version : Version, file : Path \union {Gone},
                         i : Backup, source : Content, backed : BOOLEAN]]
  /\ {crashes, damage, faults} \subseteq Nat /\ {overlapped, slipped} \subseteq BOOLEAN

(* Whatever the moment of a crash, the next load finds the last state that was
   saved, and the process goes on with it or a newer one; after damage to the main
   file it is the one before, as long as there were fewer mishaps than backups (a
   save or a recovery that is cut short has already pushed the good backups one place
   towards removal).  Not so once two saves have overlapped in the one temporary
   file, or a recovery could not save what it had found (WriteFails). *)
BackupsLast == damage = 0 \/ damage + crashes + faults < MaxBackups
Sound == BackupsLast /\ ~overlapped /\ ~slipped
SavedSurvives == Sound => Loaded >= due /\ (phase # "down" => mem >= due)

(* No step of the code takes back what a load would find (stateManager.js:145,
   153: "atomic"): a save changes it in one step, from old to new. *)
NeverGoesBack == [][damage' = damage /\ Sound => Loaded' >= Loaded]_vars

(* engine.js:1126 "Save immediately on state change", stateManager.js:301 "flushes
   pending changes": when nothing is being saved and the state counts as clean,
   so that flush() does nothing, the disk has what the memory has. *)
CleanIsSaved ==
  phase = "up" /\ ~dirty /\ (\A s \in Saver : ~Saving(s)) => Loaded = mem
=============================================================================
