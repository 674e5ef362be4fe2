------------------------------- MODULE Settings -------------------------------
(***************************************************************************)
(* The life of the settings: saved by ConfigSave (config.c) to the public  *)
(* drive together with a file of checksums (ug_filecrc.c), copied to a     *)
(* backup drive (backup.c), and recovered from there, or from the factory  *)
(* defaults, when the board boots (main.c) after a power loss.             *)
(*                                                                         *)
(* A file's content is the version of the settings it holds; the checksum  *)
(* file's content is the version it certifies.  What a power loss leaves   *)
(* of the files written since the last flush of the NOR cache is any of    *)
(* the contents they had meanwhile.                                        *)
(***************************************************************************)
EXTENDS Naturals, Sequences

CONSTANTS
  Tasks,        \* the threads running ConfigSaveTask
  Main,         \* the thread of SDL_main
  MaxVersion,   \* bound: changes of the settings since the factory defaults
  MaxCrashes,   \* bound: power losses in a behaviour
  Boards,       \* the boards looked at: [installed, fragile, overlap]
  Partial,      \* content of a file opened for writing and not written yet
  Torn,         \* content of a file only part of which reached the flash
  Missing,      \* no such file
  None

ASSUME SettingsAssumption ==
  /\ MaxVersion \in Nat /\ MaxCrashes \in Nat
  /\ Boards \subseteq [installed : BOOLEAN, fragile : BOOLEAN, overlap : BOOLEAN]
  /\ Main \notin Tasks /\ None \notin Tasks \cup {"public", "backup"}
  /\ \A c \in {Partial, Torn, Missing, None} : c \notin Nat
  /\ Partial # Torn /\ Torn # Missing /\ Missing # Partial

Default  == 0
Versions == 0 .. MaxVersion
Content  == Versions \cup {Partial, Torn, Missing}

Volumes == {"public", "backup"}   \* the two FAT volumes that are written
Letters == {"B", "C"}             \* CFG_PUBLIC_DRIVE and BACKUP_DRIVE
Listed  == <<"ini", "crc">>       \* gtBackupList
Files   == {"ini", "crc", "mark"} \* mark is backup_special_file
Threads == Tasks \cup {Main}

VARIABLES
  board,    \* has it completed a boot before?  can a power loss break a FAT
            \* volume that has unflushed writes?  may ConfigSave be called
            \* before the last save has ended?  Never changes.
  fat,      \* is the volume formatted?
  file,     \* the files as the running system sees them
  flash,    \* the contents each file can have after a power loss
  risky,    \* the volumes a power loss can leave without a file system
  drive,    \* the volume behind each drive letter
  pc, index,
  tries,    \* restryCount
  config,   \* theConfig
  dict,     \* cfgIni
  saving,   \* cfgIsSaving
  count,    \* cfgSavingCount, a bool
  seen,     \* savingCount of each task
  mutex,    \* cfgMutex
  kept,     \* the settings the last finished save wrote
  crashes

disk == <<fat, file, flash, risky, drive>>
save == <<config, dict, saving, count, seen, mutex, kept>>
vars == <<disk, pc, index, tries, save, crashes, board>>

-------------------------------------------------------------------------------
(* Drives and files.                                                       *)

(* FatMount gives the next free letter to each volume it can mount; with   *)
(* ITP_IOCTL_FORCE_MOUNT to the unformatted ones too.                      *)
ForceMount == [l \in Letters |-> IF l = "B" THEN "public" ELSE "backup"]
Mount(formatted) ==
  [l \in Letters |->
     IF formatted["public"]
     THEN IF l = "B" THEN "public" ELSE IF formatted["backup"] THEN "backup" ELSE None
     ELSE IF l = "B" /\ formatted["backup"] THEN "backup" ELSE None]

Holds(letter, f) == IF drive[letter] = None THEN Missing ELSE file[drive[letter]][f]
Exists(letter, f) == Holds(letter, f) # Missing
Writable(letter) == drive[letter] # None /\ fat[drive[letter]]

NoFiles == [f \in Files |-> Missing]

Write(letter, new) ==
  LET v == drive[letter] IN
  /\ file' = [file EXCEPT ![v] = [f \in Files |-> IF f \in DOMAIN new THEN new[f] ELSE @[f]]]
  /\ flash' = [flash EXCEPT ![v] = [f \in Files |->
                 IF f \notin DOMAIN new THEN @[f]
                 ELSE @[f] \cup {new[f], Torn} \cup (IF board.fragile THEN {Missing} ELSE {})]]
  /\ risky' = IF board.fragile THEN risky \cup {v} ELSE risky
  /\ UNCHANGED <<fat, drive>>

Put(letter, f, c) == Write(letter, [g \in {f} |-> c])

Flush ==
  /\ flash' = [v \in Volumes |-> [f \in Files |-> {file[v][f]}]]
  /\ risky' = {}
  /\ UNCHANGED <<fat, file, drive>>

(* _ReinitFatVolume.                                                       *)
Format(v) ==
  /\ fat' = [fat EXCEPT ![v] = TRUE]
  /\ file' = [file EXCEPT ![v] = NoFiles]
  /\ flash' = [flash EXCEPT ![v] = [f \in Files |-> @[f] \cup {Missing, Torn}]]
  /\ risky' = risky \cup {v}
  /\ drive' = ForceMount

(* ugRestoreDir from the private drive, which is never written.            *)
RestoreDefault(letter) == Write(letter, [f \in {"ini", "crc"} |-> Default])

(* ugCheckFilesCrc on the public drive.                                    *)
Certified(ini, crc) == crc \in Versions \cup {Partial} /\ ini = crc
PublicIntact == Certified(Holds("B", "ini"), Holds("B", "crc"))

(* What opening a file for reading, then reading it, gives: nothing if the *)
(* file system refuses to open a file that is open for writing.            *)
Dumping(t) == \E u \in Tasks \ {t} : pc[u] = "dump"
Readings(t, f) ==
  {Holds("B", f)} \cup (IF f = "ini" /\ Dumping(t) THEN {Missing} ELSE {})

Goto(t, l) == pc' = [pc EXCEPT ![t] = l]

-------------------------------------------------------------------------------
(* Booting.                                                                *)

(* The first file that is not on both drives decides.                      *)
Absent(i) == ~ Exists("B", Listed[i]) \/ ~ Exists("C", Listed[i])

CheckBackupUnmarked ==
  /\ pc[Main] = "check"
  /\ \/ \E i \in DOMAIN Listed :
          /\ Absent(i) /\ \A j \in 1 .. i - 1 : ~ Absent(j)
          /\ Goto(Main, IF Exists("C", Listed[i]) THEN "formatPublic" ELSE "formatBackup")
     \/ /\ \A i \in DOMAIN Listed : ~ Absent(i)
        /\ Goto(Main, "verify")
  /\ UNCHANGED <<disk, index, tries, save, crashes, board>>

CheckBackup ==
  /\ pc[Main] = "check"
  /\ \/ /\ Exists("B", "mark")
        /\ Goto(Main, "formatPublic")
     \/ /\ ~ Exists("B", "mark")
        /\ \E i \in DOMAIN Listed :
             /\ Absent(i) /\ \A j \in 1 .. i - 1 : ~ Absent(j)
             /\ Goto(Main, IF Exists("C", Listed[i]) THEN "formatPublic" ELSE "formatBackup")
     \/ /\ ~ Exists("B", "mark")
        /\ \A i \in DOMAIN Listed : ~ Absent(i)
        /\ Goto(Main, "verify")
  /\ UNCHANGED <<disk, index, tries, save, crashes, board>>

FormatPublic ==
  /\ pc[Main] \in {"formatPublic", "reset"}
  /\ Format("public")
  /\ Goto(Main, IF pc[Main] = "reset" THEN "resetFiles" ELSE "defaultPublic")
  /\ UNCHANGED <<index, tries, save, crashes, board>>

DefaultPublic ==
  /\ pc[Main] \in {"defaultPublic", "resetFiles"}
  /\ RestoreDefault("B")
  /\ Goto(Main, IF pc[Main] = "resetFiles" THEN "exit" ELSE "flushDefault")
  /\ UNCHANGED <<index, tries, save, crashes, board>>

FlushDefault ==
  /\ pc[Main] = "flushDefault"
  /\ Flush
  /\ Goto(Main, "restore")
  /\ index' = [index EXCEPT ![Main] = 1]
  /\ UNCHANGED <<tries, save, crashes, board>>

FormatBackup ==
  /\ pc[Main] = "formatBackup"
  /\ Format("backup")
  /\ Goto(Main, "defaultBackup")
  /\ UNCHANGED <<index, tries, save, crashes, board>>

DefaultBackup ==
  /\ pc[Main] = "defaultBackup"
  /\ Write("C", [f \in Files |-> Default])
  /\ Goto(Main, "flushBackup")
  /\ UNCHANGED <<index, tries, save, crashes, board>>

(* _FileSyncFile from the backup to the public drive, file by file, for    *)
(* BackupInit and BackupRestore.  A file that cannot be opened fails an    *)
(* assertion, which ends the program.                                      *)
Restore ==
  /\ pc[Main] = "restore"
  /\ LET f == Listed[index[Main]] IN
     IF Exists("C", f) /\ Writable("B")
     THEN /\ Put("B", f, Holds("C", f))
          /\ index' = [index EXCEPT ![Main] = (@ % Len(Listed)) + 1]
          /\ IF index[Main] = Len(Listed) THEN Goto(Main, "flushRestored") ELSE UNCHANGED pc
     ELSE Goto(Main, "exit") /\ UNCHANGED <<disk, index>>
  /\ UNCHANGED <<tries, save, crashes, board>>

FlushRestored ==
  /\ pc[Main] \in {"flushBackup", "flushRestored"}
  /\ Flush
  /\ Goto(Main, "verify")
  /\ UNCHANGED <<index, tries, save, crashes, board>>

VerifyForever ==
  /\ pc[Main] = "verify"
  /\ IF PublicIntact
     THEN Goto(Main, "sync") /\ UNCHANGED tries
     ELSE Goto(Main, "restore") /\ UNCHANGED tries
  /\ index' = [index EXCEPT ![Main] = 1]
  /\ UNCHANGED <<disk, save, crashes, board>>

(* UpgradeInit in SDL_main's retry loop.                                   *)
Verify ==
  /\ pc[Main] = "verify"
  /\ IF PublicIntact
     THEN Goto(Main, "sync") /\ UNCHANGED tries
     ELSE /\ tries' = tries + 1
          /\ Goto(Main, IF tries' > 2 THEN "reset" ELSE "restore")
  /\ index' = [index EXCEPT ![Main] = 1]
  /\ UNCHANGED <<disk, save, crashes, board>>

AfterSync == IF index[Main] = Len(Listed) THEN "load" ELSE "sync"
NextSyncTooFar == index' = [index EXCEPT ![Main] = @ + 1]
NextSync == index' = [index EXCEPT ![Main] = (@ % Len(Listed)) + 1]

(* BackupSyncFile copies each file that differs, and flushes.              *)
SyncBackwards ==
  /\ pc[Main] = "sync"
  /\ LET f == Listed[index[Main]] IN
     IF Exists("B", f) /\ Exists("C", f)
     THEN IF Holds("B", f) # Holds("C", f)
          THEN /\ Put("B", f, Holds("C", f))
               /\ Goto(Main, "flushSynced") /\ UNCHANGED index
          ELSE NextSync /\ Goto(Main, AfterSync) /\ UNCHANGED disk
     ELSE Goto(Main, "exit") /\ UNCHANGED <<disk, index>>
  /\ UNCHANGED <<tries, save, crashes, board>>

Sync ==
  /\ pc[Main] = "sync"
  /\ LET f == Listed[index[Main]] IN
     IF Exists("B", f) /\ Exists("C", f)
     THEN IF Holds("B", f) # Holds("C", f)
          THEN /\ Put("C", f, Holds("B", f))
               /\ Goto(Main, "flushSynced") /\ UNCHANGED index
          ELSE NextSync /\ Goto(Main, AfterSync) /\ UNCHANGED disk
     ELSE Goto(Main, "exit") /\ UNCHANGED <<disk, index>>
  /\ UNCHANGED <<tries, save, crashes, board>>

FlushSynced ==
  /\ pc[Main] = "flushSynced"
  /\ Flush
  /\ NextSync
  /\ Goto(Main, AfterSync)
  /\ UNCHANGED <<tries, save, crashes, board>>

(* ConfigInit: a file that does not parse gives the built-in defaults.     *)
Loaded == IF Holds("B", "ini") \in Versions THEN Holds("B", "ini") ELSE Default

ConfigInit ==
  /\ pc[Main] = "load"
  /\ config' = Loaded
  /\ dict' = Loaded
  /\ count' = FALSE
  /\ Goto(Main, "run")
  /\ UNCHANGED <<disk, index, tries, saving, seen, mutex, kept, crashes, board>>

-------------------------------------------------------------------------------
(* Saving.                                                                 *)

(* A page of the GUI or the web server changes the settings and calls      *)
(* ConfigSave.                                                             *)
ConfigSave ==
  /\ pc[Main] = "run" /\ config < MaxVersion
  /\ board.overlap \/ \A t \in Tasks : pc[t] = "idle"
  /\ config' = config + 1
  /\ count' = TRUE
  /\ IF saving THEN UNCHANGED pc ELSE \E t \in Tasks : pc[t] = "idle" /\ Goto(t, "begin")
  /\ UNCHANGED <<disk, index, tries, dict, saving, seen, mutex, kept, crashes, board>>

Begin(t) ==
  /\ pc[t] = "begin"
  /\ saving' = TRUE
  /\ Goto(t, "count")
  /\ UNCHANGED <<disk, index, tries, config, dict, count, seen, mutex, kept, crashes, board>>

SeeCount(t) ==
  /\ pc[t] = "count"
  /\ seen' = [seen EXCEPT ![t] = count]
  /\ Goto(t, "collect")
  /\ UNCHANGED <<disk, index, tries, config, dict, saving, count, mutex, kept, crashes, board>>

(* ConfigSavePublic, without the mutex.                                    *)
Collect(t) ==
  /\ pc[t] = "collect"
  /\ dict' = config
  /\ Goto(t, "open")
  /\ UNCHANGED <<disk, index, tries, config, saving, count, seen, mutex, kept, crashes, board>>

(* The file system may refuse to open a file another task has open; then   *)
(* nothing is written.                                                     *)
InUse(t) == \E u \in Tasks \ {t} : pc[u] \in {"dump", "crc", "save"}

Open(t) ==
  /\ pc[t] = "open"
  /\ \/ Put("B", "ini", Partial) /\ Goto(t, "dump")
     \/ InUse(t) /\ Goto(t, "lock") /\ UNCHANGED disk
  /\ UNCHANGED <<index, tries, save, crashes, board>>

Dump(t) ==
  /\ pc[t] = "dump"
  /\ Put("B", "ini", dict)
  /\ Goto(t, "lock")
  /\ UNCHANGED <<index, tries, save, crashes, board>>

Lock(t) ==
  /\ pc[t] = "lock"
  /\ mutex = None
  /\ mutex' = t
  /\ Goto(t, "crc")
  /\ UNCHANGED <<disk, index, tries, config, dict, saving, count, seen, kept, crashes, board>>

(* ugSetFileCrc leaves a checksum file it cannot trust, and one of a file  *)
(* it cannot open, as it is.                                               *)
SetFileCrc(t) ==
  /\ pc[t] = "crc"
  /\ \E c \in Readings(t, "ini") :
       IF Holds("B", "crc") \in Versions \cup {Partial} /\ c # Missing
       THEN Put("B", "crc", c)
       ELSE UNCHANGED disk
  /\ Goto(t, "flush")
  /\ UNCHANGED <<index, tries, save, crashes, board>>

FlushPublicSkipped(t) ==
  /\ pc[t] = "flush"
  /\ Goto(t, "save")
  /\ index' = [index EXCEPT ![t] = 1]
  /\ UNCHANGED <<disk, tries, save, crashes, board>>

FlushPublic(t) ==
  /\ pc[t] = "flush"
  /\ Flush
  /\ Goto(t, "save")
  /\ index' = [index EXCEPT ![t] = 1]
  /\ UNCHANGED <<tries, save, crashes, board>>

(* BackupSave, file by file.                                               *)
BackupSave(t) ==
  /\ pc[t] = "save"
  /\ LET f == Listed[index[t]] IN
     \E c \in Readings(t, f) :
       IF c # Missing /\ Writable("C")
       THEN /\ Put("C", f, c)
            /\ index' = [index EXCEPT ![t] = (@ % Len(Listed)) + 1]
            /\ IF index[t] = Len(Listed) THEN Goto(t, "flushSaved") ELSE UNCHANGED pc
       ELSE Goto(Main, "exit") /\ UNCHANGED <<disk, index>>
  /\ UNCHANGED <<tries, save, crashes, board>>

FlushSaved(t) ==
  /\ pc[t] = "flushSaved"
  /\ Flush
  /\ Goto(t, "unlock")
  /\ UNCHANGED <<index, tries, save, crashes, board>>

Unlock(t) ==
  /\ pc[t] = "unlock"
  /\ mutex' = None
  /\ Goto(t, "test")
  /\ UNCHANGED <<disk, index, tries, config, dict, saving, count, seen, kept, crashes, board>>

Test(t) ==
  /\ pc[t] = "test"
  /\ Goto(t, IF seen[t] # count THEN "count" ELSE "clear")
  /\ UNCHANGED <<disk, index, tries, save, crashes, board>>

ClearNothing(t) ==
  /\ pc[t] = "clear"
  /\ kept' = Loaded
  /\ Goto(t, "idle")
  /\ UNCHANGED <<disk, index, tries, config, dict, saving, count, seen, mutex, crashes, board>>

Clear(t) ==
  /\ pc[t] = "clear"
  /\ saving' = FALSE
  /\ kept' = Loaded
  /\ Goto(t, "idle")
  /\ UNCHANGED <<disk, index, tries, config, dict, count, seen, mutex, crashes, board>>

-------------------------------------------------------------------------------
(* Power losses and restarts.                                              *)

PowerOn ==
  /\ drive' = Mount(fat')
  /\ pc' = [t \in Threads |-> IF t = Main THEN "check" ELSE "idle"]
  /\ index' = [t \in Threads |-> 1]
  /\ tries' = 0
  /\ config' = Default /\ dict' = Default
  /\ saving' = FALSE /\ count' = FALSE
  /\ seen' = [t \in Tasks |-> FALSE]
  /\ mutex' = None
  /\ UNCHANGED <<kept, board>>

(* exit, after the factory reset or a failed assertion, comes to _exit,    *)
(* which flushes the cache (itp_posix_openrtos.c:170) and lets the         *)
(* watchdog restart the board.                                             *)
Restart ==
  /\ pc[Main] = "exit"
  /\ flash' = [v \in Volumes |-> [f \in Files |-> {file[v][f]}]]
  /\ risky' = {}
  /\ UNCHANGED <<fat, file, crashes>>
  /\ PowerOn

(* What a power loss may leave of a volume; nobody marks the public one.   *)
Left(v) == {left \in [Files -> Content] :
              /\ \A f \in Files : left[f] \in flash[v][f]
              /\ v = "public" => left["mark"] = Missing}

LosePower ==
  \E broken \in SUBSET risky, pub \in Left("public"), bak \in Left("backup") :
    /\ fat' = [v \in Volumes |-> fat[v] /\ v \notin broken]
    /\ file' = [v \in Volumes |-> IF v \in broken THEN NoFiles
                                  ELSE IF v = "public" THEN pub ELSE bak]

Crash ==
  /\ crashes < MaxCrashes /\ crashes' = crashes + 1
  /\ LosePower
  /\ flash' = [v \in Volumes |-> [f \in Files |-> {file'[v][f]}]]
  /\ risky' = {}
  /\ PowerOn

-------------------------------------------------------------------------------
(* A board with the factory settings.  The backup drive of a new one is    *)
(* not formatted, or empty; DefaultBackup has filled it in on one that has *)
(* been installed.                                                         *)
Init ==
  /\ board \in Boards
  /\ fat \in [Volumes -> BOOLEAN] /\ fat["public"] /\ (board.installed => fat["backup"])
  /\ file = [v \in Volumes |->
               IF v = "public" THEN [f \in Files |-> IF f = "mark" THEN Missing ELSE Default]
               ELSE IF board.installed THEN [f \in Files |-> Default] ELSE NoFiles]
  /\ flash = [v \in Volumes |-> [f \in Files |-> {file[v][f]}]]
  /\ risky = {}
  /\ drive = Mount(fat)
  /\ pc = [t \in Threads |-> IF t = Main THEN "check" ELSE "idle"]
  /\ index = [t \in Threads |-> 1]
  /\ tries = 0
  /\ config = Default /\ dict = Default
  /\ saving = FALSE /\ count = FALSE
  /\ seen = [t \in Tasks |-> FALSE]
  /\ mutex = None
  /\ kept = Default
  /\ crashes = 0

Boot ==
  \/ CheckBackup
  \/ FormatPublic \/ DefaultPublic \/ FlushDefault
  \/ FormatBackup \/ DefaultBackup
  \/ Restore \/ FlushRestored
  \/ Verify \/ Sync \/ FlushSynced
  \/ ConfigInit \/ Restart

(* A failed assertion in one thread stops them all.                        *)
SaveTask(t) ==
  /\ pc[Main] = "run"
  /\ \/ Begin(t) \/ SeeCount(t) \/ Collect(t) \/ Open(t) \/ Dump(t)
     \/ Lock(t) \/ SetFileCrc(t) \/ FlushPublic(t)
     \/ BackupSave(t) \/ FlushSaved(t) \/ Unlock(t)
     \/ Test(t) \/ Clear(t)

Next == Boot \/ ConfigSave \/ (\E t \in Tasks : SaveTask(t)) \/ Crash

Spec == Init /\ [][Next]_vars

(* Booting waits for nothing; a save task waits for the mutex only, which  *)
(* its holder gives back.                                                  *)
FairSpec == Spec /\ WF_vars(Boot) /\ \A t \in Tasks : WF_vars(SaveTask(t))

-------------------------------------------------------------------------------
(* Properties.                                                             *)

TypeOK ==
  /\ board \in Boards
  /\ fat \in [Volumes -> BOOLEAN]
  /\ file \in [Volumes -> [Files -> Content]]
  /\ flash \in [Volumes -> [Files -> SUBSET Content]]
  /\ \A v \in Volumes, f \in Files : file[v][f] \in flash[v][f]
  /\ risky \subseteq Volumes
  /\ drive \in [Letters -> Volumes \cup {None}]
  /\ index \in [Threads -> DOMAIN Listed]
  /\ tries \in 0 .. 3
  /\ {config, dict, kept} \subseteq Versions
  /\ {saving, count} \subseteq BOOLEAN /\ seen \in [Tasks -> BOOLEAN]
  /\ mutex \in Tasks \cup {None}
  /\ crashes \in 0 .. MaxCrashes

(* A volume that any power loss leaves with a complete, certified set of   *)
(* files.                                                                  *)
Solid(v) ==
  /\ fat[v] /\ v \notin risky
  /\ \E n \in Versions : flash[v]["ini"] = {n} /\ flash[v]["crc"] = {n}

(* One save at a time, after the first boot.                               *)
Orderly == board.installed /\ ~ board.overlap

(* Whatever the power loss hits, booting or saving, one of the two drives  *)
(* still has the settings.                                                 *)
OneCopySolid == Orderly => \E v \in Volumes : Solid(v)

(* "cannot recover from backup....", or a failed assertion of              *)
(* _FileSyncFile or BackupSyncFile: the boot always finds what it needs.   *)
Recovers == Orderly => pc[Main] \notin {"reset", "exit"}

(* The board does not reboot for ever.                                     *)
BootEnds == pc[Main] # "run" ~> pc[Main] = "run"

(* "Saves the public part of configuration to file": the settings reach    *)
(* the file, unless the power fails.                                       *)
SavesReachFile ==
  \A n \in 1 .. MaxVersion :
    pc[Main] = "run" /\ config = n
      ~> pc[Main] # "run" \/ file["public"]["ini"] \in n .. MaxVersion

(* The same, when each save has ended before the next one.                 *)
LoneSavesReachFile == ~ board.overlap => SavesReachFile

(* "restore from backup": the board comes up with the settings of the last *)
(* finished save, or with newer ones.  When a power loss can break a       *)
(* volume, a second one during the recovery is excepted (BackupInit).      *)
SettingsKept ==
  [][ConfigInit /\ Orderly /\ (board.fragile => crashes < 2) => config' >= kept]_vars
===============================================================================
