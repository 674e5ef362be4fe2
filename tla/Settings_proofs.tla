--------------------------- MODULE Settings_proofs ---------------------------
(***************************************************************************)
(* Theorems about Settings: type correctness, and what a board whose saves *)
(* do not overlap never loses, booting or saving, when the power fails.    *)
(***************************************************************************)
EXTENDS Settings, TLAPS

Booting == {"check", "formatPublic", "defaultPublic", "flushDefault",
            "formatBackup", "defaultBackup", "flushBackup", "restore",
            "flushRestored", "verify", "reset", "resetFiles", "exit"}
Settled == {"sync", "flushSynced", "load", "run"}
Saving  == {"idle", "begin", "count", "collect", "open", "dump", "lock", "crc",
            "flush", "save", "flushSaved", "unlock", "test", "clear"}

(* Each thread is where its kind of thread can be.                         *)
Placed ==
  /\ pc \in [Threads -> Booting \cup Settled \cup Saving]
  /\ pc[Main] \in Booting \cup Settled
  /\ \A t \in Tasks : pc[t] \in Saving

(* The third failure leads out of the retry loop.                          *)
Retries == tries = 3 => pc[Main] \in {"reset", "resetFiles", "exit"}

(* A drive that is written without a test is there.                        *)
Written ==
  /\ pc[Main] \in Settled => drive["B"] \in Volumes
  /\ pc[Main] \in {"defaultPublic", "resetFiles", "defaultBackup"} => drive = ForceMount

TypeInv == TypeOK /\ Placed /\ Retries /\ Written

DiskOK ==
  /\ fat \in [Volumes -> BOOLEAN]
  /\ file \in [Volumes -> [Files -> Content]]
  /\ flash \in [Volumes -> [Files -> SUBSET Content]]
  /\ \A v \in Volumes, f \in Files : file[v][f] \in flash[v][f]
  /\ risky \subseteq Volumes
  /\ drive \in [Letters -> Volumes \cup {None}]

-------------------------------------------------------------------------------
(* What the operations on drives keep.                                     *)

LEMMA Names ==
  /\ "ini" \in Files /\ "crc" \in Files /\ "mark" \in Files
  /\ "public" \in Volumes /\ "backup" \in Volumes
  /\ "B" \in Letters /\ "C" \in Letters
  /\ Listed[1] = "ini" /\ Listed[2] = "crc" /\ DOMAIN Listed = 1 .. 2 /\ Len(Listed) = 2
  /\ Default \in Versions /\ Default \in Content /\ Missing \in Content
  /\ Partial \in Content /\ Torn \in Content /\ Versions \subseteq Content
BY SettingsAssumption DEF Files, Volumes, Letters, Listed, Default, Versions, Content

LEMMA Apart ==
  /\ Missing \notin Versions /\ Partial \notin Versions /\ Torn \notin Versions
  /\ None \notin Versions /\ Main \notin Tasks
BY SettingsAssumption DEF Versions

LEMMA ForceMountType ==
  ForceMount \in [Letters -> Volumes] /\ ForceMount["B"] = "public" /\ ForceMount["C"] = "backup"
BY DEF ForceMount, Letters, Volumes

LEMMA MountType ==
  ASSUME NEW formatted
  PROVE  Mount(formatted) \in [Letters -> Volumes \cup {None}]
BY DEF Mount, Letters, Volumes

LEMMA WriteType ==
  ASSUME DiskOK, NEW letter \in Letters, drive[letter] \in Volumes,
         NEW D \in SUBSET Files, NEW new \in [D -> Content], Write(letter, new)
  PROVE  DiskOK' /\ drive' = drive /\ fat' = fat
<1> DEFINE v == drive[letter]
<1>1. new \in [DOMAIN new -> Content] /\ DOMAIN new \subseteq Files
  OBVIOUS
<1>2. file' = [file EXCEPT ![v] = [f \in Files |-> IF f \in DOMAIN new THEN new[f] ELSE file[v][f]]]
  BY DEF Write
<1>3. flash' = [flash EXCEPT ![v] = [f \in Files |->
                 IF f \notin DOMAIN new THEN flash[v][f]
                 ELSE flash[v][f] \cup {new[f], Torn} \cup (IF board.fragile THEN {Missing} ELSE {})]]
  BY DEF Write
<1>4. risky' \subseteq Volumes /\ UNCHANGED <<fat, drive>>
  BY DEF Write, DiskOK
<1>5. [f \in Files |-> IF f \in DOMAIN new THEN new[f] ELSE file[v][f]] \in [Files -> Content]
  BY <1>1 DEF DiskOK
<1>6. [f \in Files |-> IF f \notin DOMAIN new THEN flash[v][f]
                 ELSE flash[v][f] \cup {new[f], Torn} \cup (IF board.fragile THEN {Missing} ELSE {})]
        \in [Files -> SUBSET Content]
  BY <1>1, Names DEF DiskOK
<1>7. file' \in [Volumes -> [Files -> Content]] /\ flash' \in [Volumes -> [Files -> SUBSET Content]]
  BY <1>2, <1>3, <1>5, <1>6 DEF DiskOK
<1>8. \A w \in Volumes, f \in Files : file'[w][f] \in flash'[w][f]
  <2> TAKE w \in Volumes, f \in Files
  <2>1. CASE w = v
    <3>1. file'[w][f] = IF f \in DOMAIN new THEN new[f] ELSE file[v][f]
      BY <1>2, <2>1 DEF DiskOK
    <3>2. flash'[w][f] = IF f \notin DOMAIN new THEN flash[v][f]
                 ELSE flash[v][f] \cup {new[f], Torn} \cup (IF board.fragile THEN {Missing} ELSE {})
      BY <1>3, <2>1 DEF DiskOK
    <3> QED BY <3>1, <3>2, <2>1 DEF DiskOK
  <2>2. CASE w # v
    <3>1. file'[w] = file[w] /\ flash'[w] = flash[w]
      BY <1>2, <1>3, <2>2 DEF DiskOK
    <3> QED BY <3>1 DEF DiskOK
  <2> QED BY <2>1, <2>2
<1> QED BY <1>4, <1>7, <1>8 DEF DiskOK

LEMMA PutType ==
  ASSUME DiskOK, NEW letter \in Letters, drive[letter] \in Volumes,
         NEW f \in Files, NEW c \in Content, Put(letter, f, c)
  PROVE  DiskOK' /\ drive' = drive /\ fat' = fat
<1>1. {f} \in SUBSET Files /\ [g \in {f} |-> c] \in [{f} -> Content]
  OBVIOUS
<1> QED BY <1>1, WriteType DEF Put

LEMMA FlushType ==
  ASSUME DiskOK,
         flash' = [v \in Volumes |-> [f \in Files |-> {file[v][f]}]], risky' = {},
         UNCHANGED <<fat, file, drive>>
  PROVE  DiskOK'
BY DEF DiskOK

LEMMA FormatType ==
  ASSUME DiskOK, NEW v \in Volumes, Format(v)
  PROVE  DiskOK' /\ drive' = ForceMount
<1>1. NoFiles \in [Files -> Content]
  BY Names DEF NoFiles
<1>2. [f \in Files |-> flash[v][f] \cup {Missing, Torn}] \in [Files -> SUBSET Content]
  BY Names DEF DiskOK
<1>3. fat' \in [Volumes -> BOOLEAN] /\ risky' \subseteq Volumes
  BY DEF Format, DiskOK
<1>4. file' \in [Volumes -> [Files -> Content]] /\ flash' \in [Volumes -> [Files -> SUBSET Content]]
  BY <1>1, <1>2 DEF Format, DiskOK
<1>5. \A w \in Volumes, f \in Files : file'[w][f] \in flash'[w][f]
  BY DEF Format, DiskOK, NoFiles
<1> QED BY <1>3, <1>4, <1>5, ForceMountType DEF Format, DiskOK

LEMMA HoldsType ==
  ASSUME DiskOK, NEW letter \in Letters, NEW f \in Files
  PROVE  Holds(letter, f) \in Content /\ (Exists(letter, f) => drive[letter] \in Volumes)
BY Names DEF DiskOK, Holds, Exists

-------------------------------------------------------------------------------
(* Type correctness.                                                       *)

LEMMA GotoType ==
  ASSUME Placed, NEW t \in Threads, NEW l \in Booting \cup Settled \cup Saving, Goto(t, l)
  PROVE  /\ pc' \in [Threads -> Booting \cup Settled \cup Saving]
         /\ pc'[t] = l /\ \A u \in Threads \ {t} : pc'[u] = pc[u]
BY DEF Placed, Goto

LEMMA MainGoes ==
  ASSUME Placed, NEW l \in Booting \cup Settled, Goto(Main, l)
  PROVE  Placed' /\ pc'[Main] = l
<1>1. Main \in Threads
  BY DEF Threads
<1> QED BY <1>1, GotoType, Apart DEF Placed, Threads

LEMMA TaskGoes ==
  ASSUME Placed, NEW t \in Tasks, NEW l \in Saving, Goto(t, l)
  PROVE  Placed' /\ pc'[Main] = pc[Main]
<1>1. t \in Threads /\ Main \in Threads \ {t}
  BY Apart DEF Threads
<1> QED BY <1>1, GotoType, Apart DEF Placed, Threads

(* What the steps of the main thread have to show.                         *)
LEMMA MainStep ==
  ASSUME TypeInv, DiskOK', NEW l \in Booting \cup Settled, Goto(Main, l),
         index' \in [Threads -> DOMAIN Listed],
         tries' \in 0 .. 3, tries' = 3 => l \in {"reset", "resetFiles", "exit"},
         l \in Settled => drive'["B"] \in Volumes,
         l \in {"defaultPublic", "resetFiles", "defaultBackup"} => drive' = ForceMount,
         UNCHANGED <<save, crashes, board>>
  PROVE  TypeInv'
<1>1. Placed' /\ pc'[Main] = l
  BY MainGoes DEF TypeInv
<1> QED BY <1>1 DEF TypeInv, TypeOK, DiskOK, Retries, Written, save

LEMMA IndexStep ==
  ASSUME index \in [Threads -> DOMAIN Listed], NEW t \in Threads
  PROVE  /\ [index EXCEPT ![t] = 1] \in [Threads -> DOMAIN Listed]
         /\ [index EXCEPT ![t] = (@ % Len(Listed)) + 1] \in [Threads -> DOMAIN Listed]
BY Names

LEMMA BootType == ASSUME TypeInv, Boot PROVE TypeInv'
<1> USE Names, ForceMountType DEF Booting, Settled
<1>0. DiskOK /\ index \in [Threads -> DOMAIN Listed] /\ Main \in Threads /\ tries \in 0 .. 3
      /\ (pc[Main] \notin {"reset", "resetFiles", "exit"} => tries \in 0 .. 2)
  BY DEF TypeInv, TypeOK, DiskOK, Threads, Retries
<1>1. CASE CheckBackup
  <2>1. \E l \in {"formatPublic", "formatBackup", "verify"} : Goto(Main, l)
    BY <1>1 DEF CheckBackup
  <2>2. DiskOK' /\ index' = index /\ tries' = tries
    BY <1>0, <1>1 DEF CheckBackup, disk, DiskOK
  <2>3. pc[Main] = "check" /\ UNCHANGED <<save, crashes, board>>
    BY <1>1 DEF CheckBackup
  <2> QED BY <1>0, <2>1, <2>2, <2>3, MainStep
<1>2. CASE FormatPublic
  <2>1. DiskOK' /\ drive' = ForceMount
    BY <1>0, <1>2, FormatType DEF FormatPublic
  <2>2. CASE pc[Main] = "reset"
    <3>1. Goto(Main, "resetFiles") BY <1>2, <2>2 DEF FormatPublic
    <3> QED BY <1>0, <1>2, <2>1, <3>1, MainStep DEF FormatPublic
  <2>3. CASE pc[Main] = "formatPublic"
    <3>1. Goto(Main, "defaultPublic") BY <1>2, <2>3 DEF FormatPublic
    <3> QED BY <1>0, <1>2, <2>1, <2>3, <3>1, MainStep DEF FormatPublic
  <2> QED BY <1>2, <2>2, <2>3 DEF FormatPublic
<1>3. CASE DefaultPublic
  <2>1. {"ini", "crc"} \in SUBSET Files /\ [f \in {"ini", "crc"} |-> Default] \in [{"ini", "crc"} -> Content]
    OBVIOUS
  <2>2. drive = ForceMount
    BY <1>3 DEF DefaultPublic, TypeInv, Written
  <2>3. DiskOK'
    BY <1>0, <1>3, <2>1, <2>2, WriteType DEF DefaultPublic, RestoreDefault
  <2>4. CASE pc[Main] = "resetFiles"
    <3>1. Goto(Main, "exit") BY <1>3, <2>4 DEF DefaultPublic
    <3> QED BY <1>0, <1>3, <2>3, <3>1, MainStep DEF DefaultPublic
  <2>5. CASE pc[Main] = "defaultPublic"
    <3>1. Goto(Main, "flushDefault") BY <1>3, <2>5 DEF DefaultPublic
    <3> QED BY <1>0, <1>3, <2>3, <2>5, <3>1, MainStep DEF DefaultPublic
  <2> QED BY <1>3, <2>4, <2>5 DEF DefaultPublic
<1>4. CASE FlushDefault
  <2>1. DiskOK' BY <1>0, <1>4, FlushType DEF FlushDefault, Flush
  <2>2. pc[Main] = "flushDefault" /\ Goto(Main, "restore") /\ UNCHANGED <<tries, save, crashes, board>>
    BY <1>4 DEF FlushDefault
  <2>3. index' \in [Threads -> DOMAIN Listed] BY <1>0, <1>4, IndexStep DEF FlushDefault
  <2> QED BY <1>0, <2>1, <2>2, <2>3, MainStep
<1>5. CASE FormatBackup
  <2>1. DiskOK' /\ drive' = ForceMount
    BY <1>0, <1>5, FormatType DEF FormatBackup
  <2>2. pc[Main] = "formatBackup" /\ Goto(Main, "defaultBackup")
        /\ UNCHANGED <<index, tries, save, crashes, board>>
    BY <1>5 DEF FormatBackup
  <2> QED BY <1>0, <2>1, <2>2, MainStep
<1>6. CASE DefaultBackup
  <2>1. Files \in SUBSET Files /\ [f \in Files |-> Default] \in [Files -> Content]
    OBVIOUS
  <2>2. drive = ForceMount
    BY <1>6 DEF DefaultBackup, TypeInv, Written
  <2>3. DiskOK'
    BY <1>0, <1>6, <2>1, <2>2, WriteType DEF DefaultBackup
  <2>4. pc[Main] = "defaultBackup" /\ Goto(Main, "flushBackup")
        /\ UNCHANGED <<index, tries, save, crashes, board>>
    BY <1>6 DEF DefaultBackup
  <2> QED BY <1>0, <2>3, <2>4, MainStep
<1>7. CASE Restore
  <2> DEFINE f == Listed[index[Main]]
  <2>1. f \in Files /\ pc[Main] = "restore" /\ UNCHANGED <<tries, save, crashes, board>>
    BY <1>0, <1>7 DEF Restore
  <2>2. CASE Exists("C", f) /\ Writable("B")
    <3>1. Put("B", f, Holds("C", f)) /\ index' = [index EXCEPT ![Main] = (@ % Len(Listed)) + 1]
          /\ (Goto(Main, "flushRestored") \/ UNCHANGED pc)
      BY <1>7, <2>2 DEF Restore
    <3>2. drive["B"] \in Volumes
      BY <1>0, <2>2 DEF Writable, DiskOK
    <3>3. DiskOK' BY <1>0, <2>1, <3>1, <3>2, PutType, HoldsType
    <3>4. Goto(Main, "flushRestored") \/ Goto(Main, "restore")
      BY <2>1, <3>1 DEF Goto, TypeInv, Placed
    <3> QED BY <1>0, <2>1, <3>1, <3>3, <3>4, MainStep, IndexStep
  <2>3. CASE ~ (Exists("C", f) /\ Writable("B"))
    <3>1. Goto(Main, "exit") /\ UNCHANGED <<disk, index>> BY <1>7, <2>3 DEF Restore
    <3>2. DiskOK' BY <1>0, <3>1 DEF DiskOK, disk
    <3> QED BY <1>0, <2>1, <3>1, <3>2, MainStep
  <2> QED BY <2>2, <2>3
<1>8. CASE FlushRestored
  <2>1. DiskOK' BY <1>0, <1>8, FlushType DEF FlushRestored, Flush
  <2>2. pc[Main] \in {"flushBackup", "flushRestored"} /\ Goto(Main, "verify")
        /\ UNCHANGED <<index, tries, save, crashes, board>>
    BY <1>8 DEF FlushRestored
  <2> QED BY <1>0, <2>1, <2>2, MainStep
<1>9. CASE Verify
  <2>1. DiskOK' /\ pc[Main] = "verify" /\ UNCHANGED <<drive, save, crashes, board>>
        /\ index' \in [Threads -> DOMAIN Listed]
    BY <1>0, <1>9, IndexStep DEF Verify, disk, DiskOK
  <2>2. CASE PublicIntact
    <3>1. Goto(Main, "sync") /\ tries' = tries BY <1>9, <2>2 DEF Verify
    <3>2. Holds("B", "crc") # Missing
      BY <2>2, Apart, SettingsAssumption DEF PublicIntact, Certified
    <3>3. drive["B"] \in Volumes BY <1>0, <3>2 DEF Holds, DiskOK
    <3> QED BY <1>0, <2>1, <3>1, <3>3, MainStep
  <2>3. CASE ~ PublicIntact
    <3>1. tries' = tries + 1 /\ Goto(Main, IF tries' > 2 THEN "reset" ELSE "restore")
      BY <1>9, <2>3 DEF Verify
    <3> QED BY <1>0, <2>1, <3>1, MainStep
  <2> QED BY <2>2, <2>3
<1>10. CASE Sync
  <2> DEFINE f == Listed[index[Main]]
  <2>1. f \in Files /\ pc[Main] = "sync" /\ UNCHANGED <<tries, save, crashes, board>>
    BY <1>0, <1>10 DEF Sync
  <2>2. drive["B"] \in Volumes BY <2>1 DEF TypeInv, Written
  <2>3. CASE Exists("B", f) /\ Exists("C", f) /\ Holds("B", f) # Holds("C", f)
    <3>1. Put("C", f, Holds("B", f)) /\ Goto(Main, "flushSynced") /\ UNCHANGED index
      BY <1>10, <2>3 DEF Sync
    <3>2. DiskOK' /\ drive' = drive BY <1>0, <2>1, <2>3, <3>1, PutType, HoldsType
    <3> QED BY <1>0, <2>1, <2>2, <3>1, <3>2, MainStep
  <2>4. CASE Exists("B", f) /\ Exists("C", f) /\ Holds("B", f) = Holds("C", f)
    <3>1. NextSync /\ Goto(Main, AfterSync) /\ UNCHANGED disk
      BY <1>10, <2>4 DEF Sync
    <3>2. DiskOK' /\ drive' = drive BY <1>0, <3>1 DEF DiskOK, disk
    <3>3. AfterSync \in {"load", "sync"} BY DEF AfterSync
    <3>4. index' \in [Threads -> DOMAIN Listed] BY <1>0, <3>1, IndexStep DEF NextSync
    <3> QED BY <1>0, <2>1, <2>2, <3>1, <3>2, <3>3, <3>4, MainStep
  <2>5. CASE ~ (Exists("B", f) /\ Exists("C", f))
    <3>1. Goto(Main, "exit") /\ UNCHANGED <<disk, index>> BY <1>10, <2>5 DEF Sync
    <3>2. DiskOK' BY <1>0, <3>1 DEF DiskOK, disk
    <3> QED BY <1>0, <2>1, <3>1, <3>2, MainStep
  <2> QED BY <2>3, <2>4, <2>5
<1>11. CASE FlushSynced
  <2>1. DiskOK' BY <1>0, <1>11, FlushType DEF FlushSynced, Flush
  <2>2. pc[Main] = "flushSynced" /\ Goto(Main, AfterSync) /\ NextSync /\ drive' = drive
        /\ UNCHANGED <<tries, save, crashes, board>>
    BY <1>11 DEF FlushSynced, Flush
  <2>3. drive["B"] \in Volumes BY <2>2 DEF TypeInv, Written
  <2>4. AfterSync \in {"load", "sync"} BY DEF AfterSync
  <2>5. index' \in [Threads -> DOMAIN Listed] BY <1>0, <2>2, IndexStep DEF NextSync
  <2> QED BY <1>0, <2>1, <2>2, <2>3, <2>4, <2>5, MainStep
<1>12. CASE ConfigInit
  <2>1. pc[Main] = "load" /\ Goto(Main, "run") BY <1>12 DEF ConfigInit
  <2>2. Placed' /\ pc'[Main] = "run" BY <2>1, MainGoes DEF TypeInv
  <2>3. Loaded \in Versions BY DEF Loaded
  <2> QED BY <1>0, <1>12, <2>1, <2>2, <2>3 DEF ConfigInit, TypeInv, TypeOK, Retries, Written, disk
<1>13. CASE Restart
  <2>1. pc' = [t \in Threads |-> IF t = Main THEN "check" ELSE "idle"] /\ tries' = 0
    BY <1>13 DEF Restart, PowerOn
  <2>2. Placed' /\ pc'[Main] = "check" BY <2>1, Apart, <1>0 DEF Placed, Threads, Saving
  <2>3. DiskOK' BY <1>0, <1>13, MountType DEF Restart, PowerOn, DiskOK
  <2>4. index' \in [Threads -> DOMAIN Listed] BY <1>13 DEF Restart, PowerOn
  <2>5. seen' \in [Tasks -> BOOLEAN] BY <1>13 DEF Restart, PowerOn
  <2>6. Retries' /\ Written' BY <2>1, <2>2 DEF Retries, Written
  <2>7. {config', dict', kept'} \subseteq Versions /\ mutex' \in Tasks \cup {None}
    BY <1>13 DEF Restart, PowerOn, TypeInv, TypeOK
  <2>8. {saving', count'} \subseteq BOOLEAN
    BY <1>13 DEF Restart, PowerOn
  <2> QED BY <1>0, <1>13, <2>1, <2>2, <2>3, <2>4, <2>5, <2>6, <2>7, <2>8
          DEF Restart, PowerOn, TypeInv, TypeOK, DiskOK
<1> QED BY <1>1, <1>2, <1>3, <1>4, <1>5, <1>6, <1>7, <1>8, <1>9, <1>10, <1>11, <1>12, <1>13 DEF Boot

(* What the steps of a saving task have to show.                           *)
LEMMA TaskStep ==
  ASSUME TypeInv, pc[Main] = "run", NEW t \in Tasks, NEW l \in Saving, Goto(t, l),
         DiskOK', drive' = drive, index' \in [Threads -> DOMAIN Listed],
         {config', dict', kept'} \subseteq Versions,
         {saving', count'} \subseteq BOOLEAN, seen' \in [Tasks -> BOOLEAN],
         mutex' \in Tasks \cup {None},
         UNCHANGED <<tries, crashes, board>>
  PROVE  TypeInv'
<1>1. Placed' /\ pc'[Main] = "run"
  BY TaskGoes DEF TypeInv
<1> QED BY <1>1 DEF TypeInv, TypeOK, DiskOK, Retries, Written, Settled

LEMMA SaveType == ASSUME TypeInv, NEW t \in Tasks, SaveTask(t) PROVE TypeInv'
<1> USE Names DEF Saving
<1>0. /\ DiskOK /\ index \in [Threads -> DOMAIN Listed] /\ t \in Threads /\ Main \in Threads
      /\ pc[Main] = "run" /\ drive["B"] \in Volumes
      /\ {config, dict, kept} \subseteq Versions
      /\ {saving, count} \subseteq BOOLEAN /\ seen \in [Tasks -> BOOLEAN]
      /\ mutex \in Tasks \cup {None}
  BY DEF TypeInv, TypeOK, DiskOK, Threads, SaveTask, Written, Settled
<1>1. CASE Begin(t)
  BY <1>0, <1>1, TaskStep DEF Begin, disk, DiskOK
<1>2. CASE SeeCount(t)
  <2>1. seen' \in [Tasks -> BOOLEAN] BY <1>0, <1>2 DEF SeeCount
  <2> QED BY <1>0, <1>2, <2>1, TaskStep DEF SeeCount, disk, DiskOK
<1>3. CASE Collect(t)
  BY <1>0, <1>3, TaskStep DEF Collect, disk, DiskOK
<1>4. CASE Open(t)
  <2>1. CASE Put("B", "ini", Partial) /\ Goto(t, "dump")
    <3>1. DiskOK' /\ drive' = drive BY <1>0, <2>1, PutType
    <3> QED BY <1>0, <1>4, <2>1, <3>1, TaskStep DEF Open, save
  <2>2. CASE Goto(t, "lock") /\ UNCHANGED disk
    BY <1>0, <1>4, <2>2, TaskStep DEF Open, disk, save, DiskOK
  <2> QED BY <1>4, <2>1, <2>2 DEF Open
<1>5. CASE Dump(t)
  <2>1. DiskOK' /\ drive' = drive BY <1>0, <1>5, PutType DEF Dump
  <2> QED BY <1>0, <1>5, <2>1, TaskStep DEF Dump, save
<1>6. CASE Lock(t)
  BY <1>0, <1>6, TaskStep DEF Lock, disk, DiskOK
<1>7. CASE SetFileCrc(t)
  <2>1. PICK c \in Readings(t, "ini") :
           Put("B", "crc", c) \/ UNCHANGED disk
    BY <1>7 DEF SetFileCrc
  <2>2. c \in Content BY <1>0, HoldsType DEF Readings
  <2>3. DiskOK' /\ drive' = drive BY <1>0, <2>1, <2>2, PutType DEF disk, DiskOK
  <2> QED BY <1>0, <1>7, <2>3, TaskStep DEF SetFileCrc, save
<1>8. CASE FlushPublic(t)
  <2>1. DiskOK' /\ drive' = drive BY <1>0, <1>8, FlushType DEF FlushPublic, Flush
  <2>2. index' \in [Threads -> DOMAIN Listed] BY <1>0, <1>8, IndexStep DEF FlushPublic
  <2> QED BY <1>0, <1>8, <2>1, <2>2, TaskStep DEF FlushPublic, save
<1>9. CASE BackupSave(t)
  <2> DEFINE f == Listed[index[t]]
  <2>1. f \in Files /\ pc[t] = "save" /\ UNCHANGED <<tries, save, crashes, board>>
    BY <1>0, <1>9 DEF BackupSave
  <2>2. PICK c \in Readings(t, f) :
          IF c # Missing /\ Writable("C")
          THEN /\ Put("C", f, c)
               /\ index' = [index EXCEPT ![t] = (@ % Len(Listed)) + 1]
               /\ Goto(t, "flushSaved") \/ UNCHANGED pc
          ELSE Goto(Main, "exit") /\ UNCHANGED <<disk, index>>
    BY <1>9 DEF BackupSave
  <2>3. c \in Content BY <1>0, <2>1, HoldsType DEF Readings
  <2>4. CASE c # Missing /\ Writable("C")
    <3>1. drive["C"] \in Volumes BY <1>0, <2>4 DEF Writable, DiskOK
    <3>2. DiskOK' /\ drive' = drive BY <1>0, <2>1, <2>2, <2>3, <2>4, <3>1, PutType
    <3>3. index' \in [Threads -> DOMAIN Listed] BY <1>0, <2>2, <2>4, IndexStep
    <3>4. Goto(t, "flushSaved") \/ Goto(t, "save")
      BY <2>1, <2>2, <2>4 DEF Goto, TypeInv, Placed
    <3> QED BY <1>0, <2>1, <3>2, <3>3, <3>4, TaskStep DEF save
  <2>5. CASE ~ (c # Missing /\ Writable("C"))
    <3>1. Goto(Main, "exit") /\ UNCHANGED <<disk, index>> BY <2>2, <2>5
    <3>2. DiskOK' BY <1>0, <3>1 DEF DiskOK, disk
    <3>3. tries \in 0 .. 2 BY <1>0 DEF TypeInv, TypeOK, Retries
    <3> QED BY <1>0, <2>1, <3>1, <3>2, <3>3, MainStep DEF Booting, Settled
  <2> QED BY <2>4, <2>5
<1>10. CASE FlushSaved(t)
  <2>1. DiskOK' /\ drive' = drive BY <1>0, <1>10, FlushType DEF FlushSaved, Flush
  <2> QED BY <1>0, <1>10, <2>1, TaskStep DEF FlushSaved, save
<1>11. CASE Unlock(t)
  BY <1>0, <1>11, TaskStep DEF Unlock, disk, DiskOK
<1>12. CASE Test(t)
  BY <1>0, <1>12, TaskStep DEF Test, disk, save, DiskOK
<1>13. CASE Clear(t)
  <2>1. Loaded \in Versions BY DEF Loaded
  <2> QED BY <1>0, <1>13, <2>1, TaskStep DEF Clear, disk, DiskOK
<1> QED BY <1>1, <1>2, <1>3, <1>4, <1>5, <1>6, <1>7, <1>8, <1>9, <1>10, <1>11, <1>12, <1>13 DEF SaveTask

LEMMA ConfigSaveType == ASSUME TypeInv, ConfigSave PROVE TypeInv'
<1>1. config' \in Versions
  BY SettingsAssumption DEF ConfigSave, TypeInv, TypeOK, Versions
<1>2. Placed' /\ pc'[Main] = pc[Main]
  <2>1. CASE UNCHANGED pc BY <2>1 DEF TypeInv, Placed
  <2>2. CASE \E t \in Tasks : Goto(t, "begin") BY <2>2, TaskGoes DEF TypeInv, Saving
  <2> QED BY <2>1, <2>2 DEF ConfigSave
<1> QED BY <1>1, <1>2 DEF ConfigSave, TypeInv, TypeOK, Retries, Written, disk

LEMMA CrashType == ASSUME TypeInv, Crash PROVE TypeInv'
<1>0. DiskOK BY DEF TypeInv, TypeOK, DiskOK
<1>1. PICK broken \in SUBSET risky, pub \in Left("public"), bak \in Left("backup") :
        /\ fat' = [v \in Volumes |-> fat[v] /\ v \notin broken]
        /\ file' = [v \in Volumes |-> IF v \in broken THEN NoFiles
                                      ELSE IF v = "public" THEN pub ELSE bak]
  BY DEF Crash, LosePower
<1>2. pub \in [Files -> Content] /\ bak \in [Files -> Content] /\ NoFiles \in [Files -> Content]
  BY Names DEF Left, NoFiles
<1>3. file' \in [Volumes -> [Files -> Content]] /\ fat' \in [Volumes -> BOOLEAN]
  BY <1>1, <1>2
<1>4. flash' = [v \in Volumes |-> [f \in Files |-> {file'[v][f]}]]
  BY DEF Crash
<1>5. flash' \in [Volumes -> [Files -> SUBSET Content]]
      /\ \A v \in Volumes, f \in Files : file'[v][f] \in flash'[v][f]
  BY <1>3, <1>4
<1>6. DiskOK'
  BY <1>3, <1>5, MountType DEF DiskOK, Crash, PowerOn
<1>7. pc' = [t \in Threads |-> IF t = Main THEN "check" ELSE "idle"] /\ tries' = 0
  BY DEF Crash, PowerOn
<1>8. Placed' /\ pc'[Main] = "check"
  BY <1>7, Apart DEF Placed, Threads, Booting, Saving
<1>9. crashes' \in 0 .. MaxCrashes
  BY SettingsAssumption DEF Crash, TypeInv, TypeOK
<1>10. index' \in [Threads -> DOMAIN Listed] /\ seen' \in [Tasks -> BOOLEAN]
  BY Names DEF Crash, PowerOn
<1>11. Retries' /\ Written'
  BY <1>7, <1>8 DEF Retries, Written, Settled
<1>12. {config', dict', kept'} \subseteq Versions /\ mutex' \in Tasks \cup {None}
  BY Names DEF Crash, PowerOn, TypeInv, TypeOK
<1>13. {saving', count'} \subseteq BOOLEAN
  BY DEF Crash, PowerOn
<1> QED BY <1>6, <1>7, <1>8, <1>9, <1>10, <1>11, <1>12, <1>13
        DEF Crash, PowerOn, TypeInv, TypeOK, DiskOK

LEMMA InitType == ASSUME Init PROVE TypeInv
<1>1. NoFiles \in [Files -> Content] /\ [f \in Files |-> Default] \in [Files -> Content]
      /\ [f \in Files |-> IF f = "mark" THEN Missing ELSE Default] \in [Files -> Content]
  BY Names DEF NoFiles
<1>2. file \in [Volumes -> [Files -> Content]]
  BY <1>1 DEF Init
<1>3. flash \in [Volumes -> [Files -> SUBSET Content]]
      /\ \A v \in Volumes, f \in Files : file[v][f] \in flash[v][f]
  BY <1>2 DEF Init
<1>4. Placed /\ pc[Main] = "check"
  BY Apart DEF Init, Placed, Threads, Booting, Saving
<1>5. index \in [Threads -> DOMAIN Listed] /\ seen \in [Tasks -> BOOLEAN]
  BY Names DEF Init
<1>6. Retries /\ Written
  BY <1>4 DEF Init, Retries, Written, Settled
<1>7. drive \in [Letters -> Volumes \cup {None}] /\ crashes \in 0 .. MaxCrashes
  BY MountType, SettingsAssumption DEF Init
<1>8. {config, dict, kept} \subseteq Versions /\ {saving, count} \subseteq BOOLEAN
  BY Names DEF Init
<1> QED BY <1>2, <1>3, <1>4, <1>5, <1>6, <1>7, <1>8, Names DEF Init, TypeInv, TypeOK

THEOREM Typed == Spec => []TypeInv
<1>1. ASSUME TypeInv, [Next]_vars PROVE TypeInv'
  <2>1. CASE UNCHANGED vars
    BY <1>1, <2>1 DEF TypeInv, TypeOK, Placed, Retries, Written, vars, disk, save
  <2> QED BY <1>1, <2>1, BootType, SaveType, ConfigSaveType, CrashType DEF Next
<1> QED BY <1>1, InitType, PTL DEF Spec

(* Every variable of the settings keeps its type, on every kind of board,  *)
(* with any number of tasks, versions and power losses (config.c,          *)
(* backup.c, main.c).                                                      *)
THEOREM TypeCorrect == Spec => []TypeOK
BY Typed, PTL DEF TypeInv

-------------------------------------------------------------------------------
(* Boards whose first boot is over and whose user waits for each save to   *)
(* end (Orderly).  If a power loss cannot break a volume the invariant     *)
(* holds after any number of them.  If it can, it holds after two: by the  *)
(* third one the backup may have lost the mark that tells which of the     *)
(* volumes is the good one.                                                *)

Limited  == board.fragile => crashes <= 2
Fine     == board.fragile => crashes < 2   \* the recovery was not interrupted
Pristine == board.fragile => crashes = 0   \* no volume was ever broken
Formatting == {"formatPublic", "defaultPublic", "flushDefault",
               "formatBackup", "defaultBackup", "flushBackup"}

Both       == fat["public"] /\ fat["backup"] /\ drive = ForceMount
Present(v) == file[v]["ini"] # Missing /\ file[v]["crc"] # Missing
Clean      == risky = {} /\ \A v \in Volumes, f \in Files : flash[v][f] = {file[v][f]}
Same(f)    == file["public"][f] = file["backup"][f]
Settle     == Clean /\ Both /\ Same("ini") /\ Same("crc") /\ Solid("public")
Marked     == Missing \notin flash["backup"]["mark"]

(* Nothing certifies a file that is being written; and where no volume can *)
(* break, no listed file is ever lost.                                     *)
Sane ==
  /\ \A v \in Volumes : flash[v]["crc"] \subseteq Versions \cup {Torn, Missing}
  /\ file["public"]["mark"] = Missing
  /\ ~ board.fragile => risky = {} /\ \A v \in Volumes, f \in {"ini", "crc"} : Missing \notin flash[v][f]

(* The backup that may have to recover the public volume bears its mark.   *)
MarkKept ==
  Fine /\ fat["backup"] /\ pc[Main] \notin {"defaultBackup", "flushBackup"} => Marked

Disks == Sane /\ MarkKept /\ (Pristine => Both /\ pc[Main] \notin Formatting)

(* How far each part of the boot has got: while one volume is formatted or *)
(* written, the other one is solid.                                        *)
FromBackup == {"formatPublic", "defaultPublic", "flushDefault", "restore", "flushRestored"}
FromPublic == {"formatBackup", "defaultBackup", "flushBackup", "sync", "flushSynced"}

Checking ==
  /\ Clean /\ drive = Mount(fat)
  /\ \/ Solid("public")
     \/ Solid("backup") /\ (fat["public"] \/ file["backup"]["mark"] # Missing)
  /\ Pristine => Present("public") /\ Present("backup")

Verifying ==
  /\ Clean /\ Present("public") /\ Present("backup")
  /\ \/ Solid("public")
     \/ Solid("backup") /\ tries = 0

Recovering ==
  /\ pc[Main] \notin {"reset", "resetFiles", "exit"}
  /\ tries \in {0, 1} /\ (pc[Main] = "check" => tries = 0)
  /\ pc[Main] = "check" => Checking
  /\ pc[Main] \in FromBackup => Solid("backup")
  /\ pc[Main] \in FromPublic => Solid("public")
  /\ pc[Main] \notin {"check", "formatPublic", "formatBackup"} => Both
  /\ pc[Main] = "flushBackup" => \A f \in Files : file["backup"][f] = Default
  /\ pc[Main] = "verify" => Verifying
  /\ pc[Main] = "restore" /\ index[Main] = 2 => Same("ini")
  /\ pc[Main] = "flushRestored" => Same("ini") /\ Same("crc")
  /\ pc[Main] = "sync" => Clean /\ Present("backup") /\ (index[Main] = 2 => Same("ini"))
  /\ pc[Main] = "flushSynced" => Present("backup") /\ Same("ini") /\ (index[Main] = 2 => Same("crc"))
  /\ pc[Main] = "load" => Settle

Quiet(t) == pc[t] \in {"idle", "begin", "count", "collect", "open", "unlock", "test", "clear"}

(* How far the one save has got.                                           *)
Saves ==
  /\ \A t \in Tasks : pc[t] # "idle" => pc[Main] = "run" /\ \A u \in Tasks : pc[u] # "idle" => u = t
  /\ pc[Main] = "run" /\ (\A t \in Tasks : Quiet(t)) => Settle
  /\ \A t \in Tasks :
       /\ pc[t] \in {"dump", "lock", "crc", "flush"} =>
            Solid("backup") /\ file["public"]["crc"] \in Versions
       /\ pc[t] \in {"lock", "crc", "flush"} => file["public"]["ini"] = dict
       /\ pc[t] = "flush" => file["public"]["crc"] = dict
       /\ pc[t] \in {"save", "flushSaved"} => Solid("public")
       /\ pc[t] = "save" /\ index[t] = 2 => Same("ini")
       /\ pc[t] = "flushSaved" => Same("ini") /\ Same("crc")

(* What a power loss leaves of a volume is not older than the last         *)
(* finished save: of the volume that is not being made anew.               *)
Fresh(v) == \A f \in {"ini", "crc"} : \A n \in flash[v][f] \cap Versions : kept <= n
Bounded  == \A v \in Volumes, f \in {"ini", "crc"} : \A n \in flash[v][f] \cap Versions : n <= config

BootAges ==
  /\ Pristine \/ (Fine /\ pc[Main] \in {"check", "run"}) => Fresh("public") /\ Fresh("backup")
  /\ Fine /\ pc[Main] \in FromBackup => Fresh("backup")
  /\ Fine /\ pc[Main] \in FromPublic \cup {"load"} => Fresh("public")
  /\ Fine /\ pc[Main] = "verify" => Fresh("public") /\ (Solid("public") \/ Fresh("backup"))

RunAges ==
  Fine =>
    /\ pc[Main] = "run" => Bounded /\ kept <= config
    /\ \A t \in Tasks :
         pc[t] \in {"open", "dump", "lock", "crc", "flush"} => kept <= dict /\ dict <= config

Rest   == Disks /\ Recovering /\ Saves /\ BootAges /\ RunAges
OrdInv == TypeInv /\ Orderly /\ Limited /\ Rest

-------------------------------------------------------------------------------
(* What the operations on drives do to the volumes.                        *)

(* A step leaves the volume w as it is.                                    *)
Untouched(w) ==
  /\ fat'[w] = fat[w] /\ file'[w] = file[w] /\ flash'[w] = flash[w]
  /\ w \in risky' => w \in risky

LEMMA UntouchedKeeps ==
  ASSUME NEW w \in Volumes, Untouched(w)
  PROVE  /\ Solid(w) => Solid(w)'
         /\ Fresh(w) /\ kept' = kept => Fresh(w)'
         /\ Present(w) => Present(w)'
<1>1. Solid(w) => Solid(w)' BY DEF Untouched, Solid
<1>2. Fresh(w) /\ kept' = kept => Fresh(w)' BY DEF Untouched, Fresh
<1>3. Present(w) => Present(w)' BY DEF Untouched, Present
<1> QED BY <1>1, <1>2, <1>3

LEMMA SolidHolds ==
  ASSUME TypeInv, NEW v \in Volumes, Solid(v)
  PROVE  /\ file[v]["ini"] \in Versions /\ file[v]["crc"] = file[v]["ini"] /\ Present(v)
         /\ flash[v]["ini"] = {file[v]["ini"]} /\ flash[v]["crc"] = {file[v]["ini"]}
<1>1. PICK n \in Versions : flash[v]["ini"] = {n} /\ flash[v]["crc"] = {n}
  BY DEF Solid
<1>2. file[v]["ini"] = n /\ file[v]["crc"] = n
  BY <1>1, Names DEF TypeInv, TypeOK
<1> QED BY <1>1, <1>2, Apart DEF Present

LEMMA WriteEffect ==
  ASSUME TypeInv, drive = ForceMount, NEW l \in Letters, NEW new, DOMAIN new \subseteq Files,
         Write(l, new)
  PROVE  /\ \A g \in Files :
              /\ file'[ForceMount[l]][g] = IF g \in DOMAIN new THEN new[g] ELSE file[ForceMount[l]][g]
              /\ flash'[ForceMount[l]][g] =
                   IF g \notin DOMAIN new THEN flash[ForceMount[l]][g]
                   ELSE flash[ForceMount[l]][g] \cup {new[g], Torn}
                          \cup (IF board.fragile THEN {Missing} ELSE {})
         /\ \A w \in Volumes \ {ForceMount[l]} : Untouched(w)
         /\ UNCHANGED <<fat, drive>>
         /\ ~ board.fragile => risky' = risky
<1> DEFINE v == ForceMount[l]
<1>1. v \in Volumes /\ drive[l] = v
      /\ file \in [Volumes -> [Files -> Content]] /\ flash \in [Volumes -> [Files -> SUBSET Content]]
  BY ForceMountType DEF TypeInv, TypeOK
<1>2. file' = [file EXCEPT ![v] = [g \in Files |-> IF g \in DOMAIN new THEN new[g] ELSE file[v][g]]]
  BY <1>1 DEF Write
<1>3. flash' = [flash EXCEPT ![v] = [g \in Files |->
                 IF g \notin DOMAIN new THEN flash[v][g]
                 ELSE flash[v][g] \cup {new[g], Torn} \cup (IF board.fragile THEN {Missing} ELSE {})]]
  BY <1>1 DEF Write
<1>4. UNCHANGED <<fat, drive>> /\ risky' = IF board.fragile THEN risky \cup {v} ELSE risky
  BY <1>1 DEF Write
<1>5. \A g \in Files : file'[v][g] = IF g \in DOMAIN new THEN new[g] ELSE file[v][g]
  BY <1>1, <1>2
<1>6. \A g \in Files :
        flash'[v][g] = IF g \notin DOMAIN new THEN flash[v][g]
                       ELSE flash[v][g] \cup {new[g], Torn} \cup (IF board.fragile THEN {Missing} ELSE {})
  BY <1>1, <1>3
<1>7. \A w \in Volumes \ {v} : file'[w] = file[w] /\ flash'[w] = flash[w]
  BY <1>1, <1>2, <1>3
<1>8. \A w \in Volumes \ {v} : Untouched(w)
  BY <1>4, <1>7 DEF Untouched
<1> QED BY <1>4, <1>5, <1>6, <1>8

LEMMA PutEffect ==
  ASSUME TypeInv, Sane, drive = ForceMount, NEW l \in Letters, NEW f \in {"ini", "crc"},
         NEW c \in Content \ {Missing}, f = "crc" => c \in Versions, Put(l, f, c)
  PROVE  /\ file'[ForceMount[l]][f] = c
         /\ flash'[ForceMount[l]][f] \subseteq flash[ForceMount[l]][f] \cup {c, Torn, Missing}
         /\ \A g \in Files \ {f} : /\ file'[ForceMount[l]][g] = file[ForceMount[l]][g]
                                   /\ flash'[ForceMount[l]][g] = flash[ForceMount[l]][g]
         /\ \A w \in Volumes \ {ForceMount[l]} : Untouched(w)
         /\ UNCHANGED <<fat, drive>>
         /\ UNCHANGED board => Sane'
<1> DEFINE v == ForceMount[l]
           new == [g \in {f} |-> c]
<1>1. DOMAIN new = {f} /\ new[f] = c /\ f \in Files /\ v \in Volumes
  BY Names, ForceMountType
<1>2. Write(l, new) BY DEF Put
<1> HIDE DEF new
<1>3. /\ \A g \in Files :
           /\ file'[v][g] = IF g \in DOMAIN new THEN new[g] ELSE file[v][g]
           /\ flash'[v][g] = IF g \notin DOMAIN new THEN flash[v][g]
                             ELSE flash[v][g] \cup {new[g], Torn} \cup (IF board.fragile THEN {Missing} ELSE {})
      /\ \A w \in Volumes \ {v} : Untouched(w)
      /\ UNCHANGED <<fat, drive>>
      /\ ~ board.fragile => risky' = risky
  BY <1>1, <1>2, WriteEffect
<1>4. file'[v][f] = c
      /\ flash'[v][f] = flash[v][f] \cup {c, Torn} \cup (IF board.fragile THEN {Missing} ELSE {})
  BY <1>1, <1>3
<1>5. \A g \in Files \ {f} : file'[v][g] = file[v][g] /\ flash'[v][g] = flash[v][g]
  BY <1>1, <1>3
<1>6. ASSUME UNCHANGED board PROVE Sane'
  <2>1. ASSUME NEW w \in Volumes PROVE flash'[w]["crc"] \subseteq Versions \cup {Torn, Missing}
    BY <1>3, <1>4, <1>5, Names DEF Sane, Untouched
  <2>2. file'["public"]["mark"] = Missing
    BY <1>3, <1>5, Names DEF Sane, Untouched
  <2>3. ASSUME ~ board.fragile, NEW w \in Volumes, NEW g \in {"ini", "crc"} PROVE Missing \notin flash'[w][g]
    BY <1>3, <1>4, <1>5, <2>3, SettingsAssumption, Names DEF Sane, Untouched
  <2> QED BY <1>3, <1>6, <2>1, <2>2, <2>3 DEF Sane
<1> QED BY <1>3, <1>4, <1>5, <1>6

LEMMA FlushEffect ==
  ASSUME TypeInv, Sane, Flush, UNCHANGED board
  PROVE  /\ Clean' /\ Sane' /\ UNCHANGED <<fat, file, drive>>
         /\ \A v \in Volumes : Solid(v) => Solid(v)'
         /\ kept' = kept => \A v \in Volumes : Fresh(v) => Fresh(v)'
         /\ config' = config => (Bounded => Bounded')
         /\ Marked => Marked'
<1> USE Names
<1>1. /\ \A v \in Volumes, f \in Files : flash'[v][f] = {file[v][f]}
      /\ risky' = {} /\ UNCHANGED <<fat, file, drive>>
  BY DEF Flush
<1>2. \A v \in Volumes, f \in Files : file[v][f] \in flash[v][f]
  BY DEF TypeInv, TypeOK
<1>3. Clean' BY <1>1 DEF Clean
<1>4. Sane'
  <2>1. \A v \in Volumes : flash'[v]["crc"] \subseteq Versions \cup {Torn, Missing}
    BY <1>1, <1>2 DEF Sane
  <2>2. ASSUME ~ board.fragile, NEW v \in Volumes, NEW f \in {"ini", "crc"} PROVE Missing \notin flash'[v][f]
    BY <1>1, <1>2, <2>2 DEF Sane
  <2> QED BY <1>1, <2>1, <2>2 DEF Sane
<1>5. ASSUME NEW v \in Volumes, Solid(v) PROVE Solid(v)'
  <2>1. PICK n \in Versions : flash[v]["ini"] = {n} /\ flash[v]["crc"] = {n} BY <1>5 DEF Solid
  <2>2. file[v]["ini"] = n /\ file[v]["crc"] = n BY <1>2, <2>1
  <2>3. flash'[v]["ini"] = {n} /\ flash'[v]["crc"] = {n} BY <1>1, <2>2
  <2> QED BY <1>1, <1>5, <2>3 DEF Solid
<1>6. ASSUME kept' = kept, NEW v \in Volumes, Fresh(v) PROVE Fresh(v)'
  BY <1>1, <1>2, <1>6 DEF Fresh
<1>7. ASSUME config' = config, Bounded PROVE Bounded'
  BY <1>1, <1>2, <1>7 DEF Bounded
<1>8. Marked => Marked' BY <1>1, <1>2 DEF Marked
<1> QED BY <1>1, <1>3, <1>4, <1>5, <1>6, <1>7, <1>8

LEMMA FormatEffect ==
  ASSUME TypeInv, Sane, board.fragile, NEW v \in Volumes, Format(v), UNCHANGED board
  PROVE  /\ fat'[v] /\ drive' = ForceMount /\ Sane'
         /\ \A w \in Volumes \ {v} : Untouched(w)
<1> USE Names
<1>1. /\ fat' = [fat EXCEPT ![v] = TRUE] /\ file' = [file EXCEPT ![v] = NoFiles]
      /\ flash' = [flash EXCEPT ![v] = [f \in Files |-> flash[v][f] \cup {Missing, Torn}]]
      /\ risky' = risky \cup {v} /\ drive' = ForceMount
  BY DEF Format
<1>2. /\ fat \in [Volumes -> BOOLEAN] /\ file \in [Volumes -> [Files -> Content]]
      /\ flash \in [Volumes -> [Files -> SUBSET Content]]
  BY DEF TypeInv, TypeOK
<1>3. fat'[v] /\ file'[v] = NoFiles /\ flash'[v]["crc"] = flash[v]["crc"] \cup {Missing, Torn}
  BY <1>1, <1>2
<1>4. \A w \in Volumes \ {v} : fat'[w] = fat[w] /\ file'[w] = file[w] /\ flash'[w] = flash[w]
  BY <1>1, <1>2
<1>5. \A w \in Volumes \ {v} : Untouched(w)
  BY <1>1, <1>4 DEF Untouched
<1>6. Sane'
  <2>1. ASSUME NEW w \in Volumes PROVE flash'[w]["crc"] \subseteq Versions \cup {Torn, Missing}
    BY <1>3, <1>4 DEF Sane
  <2>2. file'["public"]["mark"] = Missing
    BY <1>3, <1>4 DEF Sane, NoFiles
  <2> QED BY <2>1, <2>2 DEF Sane
<1> QED BY <1>1, <1>3, <1>5, <1>6


(* Factory files on a volume that is being made anew.                      *)
LEMMA DefaultEffect ==
  ASSUME TypeInv, Sane, drive = ForceMount, board.fragile, NEW l \in Letters,
         NEW D \in SUBSET Files, l = "B" => "mark" \notin D,
         Write(l, [f \in D |-> Default]), UNCHANGED board
  PROVE  /\ Sane' /\ UNCHANGED <<fat, drive>>
         /\ \A f \in D : file'[ForceMount[l]][f] = Default
         /\ \A w \in Volumes \ {ForceMount[l]} : Untouched(w)
<1> DEFINE v == ForceMount[l]
           new == [f \in D |-> Default]
<1>1. DOMAIN new = D /\ (\A f \in D : new[f] = Default) /\ v \in Volumes
  BY ForceMountType
<1>2. Write(l, new) OBVIOUS
<1> HIDE DEF new
<1>3. /\ \A g \in Files :
           /\ file'[v][g] = IF g \in DOMAIN new THEN new[g] ELSE file[v][g]
           /\ flash'[v][g] = IF g \notin DOMAIN new THEN flash[v][g]
                             ELSE flash[v][g] \cup {new[g], Torn} \cup (IF board.fragile THEN {Missing} ELSE {})
      /\ \A w \in Volumes \ {v} : Untouched(w)
      /\ UNCHANGED <<fat, drive>>
  BY <1>1, <1>2, WriteEffect
<1>4. ASSUME NEW w \in Volumes PROVE flash'[w]["crc"] \subseteq Versions \cup {Torn, Missing}
  <2>1. CASE w = v
    <3>1. flash'[v]["crc"] \subseteq flash[v]["crc"] \cup {Default, Torn, Missing}
      <4>1. "crc" \in D => new["crc"] = Default BY <1>1
      <4>2. flash'[v]["crc"] = IF "crc" \notin DOMAIN new THEN flash[v]["crc"]
                              ELSE flash[v]["crc"] \cup {new["crc"], Torn} \cup (IF board.fragile THEN {Missing} ELSE {})
        BY <1>3, Names
      <4>3. CASE "crc" \in D BY <1>1, <4>1, <4>2, <4>3
      <4>4. CASE "crc" \notin D BY <1>1, <4>2, <4>4
      <4> QED BY <4>3, <4>4
    <3> QED BY <2>1, <3>1, Names DEF Sane
  <2>2. CASE w # v
    BY <1>3, <2>2 DEF Sane, Untouched
  <2> QED BY <2>1, <2>2
<1>5. file'["public"]["mark"] = Missing
  <2>1. CASE l = "B"
    BY <1>1, <1>3, <2>1, Names, ForceMountType DEF Sane
  <2>2. CASE l = "C"
    BY <1>3, <2>2, Names, ForceMountType DEF Sane, Untouched
  <2> QED BY <2>1, <2>2 DEF Letters
<1>6. Sane' BY <1>4, <1>5 DEF Sane
<1> QED BY <1>1, <1>3, <1>6, Names

(* A step that leaves the drives as they are.                              *)
LEMMA StillDisk ==
  ASSUME UNCHANGED <<disk, board>>
  PROVE  /\ \A v \in Volumes : /\ Solid(v) => Solid(v)'
                               /\ Present(v) => Present(v)'
                               /\ Fresh(v) /\ kept' = kept => Fresh(v)'
         /\ (Clean => Clean') /\ (Both => Both') /\ (Settle => Settle')
         /\ (Same("ini") => Same("ini")') /\ (Same("crc") => Same("crc")')
         /\ (Sane => Sane') /\ (Marked => Marked') /\ (Bounded /\ config' = config => Bounded')
BY Names DEF disk, Solid, Present, Fresh, Clean, Both, Settle, Same, Sane, Marked, Bounded

(* Drives that both are there are the volumes they were named for.         *)
LEMMA BothHold ==
  ASSUME TypeInv, Both
  PROVE  /\ \A f \in Files : Holds("B", f) = file["public"][f] /\ Holds("C", f) = file["backup"][f]
         /\ Writable("B") /\ Writable("C")
BY ForceMountType, SettingsAssumption, Names DEF Holds, Writable, Both

(* What FatMount makes of the volumes that are formatted.                  *)
LEMMA Mounts ==
  ASSUME drive = Mount(fat), fat \in [Volumes -> BOOLEAN]
  PROVE  /\ drive["C"] # None => Both
         /\ drive["B"] = "backup" => ~ fat["public"]
         /\ ~ fat["public"] /\ fat["backup"] => drive["B"] = "backup"
         /\ fat["public"] /\ fat["backup"] => Both
         /\ drive["B"] \in {"public", "backup", None}
BY SettingsAssumption DEF Mount, Both, ForceMount, Letters, Volumes

LEMMA SettleMeans ==
  ASSUME TypeInv, Settle
  PROVE  LET n == file["public"]["ini"] IN
           /\ n \in Versions /\ Solid("backup") /\ Present("public") /\ Present("backup")
           /\ \A v \in Volumes, f \in {"ini", "crc"} : file[v][f] = n /\ flash[v][f] = {n}
<1> DEFINE n == file["public"]["ini"]
<1>1. n \in Versions /\ file["public"]["crc"] = n /\ Present("public")
  BY SolidHolds, Names DEF Settle
<1>2. file["backup"]["ini"] = n /\ file["backup"]["crc"] = n
  BY <1>1 DEF Settle, Same
<1>3. \A v \in Volumes, f \in {"ini", "crc"} : file[v][f] = n
  BY <1>1, <1>2 DEF Volumes
<1>4. \A v \in Volumes, f \in {"ini", "crc"} : flash[v][f] = {n}
  BY <1>3, Names DEF Settle, Clean
<1>5. Solid("backup")
  BY <1>1, <1>4, Names DEF Solid, Settle, Clean, Both
<1>6. Present("backup")
  BY <1>1, <1>2, Apart DEF Present
<1> QED BY <1>1, <1>3, <1>4, <1>5, <1>6

(* While the board boots no task runs.                                     *)
LEMMA BootRest ==
  ASSUME OrdInv, pc[Main] # "run", NEW l \in Booting \cup Settled, Goto(Main, l), l # "run",
         pc'[Main] = l => Disks' /\ Recovering' /\ BootAges'
  PROVE  Rest'
<1>1. \A t \in Tasks : pc[t] = "idle"
  BY DEF OrdInv, Rest, Saves
<1>2. pc'[Main] = l /\ \A t \in Tasks : pc'[t] = "idle"
  <2>1. Main \in Threads /\ l \in Booting \cup Settled \cup Saving /\ Placed
    BY DEF OrdInv, TypeInv, Threads
  <2>2. pc'[Main] = l /\ \A u \in Threads \ {Main} : pc'[u] = pc[u]
    BY <2>1, GotoType
  <2> QED BY <1>1, <2>2, Apart DEF Threads
<1>3. Saves' BY <1>2 DEF Saves
<1>4. RunAges' BY <1>2 DEF RunAges
<1> QED BY <1>2, <1>3, <1>4 DEF Rest

(* A file of a solid volume is not older than the last finished save.      *)
LEMMA SolidFresh ==
  ASSUME TypeInv, NEW v \in Volumes, Solid(v), Fresh(v)
  PROVE  kept <= file[v]["ini"] /\ kept <= file[v]["crc"]
BY SolidHolds DEF Fresh

(* Writing a file that is not older leaves the volume as fresh.            *)
LEMMA PutFresh ==
  ASSUME NEW v \in Volumes, NEW f \in {"ini", "crc"}, NEW c, c \in Versions => kept <= c,
         flash'[v][f] \subseteq flash[v][f] \cup {c, Torn, Missing},
         \A g \in Files \ {f} : flash'[v][g] = flash[v][g],
         kept' = kept, Fresh(v)
  PROVE  Fresh(v)'
<1> SUFFICES ASSUME NEW g \in {"ini", "crc"}, NEW n \in flash'[v][g] \cap Versions
             PROVE  kept <= n
  BY DEF Fresh
<1>1. CASE g = f BY <1>1, Apart DEF Fresh
<1>2. CASE g # f
  <2>1. g \in Files \ {f} BY <1>2, Names
  <2> QED BY <2>1 DEF Fresh
<1> QED BY <1>1, <1>2

LEMMA OrdCheck ==
  ASSUME OrdInv, CheckBackup
  PROVE  Rest'
<1> USE Names DEF Booting, Settled
<1>0. /\ TypeInv /\ Disks /\ Sane /\ MarkKept /\ Recovering /\ BootAges /\ Placed /\ Checking
      /\ pc[Main] = "check" /\ tries = 0
      /\ UNCHANGED <<disk, index, tries, kept, crashes, board>>
      /\ fat \in [Volumes -> BOOLEAN]
      /\ (Pristine => Both /\ Present("public") /\ Present("backup"))
  BY DEF OrdInv, Rest, Disks, Recovering, Checking, CheckBackup, save, TypeInv, TypeOK
<1>1. /\ Sane' /\ (Marked => Marked') /\ (Both => Both') /\ (Clean => Clean')
      /\ \A v \in Volumes : /\ Solid(v) => Solid(v)'
                            /\ Present(v) => Present(v)'
                            /\ Fresh(v) => Fresh(v)'
  BY <1>0, StillDisk
<1>2. Fine' = Fine /\ Pristine' = Pristine /\ fat' = fat /\ tries' = 0
  BY <1>0 DEF Fine, Pristine, disk
<1>3. MarkKept' BY <1>0, <1>1, <1>2 DEF MarkKept
<1>4. Fine => Fresh("public") /\ Fresh("backup")
  BY <1>0 DEF BootAges
<1>5. /\ drive["C"] # None => Both
      /\ drive["B"] = "backup" => ~ fat["public"]
      /\ ~ fat["public"] /\ fat["backup"] => drive["B"] = "backup"
      /\ drive["B"] \in {"public", "backup", None}
  BY <1>0, Mounts DEF Checking
<1>6. Solid("public") \/ (Solid("backup") /\ (fat["public"] \/ file["backup"]["mark"] # Missing))
  BY <1>0 DEF Checking
<1>p. ASSUME Solid("backup"), ~ Pristine, Goto(Main, "formatPublic") PROVE Rest'
  <2>1. pc'[Main] = "formatPublic" BY <1>0, <1>p, MainGoes
  <2>2. Disks' BY <1>1, <1>2, <1>3, <1>p DEF Disks
  <2>3. Recovering' BY <1>1, <1>2, <1>p, <2>1 DEF Recovering, FromBackup, FromPublic
  <2>4. BootAges' BY <1>1, <1>2, <1>4, <1>p, <2>1 DEF BootAges, FromBackup, FromPublic
  <2> QED BY <1>0, <1>p, <2>2, <2>3, <2>4, BootRest
<1>b. ASSUME Solid("public"), ~ Pristine, Goto(Main, "formatBackup") PROVE Rest'
  <2>1. pc'[Main] = "formatBackup" BY <1>0, <1>b, MainGoes
  <2>2. Disks' BY <1>1, <1>2, <1>3, <1>b DEF Disks
  <2>3. Recovering' BY <1>1, <1>2, <1>b, <2>1 DEF Recovering, FromBackup, FromPublic
  <2>4. BootAges' BY <1>1, <1>2, <1>4, <1>b, <2>1 DEF BootAges, FromBackup, FromPublic
  <2> QED BY <1>0, <1>b, <2>2, <2>3, <2>4, BootRest
<1>7. CASE Exists("B", "mark") /\ Goto(Main, "formatPublic")
  <2>1. drive["B"] # None /\ file[drive["B"]]["mark"] # Missing
    BY <1>7 DEF Exists, Holds
  <2>2. drive["B"] = "backup" BY <1>0, <1>5, <2>1 DEF Sane
  <2>3. ~ fat["public"] BY <1>5, <2>2
  <2>4. Solid("backup") /\ ~ Pristine BY <1>0, <1>6, <2>3 DEF Solid, Both
  <2> QED BY <1>7, <1>p, <2>4
<1>8. CASE ~ Exists("B", "mark") /\ \E i \in DOMAIN Listed :
             /\ Absent(i)
             /\ Goto(Main, IF Exists("C", Listed[i]) THEN "formatPublic" ELSE "formatBackup")
  <2>1. PICK i \in DOMAIN Listed :
             /\ Absent(i)
             /\ Goto(Main, IF Exists("C", Listed[i]) THEN "formatPublic" ELSE "formatBackup")
    BY <1>8
  <2> DEFINE f == Listed[i]
  <2>2. f \in {"ini", "crc"} /\ f \in Files OBVIOUS
  <2>3. CASE Exists("C", f)
    <3>1. Both BY <1>5, <2>3 DEF Exists, Holds
    <3>2. file["public"][f] = Missing
      BY <1>0, <2>1, <2>2, <2>3, <3>1, BothHold DEF Absent, Exists
    <3>3. ~ Present("public") BY <2>2, <3>2 DEF Present
    <3>4. ~ Solid("public") BY <1>0, <3>3, SolidHolds
    <3> QED BY <1>0, <1>6, <1>p, <2>1, <2>3, <3>3, <3>4
  <2>4. CASE ~ Exists("C", f)
    <3>1. ASSUME Both, Present("backup") PROVE FALSE
      <4>1. file["backup"][f] # Missing BY <2>2, <3>1 DEF Present
      <4> QED BY <1>0, <2>2, <2>4, <3>1, <4>1, BothHold DEF Exists
    <3>2. ~ Pristine BY <1>0, <3>1
    <3>3. Solid("public")
      <4>1. SUFFICES ASSUME ~ Solid("public") PROVE FALSE OBVIOUS
      <4>2. Solid("backup") /\ (fat["public"] \/ file["backup"]["mark"] # Missing) BY <1>6, <4>1
      <4>3. Present("backup") /\ fat["backup"] BY <1>0, <4>2, SolidHolds DEF Solid
      <4>4. ~ fat["public"] BY <1>0, <3>1, <4>3, Mounts DEF Checking
      <4>5. drive["B"] = "backup" /\ file["backup"]["mark"] # Missing BY <1>5, <4>2, <4>3, <4>4
      <4>6. Exists("B", "mark") BY <4>5, SettingsAssumption DEF Exists, Holds
      <4> QED BY <1>8, <4>6
    <3> QED BY <1>b, <2>1, <2>4, <3>2, <3>3
  <2> QED BY <2>3, <2>4
<1>9. CASE (\A i \in DOMAIN Listed : ~ Absent(i)) /\ Goto(Main, "verify")
  <2>1. \A f \in {"ini", "crc"} : Exists("B", f) /\ Exists("C", f)
    <3>1. 1 \in DOMAIN Listed /\ 2 \in DOMAIN Listed OBVIOUS
    <3> QED BY <1>9, <3>1 DEF Absent
  <2>2. Both BY <1>5, <2>1 DEF Exists, Holds
  <2>3. Present("public") /\ Present("backup")
    BY <1>0, <2>1, <2>2, BothHold DEF Exists, Present
  <2>4. pc'[Main] = "verify" BY <1>0, <1>9, MainGoes
  <2>5. Disks' BY <1>1, <1>2, <1>3, <2>2, <2>4 DEF Disks, Formatting
  <2>6. Verifying' BY <1>0, <1>1, <1>2, <1>6, <2>3 DEF Verifying, Checking
  <2>7. Recovering' BY <1>1, <1>2, <2>2, <2>4, <2>6 DEF Recovering, FromBackup, FromPublic
  <2>8. BootAges'
    <3>1. Pristine => Fresh("public") /\ Fresh("backup") BY <1>0 DEF BootAges
    <3> QED BY <1>1, <1>2, <1>4, <2>4, <3>1 DEF BootAges, FromBackup, FromPublic
  <2> QED BY <1>0, <1>9, <2>5, <2>7, <2>8, BootRest
<1> QED BY <1>7, <1>8, <1>9 DEF CheckBackup

(* Making one volume anew from the defaults while the other one is solid.  *)
LEMMA OrdFormat ==
  ASSUME OrdInv, FormatPublic \/ DefaultPublic \/ FlushDefault \/ FormatBackup \/ DefaultBackup
  PROVE  Rest'
<1> USE Names DEF Booting, Settled
<1>0. /\ TypeInv /\ Disks /\ Sane /\ MarkKept /\ Recovering /\ BootAges /\ Placed
      /\ UNCHANGED <<tries, kept, crashes, board>> /\ fat \in [Volumes -> BOOLEAN]
      /\ pc[Main] \in {"formatPublic", "defaultPublic", "flushDefault", "formatBackup", "defaultBackup"}
  BY DEF OrdInv, Rest, Disks, Recovering, TypeInv, TypeOK, save,
         FormatPublic, DefaultPublic, FlushDefault, FormatBackup, DefaultBackup
<1>1. ~ Pristine BY <1>0 DEF Disks, Formatting
<1>2. board.fragile BY <1>1 DEF Pristine
<1>3. Fine' = Fine /\ Pristine' = Pristine /\ tries' \in {0, 1}
  BY <1>0 DEF Fine, Pristine, Recovering
<1>4. MarkKept /\ pc[Main] # "defaultBackup" => (Fine /\ fat["backup"] => Marked)
  BY <1>0 DEF MarkKept
<1>5. CASE FormatPublic
  <2>1. pc[Main] = "formatPublic" /\ Format("public") /\ Goto(Main, "defaultPublic")
    BY <1>0, <1>5 DEF FormatPublic
  <2>2. pc'[Main] = "defaultPublic" BY <1>0, <2>1, MainGoes
  <2>3. Solid("backup") /\ (Fine => Fresh("backup")) BY <1>0, <2>1 DEF Recovering, BootAges, FromBackup
  <2>4. fat'["public"] /\ drive' = ForceMount /\ Sane' /\ Untouched("backup")
    BY <1>0, <1>2, <2>1, FormatEffect
  <2>5. Solid("backup")' /\ (Fine => Fresh("backup")') BY <1>0, <2>3, <2>4, UntouchedKeeps
  <2>6. Both' BY <2>4, <2>5 DEF Both, Solid
  <2>7. MarkKept' BY <1>3, <1>4, <1>0, <2>1, <2>4 DEF MarkKept, Marked, Untouched
  <2>8. Disks' BY <1>1, <1>3, <2>4, <2>7 DEF Disks
  <2>9. Recovering' BY <1>3, <2>2, <2>5, <2>6 DEF Recovering, FromBackup, FromPublic
  <2>10. BootAges' BY <1>1, <1>3, <2>2, <2>5 DEF BootAges, FromBackup, FromPublic
  <2> QED BY <1>0, <2>1, <2>8, <2>9, <2>10, BootRest
<1>6. CASE DefaultPublic
  <2>1. pc[Main] = "defaultPublic" /\ Write("B", [f \in {"ini", "crc"} |-> Default])
        /\ Goto(Main, "flushDefault")
    BY <1>0, <1>6 DEF DefaultPublic, RestoreDefault
  <2>2. pc'[Main] = "flushDefault" BY <1>0, <2>1, MainGoes
  <2>3. Solid("backup") /\ Both /\ (Fine => Fresh("backup"))
    BY <1>0, <2>1 DEF Recovering, BootAges, FromBackup
  <2>4. Sane' /\ UNCHANGED <<fat, drive>> /\ \A w \in Volumes \ {ForceMount["B"]} : Untouched(w)
    <3>1. {"ini", "crc"} \in SUBSET Files /\ "mark" \notin {"ini", "crc"} BY DEF Files
    <3>2. drive = ForceMount BY <2>3 DEF Both
    <3> QED BY <1>0, <1>2, <2>1, <3>1, <3>2, DefaultEffect
  <2>5. Untouched("backup") BY <2>4, ForceMountType
  <2>6. Solid("backup")' /\ (Fine => Fresh("backup")') BY <1>0, <2>3, <2>5, UntouchedKeeps
  <2>7. Both' BY <2>3, <2>4 DEF Both
  <2>8. MarkKept' BY <1>3, <1>4, <1>0, <2>1, <2>5 DEF MarkKept, Marked, Untouched
  <2>9. Disks' BY <1>1, <1>3, <2>4, <2>8 DEF Disks
  <2>10. Recovering' BY <1>3, <2>2, <2>6, <2>7 DEF Recovering, FromBackup, FromPublic
  <2>11. BootAges' BY <1>1, <1>3, <2>2, <2>6 DEF BootAges, FromBackup, FromPublic
  <2> QED BY <1>0, <2>1, <2>9, <2>10, <2>11, BootRest
<1>7. CASE FlushDefault
  <2>1. pc[Main] = "flushDefault" /\ Flush /\ Goto(Main, "restore") /\ index'[Main] = 1
    <3>1. index \in [Threads -> 1 .. 2] /\ Main \in Threads BY <1>0 DEF TypeInv, TypeOK, Threads
    <3> QED BY <1>7, <3>1 DEF FlushDefault
  <2>2. pc'[Main] = "restore" BY <1>0, <2>1, MainGoes
  <2>3. Solid("backup") /\ Both /\ (Fine => Fresh("backup"))
    BY <1>0, <2>1 DEF Recovering, BootAges, FromBackup
  <2>4. Sane' /\ UNCHANGED <<fat, drive>> /\ Solid("backup")' /\ (Fine => Fresh("backup")')
        /\ (Marked => Marked')
    BY <1>0, <2>1, <2>3, FlushEffect
  <2>5. Both' BY <2>3, <2>4 DEF Both
  <2>6. MarkKept' BY <1>3, <1>4, <1>0, <2>1, <2>4 DEF MarkKept
  <2>7. Disks' BY <1>1, <1>3, <2>4, <2>6 DEF Disks
  <2>8. Recovering' BY <1>3, <2>1, <2>2, <2>4, <2>5 DEF Recovering, FromBackup, FromPublic
  <2>9. BootAges' BY <1>1, <1>3, <2>2, <2>4 DEF BootAges, FromBackup, FromPublic
  <2> QED BY <1>0, <2>1, <2>7, <2>8, <2>9, BootRest
<1>8. CASE FormatBackup
  <2>1. pc[Main] = "formatBackup" /\ Format("backup") /\ Goto(Main, "defaultBackup")
    BY <1>8 DEF FormatBackup
  <2>2. pc'[Main] = "defaultBackup" BY <1>0, <2>1, MainGoes
  <2>3. Solid("public") /\ (Fine => Fresh("public")) BY <1>0, <2>1 DEF Recovering, BootAges, FromPublic
  <2>4. fat'["backup"] /\ drive' = ForceMount /\ Sane' /\ Untouched("public")
    BY <1>0, <1>2, <2>1, FormatEffect
  <2>5. Solid("public")' /\ (Fine => Fresh("public")') BY <1>0, <2>3, <2>4, UntouchedKeeps
  <2>6. Both' BY <2>4, <2>5 DEF Both, Solid
  <2>7. MarkKept' BY <2>2 DEF MarkKept
  <2>8. Disks' BY <1>1, <1>3, <2>4, <2>7 DEF Disks
  <2>9. Recovering' BY <1>3, <2>2, <2>5, <2>6 DEF Recovering, FromBackup, FromPublic
  <2>10. BootAges' BY <1>1, <1>3, <2>2, <2>5 DEF BootAges, FromBackup, FromPublic
  <2> QED BY <1>0, <2>1, <2>8, <2>9, <2>10, BootRest
<1>9. CASE DefaultBackup
  <2>1. pc[Main] = "defaultBackup" /\ Write("C", [f \in Files |-> Default])
        /\ Goto(Main, "flushBackup")
    BY <1>9 DEF DefaultBackup
  <2>2. pc'[Main] = "flushBackup"
    <3>1. "flushBackup" \in Booting \cup Settled OBVIOUS
    <3> QED BY <1>0, <2>1, <3>1, MainGoes
  <2>3. Solid("public") /\ Both /\ (Fine => Fresh("public"))
    BY <1>0, <2>1 DEF Recovering, BootAges, FromPublic
  <2>4. Sane' /\ UNCHANGED <<fat, drive>> /\ (\A f \in Files : file'[ForceMount["C"]][f] = Default)
        /\ \A w \in Volumes \ {ForceMount["C"]} : Untouched(w)
    <3>2. drive = ForceMount BY <2>3 DEF Both
    <3> QED BY <1>0, <1>2, <2>1, <3>2, DefaultEffect
  <2>5. Untouched("public") /\ \A f \in Files : file'["backup"][f] = Default BY <2>4, ForceMountType
  <2>6. Solid("public")' /\ (Fine => Fresh("public")') BY <1>0, <2>3, <2>5, UntouchedKeeps
  <2>7. Both' BY <2>3, <2>4 DEF Both
  <2>8. MarkKept' BY <2>2 DEF MarkKept
  <2>9. Disks' BY <1>1, <1>3, <2>4, <2>8 DEF Disks
  <2>10. Recovering' BY <1>3, <2>2, <2>5, <2>6, <2>7 DEF Recovering, FromBackup, FromPublic
  <2>11. BootAges' BY <1>1, <1>3, <2>2, <2>6 DEF BootAges, FromBackup, FromPublic
  <2> QED BY <1>0, <2>1, <2>9, <2>10, <2>11, BootRest
<1> QED BY <1>5, <1>6, <1>7, <1>8, <1>9

(* Copying the backup, file by file, to the public drive.                  *)
LEMMA OrdRestore ==
  ASSUME OrdInv, Restore
  PROVE  Rest'
<1> USE Names DEF Booting, Settled
<1> DEFINE f == Listed[index[Main]]
<1>0. /\ TypeInv /\ Disks /\ Sane /\ MarkKept /\ Recovering /\ BootAges /\ Placed
      /\ UNCHANGED <<tries, kept, crashes, board>> /\ Main \in Threads
      /\ index \in [Threads -> 1 .. 2] /\ tries \in {0, 1}
      /\ pc[Main] = "restore" /\ Both /\ Solid("backup")
  BY DEF OrdInv, Rest, Disks, Recovering, TypeInv, TypeOK, save, Threads, Restore, FromBackup
<1>1. Fine' = Fine /\ Pristine' = Pristine BY <1>0 DEF Fine, Pristine
<1>2. /\ f \in {"ini", "crc"} /\ index[Main] \in 1 .. 2
      /\ (index[Main] = 1 => f = "ini") /\ (index[Main] = 2 => f = "crc" /\ Same("ini"))
  BY <1>0 DEF Recovering
<1>3. file["backup"][f] \in Versions /\ file["backup"][f] # Missing
  BY <1>0, <1>2, SolidHolds, Apart
<1>4. Put("B", f, file["backup"][f]) /\ index' = [index EXCEPT ![Main] = (@ % Len(Listed)) + 1]
      /\ (IF index[Main] = Len(Listed) THEN Goto(Main, "flushRestored") ELSE UNCHANGED pc)
  <2>1. Exists("C", f) /\ Writable("B") /\ Holds("C", f) = file["backup"][f]
    BY <1>0, <1>2, <1>3, BothHold DEF Exists
  <2> QED BY <2>1 DEF Restore
<1>5. /\ file'["public"][f] = file["backup"][f]
      /\ flash'["public"][f] \subseteq flash["public"][f] \cup {file["backup"][f], Torn, Missing}
      /\ \A g \in Files \ {f} : file'["public"][g] = file["public"][g]
                                /\ flash'["public"][g] = flash["public"][g]
      /\ Untouched("backup") /\ UNCHANGED <<fat, drive>> /\ Sane'
  <2>1. drive = ForceMount BY <1>0 DEF Both
  <2>2. file["backup"][f] \in Content \ {Missing} BY <1>3
  <2>3. "backup" \in Volumes \ {ForceMount["B"]} BY ForceMountType
  <2> QED BY <1>0, <1>2, <1>3, <1>4, <2>1, <2>2, <2>3, PutEffect, ForceMountType
<1>6. Solid("backup")' /\ (Fresh("backup") => Fresh("backup")') BY <1>0, <1>5, UntouchedKeeps
<1>7. Both' BY <1>0, <1>5 DEF Both
<1>8. Fine => Fresh("backup") BY <1>0 DEF BootAges, FromBackup
<1>9. Pristine => Fresh("public")'
  <2>1. SUFFICES ASSUME Pristine PROVE Fresh("public")' OBVIOUS
  <2>2. Fresh("public") /\ Fresh("backup") BY <1>0, <2>1 DEF BootAges
  <2>3. kept <= file["backup"][f] BY <1>0, <1>2, <2>2, SolidFresh
  <2> QED BY <1>0, <1>2, <1>5, <2>2, <2>3, PutFresh
<1>10. Pristine => Fresh("backup") BY <1>0 DEF BootAges
<1>11. MarkKept => (Fine /\ fat'["backup"] => Marked') BY <1>0, <1>5 DEF MarkKept, Marked, Untouched
<1>12. ASSUME pc'[Main] \in {"restore", "flushRestored"} PROVE Disks' /\ BootAges'
  <2>1. Disks' BY <1>0, <1>1, <1>5, <1>7, <1>11, <1>12 DEF Disks, MarkKept, Formatting
  <2>2. BootAges' BY <1>1, <1>6, <1>8, <1>9, <1>10, <1>12 DEF BootAges, FromBackup, FromPublic
  <2> QED BY <2>1, <2>2
<1>13. CASE index[Main] = 1
  <2>1. UNCHANGED pc /\ index'[Main] = 2 BY <1>0, <1>4, <1>13
  <2>2. Same("ini")' BY <1>2, <1>5, <1>13 DEF Same, Untouched
  <2>3. Recovering' BY <1>0, <1>6, <1>7, <2>1, <2>2 DEF Recovering, FromBackup, FromPublic
  <2>4. Goto(Main, "restore") BY <1>0, <2>1 DEF Goto, Placed
  <2> QED BY <1>0, <1>12, <2>1, <2>3, <2>4, BootRest
<1>14. CASE index[Main] = 2
  <2>1. Goto(Main, "flushRestored") BY <1>4, <1>14
  <2>2. pc'[Main] = "flushRestored" BY <1>0, <2>1, MainGoes
  <2>3. Same("ini")' /\ Same("crc")' BY <1>2, <1>5, <1>14 DEF Same, Untouched
  <2>4. Recovering' BY <1>0, <1>6, <1>7, <2>2, <2>3 DEF Recovering, FromBackup, FromPublic
  <2> QED BY <1>0, <1>12, <2>1, <2>2, <2>4, BootRest
<1> QED BY <1>2, <1>13, <1>14

(* A volume whose flushed files are those of a solid one is solid.         *)
LEMMA FlushSolid ==
  ASSUME TypeInv, NEW v \in Volumes, NEW w \in Volumes, Solid(v), fat[w], Flush,
         file[w]["ini"] = file[v]["ini"], file[w]["crc"] = file[v]["crc"]
  PROVE  Solid(w)' /\ Present(w)' /\ (Fresh(v) /\ kept' = kept => Fresh(w)')
<1> USE Names
<1> DEFINE n == file[v]["ini"]
<1>1. n \in Versions /\ file[v]["crc"] = n /\ flash[v]["ini"] = {n} BY SolidHolds
<1>2. risky' = {} /\ fat' = fat /\ file' = file /\ flash'[w]["ini"] = {n} /\ flash'[w]["crc"] = {n}
  BY <1>1 DEF Flush
<1>3. Solid(w)' BY <1>1, <1>2 DEF Solid
<1>4. Present(w)' BY <1>1, <1>2, Apart DEF Present
<1>5. ASSUME Fresh(v), kept' = kept PROVE Fresh(w)'
  BY <1>1, <1>2, <1>5 DEF Fresh
<1> QED BY <1>3, <1>4, <1>5

LEMMA OrdFlushRestored ==
  ASSUME OrdInv, FlushRestored
  PROVE  Rest'
<1> USE Names DEF Booting, Settled
<1>0. /\ TypeInv /\ Disks /\ Sane /\ MarkKept /\ Recovering /\ BootAges /\ Placed
      /\ UNCHANGED <<tries, kept, crashes, board>> /\ tries \in {0, 1} /\ Both
      /\ pc[Main] \in {"flushBackup", "flushRestored"} /\ Flush /\ Goto(Main, "verify")
  BY DEF OrdInv, Rest, Disks, Recovering, TypeInv, TypeOK, save, FlushRestored
<1>1. Fine' = Fine /\ Pristine' = Pristine BY <1>0 DEF Fine, Pristine
<1>2. /\ Clean' /\ Sane' /\ UNCHANGED <<fat, file, drive>>
      /\ \A v \in Volumes : Solid(v) => Solid(v)'
      /\ \A v \in Volumes : Fresh(v) => Fresh(v)'
      /\ Marked => Marked'
  BY <1>0, FlushEffect
<1>3. Both' BY <1>0, <1>2 DEF Both
<1>4. pc'[Main] = "verify" BY <1>0, MainGoes
<1>5. Pristine => Fresh("public") /\ Fresh("backup") BY <1>0 DEF BootAges
<1>6. CASE pc[Main] = "flushRestored"
  <2>1. Solid("backup") /\ Same("ini") /\ Same("crc") /\ (Fine => Fresh("backup"))
    BY <1>0, <1>6 DEF Recovering, BootAges, FromBackup
  <2>2. Present("backup") BY <1>0, <2>1, SolidHolds
  <2>3. Solid("public")' /\ Present("public")' /\ Present("backup")' /\ (Fine => Fresh("public")')
    BY <1>0, <2>1, <2>1, FlushSolid DEF Same, Both
  <2>4. Verifying' BY <1>2, <2>3 DEF Verifying
  <2>5. Recovering' BY <1>0, <1>3, <1>4, <2>4 DEF Recovering, FromBackup, FromPublic
  <2>6. BootAges' BY <1>1, <1>2, <1>4, <1>5, <2>3 DEF BootAges, FromBackup, FromPublic
  <2>7. MarkKept' BY <1>0, <1>1, <1>2, <1>6 DEF MarkKept
  <2>8. Disks' BY <1>2, <1>3, <1>4, <2>7 DEF Disks, Formatting
  <2> QED BY <1>0, <2>5, <2>6, <2>8, BootRest
<1>7. CASE pc[Main] = "flushBackup"
  <2>1. Solid("public") /\ (Fine => Fresh("public")) /\ \A f \in Files : file["backup"][f] = Default
    BY <1>0, <1>7 DEF Recovering, BootAges, FromPublic
  <2>2. Present("public") BY <1>0, <2>1, SolidHolds
  <2>3. Present("public")' /\ Present("backup")' BY <1>2, <2>1, <2>2, Apart DEF Present
  <2>4. Verifying' BY <1>2, <2>1, <2>3 DEF Verifying
  <2>5. Recovering' BY <1>0, <1>3, <1>4, <2>4 DEF Recovering, FromBackup, FromPublic
  <2>6. BootAges' BY <1>1, <1>2, <1>4, <1>5, <2>1 DEF BootAges, FromBackup, FromPublic
  <2>7. Marked'
    <3>1. flash'["backup"]["mark"] = {Default} BY <1>0, <2>1 DEF Flush
    <3> QED BY <3>1, Apart DEF Marked
  <2>8. Disks' BY <1>2, <1>3, <1>4, <2>7 DEF Disks, Formatting, MarkKept
  <2> QED BY <1>0, <2>5, <2>6, <2>8, BootRest
<1> QED BY <1>0, <1>6, <1>7

LEMMA OrdVerify ==
  ASSUME OrdInv, Verify
  PROVE  Rest'
<1> USE Names DEF Booting, Settled
<1>0. /\ TypeInv /\ Disks /\ Sane /\ MarkKept /\ Recovering /\ BootAges /\ Placed
      /\ UNCHANGED <<disk, kept, crashes, board>> /\ tries \in {0, 1} /\ Both /\ Verifying
      /\ pc[Main] = "verify" /\ index'[Main] = 1
      /\ \A v \in Volumes, g \in Files : file[v][g] \in flash[v][g]
  <2>1. Main \in Threads /\ index \in [Threads -> 1 .. 2] BY DEF OrdInv, TypeInv, TypeOK, Threads
  <2> QED BY <2>1 DEF OrdInv, Rest, Disks, Recovering, TypeInv, TypeOK, save, Verify
<1>1. Fine' = Fine /\ Pristine' = Pristine /\ fat' = fat BY <1>0 DEF Fine, Pristine, disk
<1>2. /\ Sane' /\ (Marked => Marked') /\ Both' /\ (Clean => Clean')
      /\ \A v \in Volumes : /\ Solid(v) => Solid(v)'
                            /\ Present(v) => Present(v)'
                            /\ Fresh(v) => Fresh(v)'
  BY <1>0, StillDisk
<1>3. MarkKept' BY <1>0, <1>1, <1>2 DEF MarkKept
<1>4. /\ Pristine => Fresh("public") /\ Fresh("backup")
      /\ Fine => Fresh("public") /\ (Solid("public") \/ Fresh("backup"))
  BY <1>0 DEF BootAges
<1>h. Holds("B", "ini") = file["public"]["ini"] /\ Holds("B", "crc") = file["public"]["crc"]
  BY <1>0, BothHold
<1>5. CASE PublicIntact
  <2>1. Goto(Main, "sync") /\ tries' = tries BY <1>5 DEF Verify
  <2>2. file["public"]["crc"] \in Versions /\ file["public"]["ini"] = file["public"]["crc"]
    <3>1. file["public"]["crc"] \in Versions \cup {Partial} /\ file["public"]["ini"] = file["public"]["crc"]
      BY <1>h, <1>5 DEF PublicIntact, Certified
    <3>2. file["public"]["crc"] \in Versions \cup {Torn, Missing} BY <1>0 DEF Sane
    <3> QED BY <3>1, <3>2, SettingsAssumption
  <2>3. Solid("public") BY <1>0, <2>2 DEF Solid, Verifying, Clean, Both
  <2>4. pc'[Main] = "sync" BY <1>0, <2>1, MainGoes
  <2>5. Clean' /\ Present("backup")' /\ Solid("public")' BY <1>0, <1>2, <2>3 DEF Verifying
  <2>6. Recovering' BY <1>0, <1>2, <2>1, <2>4, <2>5 DEF Recovering, FromBackup, FromPublic
  <2>7. BootAges' BY <1>1, <1>2, <1>4, <2>4 DEF BootAges, FromBackup, FromPublic
  <2>8. Disks' BY <1>2, <1>3, <2>4 DEF Disks, Formatting
  <2> QED BY <1>0, <2>1, <2>6, <2>7, <2>8, BootRest
<1>6. CASE ~ PublicIntact
  <2>1. ~ Solid("public")
    BY <1>0, <1>h, <1>6, SolidHolds DEF PublicIntact, Certified
  <2>2. tries = 0 /\ Solid("backup") BY <1>0, <2>1 DEF Verifying
  <2>3. tries' = 1 /\ Goto(Main, "restore") BY <1>6, <2>2 DEF Verify
  <2>4. pc'[Main] = "restore" BY <1>0, <2>3, MainGoes
  <2>5. Solid("backup")' /\ (Fine => Fresh("backup")') BY <1>2, <1>4, <2>1, <2>2
  <2>6. Recovering' BY <1>0, <1>2, <2>3, <2>4, <2>5 DEF Recovering, FromBackup, FromPublic
  <2>7. BootAges' BY <1>1, <1>2, <1>4, <2>4, <2>5 DEF BootAges, FromBackup, FromPublic
  <2>8. Disks' BY <1>2, <1>3, <2>4 DEF Disks, Formatting
  <2> QED BY <1>0, <2>3, <2>6, <2>7, <2>8, BootRest
<1> QED BY <1>5, <1>6

(* Where BackupSyncFile goes on when a file is the same on both drives.    *)
LEMMA SyncOn ==
  ASSUME OrdInv, pc[Main] \in {"sync", "flushSynced"}, UNCHANGED <<tries, kept, crashes, board>>,
         Goto(Main, AfterSync), NextSync,
         Sane', MarkKept', Both', Clean', Solid("public")', Present("backup")', Same("ini")',
         index[Main] = 2 => Same("crc")',
         Fine => Fresh("public")', Pristine => Fresh("public")' /\ Fresh("backup")'
  PROVE  Rest'
<1> USE Names DEF Booting, Settled
<1>0. /\ TypeInv /\ Placed /\ tries' \in {0, 1} /\ index[Main] \in 1 .. 2
      /\ index \in [Threads -> 1 .. 2] /\ Main \in Threads
      /\ Fine' = Fine /\ Pristine' = Pristine
  BY DEF OrdInv, Rest, TypeInv, TypeOK, Recovering, Threads, Fine, Pristine
<1>1. CASE index[Main] = 1
  <2>1. Goto(Main, "sync") /\ index'[Main] = 2 BY <1>0, <1>1 DEF NextSync, AfterSync
  <2>2. pc'[Main] = "sync" BY <1>0, <2>1, MainGoes
  <2>3. Disks' BY <2>2 DEF Disks, Formatting
  <2>4. Recovering' BY <1>0, <2>2 DEF Recovering, FromBackup, FromPublic
  <2>5. BootAges' BY <1>0, <2>2 DEF BootAges, FromBackup, FromPublic
  <2> QED BY <1>0, <2>1, <2>3, <2>4, <2>5, BootRest
<1>2. CASE index[Main] = 2
  <2>1. Goto(Main, "load") BY <1>2 DEF AfterSync
  <2>2. pc'[Main] = "load" BY <1>0, <2>1, MainGoes
  <2>3. Settle' BY <1>2 DEF Settle
  <2>4. Disks' BY <2>2 DEF Disks, Formatting
  <2>5. Recovering' BY <1>0, <2>2, <2>3 DEF Recovering, FromBackup, FromPublic
  <2>6. BootAges' BY <1>0, <2>2 DEF BootAges, FromBackup, FromPublic
  <2> QED BY <1>0, <2>1, <2>4, <2>5, <2>6, BootRest
<1> QED BY <1>0, <1>1, <1>2

LEMMA OrdSync ==
  ASSUME OrdInv, Sync
  PROVE  Rest'
<1> USE Names DEF Booting, Settled
<1> DEFINE f == Listed[index[Main]]
<1>0. /\ TypeInv /\ Disks /\ Sane /\ MarkKept /\ Recovering /\ BootAges /\ Placed
      /\ UNCHANGED <<tries, kept, crashes, board>> /\ Main \in Threads
      /\ index \in [Threads -> 1 .. 2] /\ tries \in {0, 1}
      /\ pc[Main] = "sync" /\ Both /\ Solid("public") /\ Clean /\ Present("backup")
  BY DEF OrdInv, Rest, Disks, Recovering, TypeInv, TypeOK, save, Threads, Sync, FromPublic
<1>1. Fine' = Fine /\ Pristine' = Pristine BY <1>0 DEF Fine, Pristine
<1>2. /\ f \in {"ini", "crc"} /\ f \in Files /\ index[Main] \in 1 .. 2
      /\ (index[Main] = 1 => f = "ini") /\ (index[Main] = 2 => f = "crc" /\ Same("ini"))
  BY <1>0 DEF Recovering
<1>3. file["public"][f] \in Versions /\ file["public"][f] # Missing
  BY <1>0, <1>2, SolidHolds, Apart
<1>4. /\ Exists("B", f) /\ Exists("C", f)
      /\ Holds("B", f) = file["public"][f] /\ Holds("C", f) = file["backup"][f]
  BY <1>0, <1>2, <1>3, BothHold DEF Exists, Present
<1>5. (Fine => Fresh("public")) /\ (Pristine => Fresh("public") /\ Fresh("backup"))
  BY <1>0 DEF BootAges, FromPublic
<1>6. CASE Holds("B", f) # Holds("C", f)
  <2>1. Put("C", f, file["public"][f]) /\ Goto(Main, "flushSynced") /\ UNCHANGED index
    BY <1>4, <1>6 DEF Sync
  <2>2. /\ file'["backup"][f] = file["public"][f]
        /\ flash'["backup"][f] \subseteq flash["backup"][f] \cup {file["public"][f], Torn, Missing}
        /\ \A g \in Files \ {f} : file'["backup"][g] = file["backup"][g]
                                  /\ flash'["backup"][g] = flash["backup"][g]
        /\ Untouched("public") /\ UNCHANGED <<fat, drive>> /\ Sane'
    <3>1. drive = ForceMount BY <1>0 DEF Both
    <3>2. file["public"][f] \in Content \ {Missing} BY <1>3
    <3>3. "public" \in Volumes \ {ForceMount["C"]} BY ForceMountType
    <3> QED BY <1>0, <1>2, <1>3, <2>1, <3>1, <3>2, <3>3, PutEffect, ForceMountType
  <2>3. Solid("public")' /\ (Fresh("public") => Fresh("public")') BY <1>0, <2>2, UntouchedKeeps
  <2>4. Both' BY <1>0, <2>2 DEF Both
  <2>5. Present("backup")' BY <1>0, <1>2, <1>3, <2>2 DEF Present
  <2>6. Same("ini")' /\ (index[Main] = 2 => Same("crc")')
    BY <1>2, <2>2 DEF Same, Untouched
  <2>7. pc'[Main] = "flushSynced" BY <1>0, <2>1, MainGoes
  <2>8. Pristine => Fresh("backup")'
    <3>1. SUFFICES ASSUME Pristine PROVE Fresh("backup")' OBVIOUS
    <3>2. kept <= file["public"][f] BY <1>0, <1>2, <1>5, <3>1, SolidFresh
    <3> QED BY <1>0, <1>2, <1>5, <2>2, <3>1, <3>2, PutFresh
  <2>9. Marked => Marked'
    <3>1. "mark" \in Files \ {f} BY <1>2
    <3> QED BY <2>2, <3>1 DEF Marked
  <2>10. Disks' BY <1>0, <1>1, <2>2, <2>4, <2>7, <2>9 DEF Disks, Formatting, MarkKept
  <2>11. Recovering' BY <1>0, <2>1, <2>3, <2>4, <2>5, <2>6, <2>7 DEF Recovering, FromBackup, FromPublic
  <2>12. BootAges' BY <1>1, <1>5, <2>3, <2>7, <2>8 DEF BootAges, FromBackup, FromPublic
  <2> QED BY <1>0, <2>1, <2>10, <2>11, <2>12, BootRest
<1>7. CASE Holds("B", f) = Holds("C", f)
  <2>1. NextSync /\ Goto(Main, AfterSync) /\ UNCHANGED disk BY <1>4, <1>7 DEF Sync
  <2>2. /\ Sane' /\ (Marked => Marked') /\ Both' /\ Clean' /\ Solid("public")' /\ Present("backup")'
        /\ (Fresh("public") => Fresh("public")') /\ (Fresh("backup") => Fresh("backup")')
    BY <1>0, <2>1, StillDisk
  <2>3. Same(f) BY <1>4, <1>7 DEF Same
  <2>4. Same("ini")' /\ (index[Main] = 2 => Same("crc")')
    BY <1>0, <1>2, <2>1, <2>3, StillDisk
  <2>5. MarkKept' BY <1>0, <1>1, <2>1, <2>2 DEF MarkKept, disk
  <2> QED BY <1>0, <1>5, <2>1, <2>2, <2>4, <2>5, SyncOn
<1> QED BY <1>6, <1>7

LEMMA OrdFlushSynced ==
  ASSUME OrdInv, FlushSynced
  PROVE  Rest'
<1> USE Names DEF Booting, Settled
<1>0. /\ TypeInv /\ Disks /\ Sane /\ MarkKept /\ Recovering /\ BootAges /\ Placed
      /\ UNCHANGED <<tries, kept, crashes, board>> /\ Flush /\ Goto(Main, AfterSync) /\ NextSync
      /\ pc[Main] = "flushSynced" /\ Both /\ Solid("public") /\ Present("backup")
      /\ Same("ini") /\ (index[Main] = 2 => Same("crc"))
  BY DEF OrdInv, Rest, Disks, Recovering, TypeInv, TypeOK, save, FlushSynced, FromPublic
<1>1. Fine' = Fine BY <1>0 DEF Fine
<1>2. /\ Clean' /\ Sane' /\ UNCHANGED <<fat, file, drive>> /\ Solid("public")'
      /\ \A v \in Volumes : Fresh(v) => Fresh(v)'
      /\ Marked => Marked'
  BY <1>0, FlushEffect
<1>3. Both' /\ Present("backup")' /\ Same("ini")' /\ (index[Main] = 2 => Same("crc")')
  BY <1>0, <1>2 DEF Both, Present, Same
<1>4. MarkKept' BY <1>0, <1>1, <1>2 DEF MarkKept
<1>5. (Fine => Fresh("public")) /\ (Pristine => Fresh("public") /\ Fresh("backup"))
  BY <1>0 DEF BootAges, FromPublic
<1> QED BY <1>0, <1>2, <1>3, <1>4, <1>5, SyncOn

LEMMA OrdLoad ==
  ASSUME OrdInv, ConfigInit
  PROVE  Rest' /\ (Fine => config' >= kept)
<1> USE Names DEF Booting, Settled
<1> DEFINE n == file["public"]["ini"]
<1>0. /\ TypeInv /\ Disks /\ Sane /\ MarkKept /\ Recovering /\ BootAges /\ Placed /\ Saves
      /\ UNCHANGED <<disk, index, tries, kept, crashes, board>> /\ tries \in {0, 1}
      /\ pc[Main] = "load" /\ Both /\ Settle /\ Goto(Main, "run") /\ config' = Loaded
  BY DEF OrdInv, TypeInv, Rest, Disks, Recovering, ConfigInit
<1>1. Fine' = Fine /\ Pristine' = Pristine /\ fat' = fat BY <1>0 DEF Fine, Pristine, disk
<1>2. /\ n \in Versions
      /\ \A v \in Volumes, f \in {"ini", "crc"} : flash[v][f] = {n}
  BY <1>0, SettleMeans
<1>3. config' = n
  <2>1. Holds("B", "ini") = n BY <1>0, BothHold
  <2> QED BY <1>0, <1>2, <2>1 DEF Loaded
<1>4. Fine => kept <= n
  <2>1. n \in flash["public"]["ini"] \cap Versions BY <1>2
  <2> QED BY <1>0, <2>1 DEF BootAges, FromPublic, Fresh
<1>5. pc'[Main] = "run" /\ \A t \in Tasks : pc'[t] = "idle"
  <2>1. Main \in Threads /\ "run" \in Booting \cup Settled \cup Saving BY DEF Threads
  <2>2. pc'[Main] = "run" /\ \A u \in Threads \ {Main} : pc'[u] = pc[u]
    BY <1>0, <2>1, GotoType
  <2>3. \A t \in Tasks : pc[t] = "idle" BY <1>0 DEF Saves
  <2> QED BY <2>2, <2>3, Apart DEF Threads
<1>6. Sane' /\ (Marked => Marked') /\ Both' /\ Settle' BY <1>0, StillDisk
<1>7. Disks' BY <1>0, <1>1, <1>5, <1>6 DEF Disks, MarkKept, Formatting
<1>8. Recovering' BY <1>0, <1>5, <1>6 DEF Recovering, FromBackup, FromPublic
<1>9. Saves' BY <1>5, <1>6 DEF Saves
<1>10. \A v \in Volumes, f \in {"ini", "crc"} : flash'[v][f] = {n} BY <1>0, <1>2 DEF disk
<1>11. Fine => Fresh("public")' /\ Fresh("backup")'
  BY <1>0, <1>4, <1>10 DEF Fresh
<1>12. Pristine => Fine BY DEF Pristine, Fine
<1>13. BootAges' BY <1>1, <1>5, <1>11, <1>12 DEF BootAges, FromBackup, FromPublic
<1>14. RunAges'
  <2>1. n <= config' BY <1>2, <1>3 DEF Versions
  <2>2. Bounded' BY <1>10, <2>1 DEF Bounded
  <2>3. Fine => kept' <= config' BY <1>0, <1>3, <1>4
  <2> QED BY <1>1, <1>5, <2>2, <2>3 DEF RunAges
<1>15. Fine => config' >= kept
  <2>1. kept \in Versions BY <1>0 DEF TypeInv, TypeOK
  <2> QED BY <1>2, <1>3, <1>4, <2>1 DEF Versions
<1> QED BY <1>7, <1>8, <1>9, <1>13, <1>14, <1>15 DEF Rest

LEMMA OrdBoot ==
  ASSUME OrdInv, Boot
  PROVE  Rest'
<1>1. ~ Restart BY DEF OrdInv, Rest, Recovering, Restart
<1> QED BY <1>1, OrdCheck, OrdFormat, OrdRestore, OrdFlushRestored, OrdVerify, OrdSync,
          OrdFlushSynced, OrdLoad DEF Boot

-------------------------------------------------------------------------------
(* Saving.                                                                 *)

(* What the one task that runs has to show.                                *)
LEMMA TaskRest ==
  ASSUME OrdInv, NEW t \in Tasks, pc[t] # "idle", NEW l \in Saving, Goto(t, l),
         UNCHANGED <<tries, crashes, board>>, fat' = fat, drive' = drive,
         Sane', Marked => Marked',
         Fine => Fresh("public")' /\ Fresh("backup")' /\ Bounded' /\ kept' <= config',
         l \in {"idle", "begin", "count", "collect", "open", "unlock", "test", "clear"} => Settle',
         l \in {"dump", "lock", "crc", "flush"} =>
           Solid("backup")' /\ file'["public"]["crc"] \in Versions,
         l \in {"lock", "crc", "flush"} => file'["public"]["ini"] = dict',
         l = "flush" => file'["public"]["crc"] = dict',
         l \in {"save", "flushSaved"} => Solid("public")',
         l = "save" /\ index'[t] = 2 => Same("ini")',
         l = "flushSaved" => Same("ini")' /\ Same("crc")',
         Fine /\ l \in {"open", "dump", "lock", "crc", "flush"} => kept' <= dict' /\ dict' <= config'
  PROVE  Rest'
<1>1. pc[Main] = "run" /\ \A u \in Tasks : pc[u] # "idle" => u = t
  BY DEF OrdInv, Rest, Saves
<1>2. t \in Threads /\ Placed /\ tries \in {0, 1} /\ Both /\ MarkKept
  BY <1>1 DEF OrdInv, Rest, TypeInv, Threads, Recovering, Disks
<1>3. pc'[t] = l /\ \A u \in Threads \ {t} : pc'[u] = pc[u]
  BY <1>2, GotoType
<1>4. pc'[Main] = "run" /\ \A u \in Tasks \ {t} : pc'[u] = "idle"
  BY <1>1, <1>3, Apart DEF Threads
<1>5. Fine' = Fine /\ Pristine' = Pristine /\ (Pristine => Fine)
  BY DEF Fine, Pristine
<1>6. Both' BY <1>2 DEF Both
<1>7. Disks' BY <1>1, <1>2, <1>4, <1>5, <1>6 DEF Disks, MarkKept, Formatting
<1>8. Recovering' BY <1>2, <1>4, <1>6 DEF Recovering, FromBackup, FromPublic
<1>9. Saves' BY <1>3, <1>4 DEF Saves, Quiet
<1>10. BootAges' BY <1>4, <1>5 DEF BootAges, FromBackup, FromPublic
<1>11. RunAges' BY <1>3, <1>4, <1>5 DEF RunAges
<1> QED BY <1>7, <1>8, <1>9, <1>10, <1>11 DEF Rest

(* What is so while a task saves.                                          *)
LEMMA WhileSaving ==
  ASSUME OrdInv, NEW t \in Tasks, SaveTask(t)
  PROVE  /\ TypeInv /\ Sane /\ Both /\ Saves /\ Placed /\ pc[Main] = "run" /\ drive = ForceMount
         /\ t \in Threads /\ index \in [Threads -> 1 .. 2]
         /\ config \in Versions /\ dict \in Versions /\ kept \in Versions
         /\ Fine => Fresh("public") /\ Fresh("backup") /\ Bounded /\ kept <= config
         /\ Fine /\ pc[t] \in {"open", "dump", "lock", "crc", "flush"} => kept <= dict /\ dict <= config
         /\ \A f \in Files : Holds("B", f) = file["public"][f] /\ Holds("C", f) = file["backup"][f]
         /\ Writable("C")
         /\ pc[t] # "idle" => (\A u \in Tasks \ {t} : pc[u] = "idle")
                              /\ \A f \in Files : Readings(t, f) = {file["public"][f]}
         /\ pc[t] \in {"begin", "count", "collect", "open", "unlock", "test", "clear"} => Settle
<1>1. /\ TypeInv /\ Sane /\ Saves /\ Placed /\ pc[Main] = "run" /\ t \in Threads
      /\ index \in [Threads -> 1 .. 2] /\ {config, dict, kept} \subseteq Versions
      /\ Recovering /\ BootAges /\ RunAges
  BY Names DEF OrdInv, Rest, Disks, TypeInv, TypeOK, Threads, SaveTask
<1>2. Both /\ drive = ForceMount BY <1>1 DEF Recovering, Both
<1>3. /\ \A f \in Files : Holds("B", f) = file["public"][f] /\ Holds("C", f) = file["backup"][f]
      /\ Writable("C")
  BY <1>1, <1>2, BothHold
<1>4. Fine => Fresh("public") /\ Fresh("backup") BY <1>1 DEF BootAges
<1>5. /\ Fine => Bounded /\ kept <= config
      /\ Fine /\ pc[t] \in {"open", "dump", "lock", "crc", "flush"} => kept <= dict /\ dict <= config
  BY <1>1 DEF RunAges
<1>6. ASSUME pc[t] # "idle" PROVE \A u \in Tasks \ {t} : pc[u] = "idle"
  BY <1>1, <1>6 DEF Saves
<1>7. ASSUME pc[t] # "idle" PROVE \A f \in Files : Readings(t, f) = {file["public"][f]}
  BY <1>3, <1>6, <1>7 DEF Readings, Dumping
<1>8. ASSUME pc[t] \in {"begin", "count", "collect", "open", "unlock", "test", "clear"} PROVE Settle
  BY <1>1, <1>6, <1>8 DEF Saves, Quiet
<1> QED BY <1>1, <1>2, <1>3, <1>4, <1>5, <1>6, <1>7, <1>8

(* Writing a file that is not newer.                                       *)
LEMMA PutBounded ==
  ASSUME NEW v \in Volumes, NEW f \in {"ini", "crc"}, NEW c, c \in Versions => c <= config,
         flash'[v][f] \subseteq flash[v][f] \cup {c, Torn, Missing},
         \A g \in Files \ {f} : flash'[v][g] = flash[v][g],
         \A w \in Volumes \ {v} : Untouched(w),
         config' = config, Bounded
  PROVE  Bounded'
<1> SUFFICES ASSUME NEW w \in Volumes, NEW g \in {"ini", "crc"}, NEW n \in flash'[w][g] \cap Versions
             PROVE  n <= config
  BY DEF Bounded
<1>1. CASE w = v /\ g = f BY <1>1, Apart DEF Bounded
<1>2. CASE w = v /\ g # f
  <2>1. g \in Files \ {f} BY <1>2, Names
  <2> QED BY <1>2, <2>1 DEF Bounded
<1>3. CASE w # v BY <1>3 DEF Bounded, Untouched
<1> QED BY <1>1, <1>2, <1>3

(* A write of a save task, to one of the drives.                           *)
LEMMA TaskPut ==
  ASSUME OrdInv, NEW t \in Tasks, SaveTask(t), NEW v \in Volumes, NEW l \in Letters, v = ForceMount[l],
         NEW f \in {"ini", "crc"}, NEW c \in Content \ {Missing}, f = "crc" => c \in Versions,
         Put(l, f, c), UNCHANGED <<save, crashes, board>>,
         Fine /\ c \in Versions => kept <= c /\ c <= config
  PROVE  /\ file'[v][f] = c
         /\ \A g \in Files \ {f} : file'[v][g] = file[v][g]
         /\ \A w \in Volumes \ {v} : Untouched(w) /\ (Solid(w) => Solid(w)')
         /\ UNCHANGED <<fat, drive>> /\ Sane' /\ (Marked => Marked')
         /\ Fine => Fresh("public")' /\ Fresh("backup")' /\ Bounded' /\ kept' <= config'
<1> USE Names
<1>0. /\ TypeInv /\ Sane /\ drive = ForceMount /\ UNCHANGED <<kept, config>>
      /\ Fine => Fresh("public") /\ Fresh("backup") /\ Bounded /\ kept <= config
  BY WhileSaving DEF save
<1>1. /\ file'[v][f] = c
      /\ flash'[v][f] \subseteq flash[v][f] \cup {c, Torn, Missing}
      /\ \A g \in Files \ {f} : file'[v][g] = file[v][g] /\ flash'[v][g] = flash[v][g]
      /\ \A w \in Volumes \ {v} : Untouched(w)
      /\ UNCHANGED <<fat, drive>> /\ Sane'
  BY <1>0, PutEffect
<1>2. \A w \in Volumes \ {v} : Solid(w) => Solid(w)' BY <1>1, UntouchedKeeps
<1>3. Marked => Marked'
  <2>1. "mark" \in Files \ {f} OBVIOUS
  <2>2. flash'["backup"]["mark"] = flash["backup"]["mark"] BY <1>1, <2>1 DEF Untouched
  <2> QED BY <2>2 DEF Marked
<1>4. ASSUME Fine, NEW w \in Volumes PROVE Fresh(w)'
  <2>1. Fresh(w) BY <1>0, <1>4 DEF Volumes
  <2>2. CASE w = v BY <1>0, <1>1, <1>4, <2>1, <2>2, PutFresh
  <2>3. CASE w # v BY <1>0, <1>1, <2>1, <2>3, UntouchedKeeps
  <2> QED BY <2>2, <2>3
<1>5. ASSUME Fine PROVE Bounded' BY <1>0, <1>1, <1>5, PutBounded
<1> QED BY <1>0, <1>1, <1>2, <1>3, <1>4, <1>5

(* A flush of a save task.                                                 *)
LEMMA TaskFlush ==
  ASSUME OrdInv, NEW t \in Tasks, SaveTask(t), Flush, UNCHANGED <<save, crashes, board>>
  PROVE  /\ Clean' /\ Sane' /\ UNCHANGED <<fat, file, drive>> /\ (Marked => Marked')
         /\ \A v \in Volumes : Solid(v) => Solid(v)'
         /\ Fine => Fresh("public")' /\ Fresh("backup")' /\ Bounded' /\ kept' <= config'
<1>0. /\ TypeInv /\ Sane /\ UNCHANGED <<kept, config, board>>
      /\ Fine => Fresh("public") /\ Fresh("backup") /\ Bounded /\ kept <= config
  BY WhileSaving DEF save
<1> QED BY <1>0, FlushEffect, Names

(* A step of a save task that leaves the drives as they are.               *)
LEMMA TaskStill ==
  ASSUME OrdInv, NEW t \in Tasks, SaveTask(t), UNCHANGED <<disk, kept, config, crashes, board>>
  PROVE  /\ UNCHANGED <<fat, file, drive>> /\ Sane' /\ (Marked => Marked') /\ (Settle => Settle')
         /\ \A v \in Volumes : Solid(v) => Solid(v)'
         /\ Fine => Fresh("public")' /\ Fresh("backup")' /\ Bounded' /\ kept' <= config'
<1>0. /\ Sane
      /\ Fine => Fresh("public") /\ Fresh("backup") /\ Bounded /\ kept <= config
  BY WhileSaving
<1>1. UNCHANGED <<fat, file, drive>> BY DEF disk
<1> QED BY <1>0, <1>1, StillDisk, Names

LEMMA OrdSave ==
  ASSUME OrdInv, NEW t \in Tasks, SaveTask(t)
  PROVE  Rest'
<1> USE Names DEF Saving
<1>0. /\ TypeInv /\ Sane /\ Both /\ Saves /\ Placed /\ pc[Main] = "run"
      /\ t \in Threads /\ index \in [Threads -> 1 .. 2]
      /\ config \in Versions /\ dict \in Versions /\ kept \in Versions
      /\ Fine => Fresh("public") /\ Fresh("backup") /\ Bounded /\ kept <= config
      /\ Fine /\ pc[t] \in {"open", "dump", "lock", "crc", "flush"} => kept <= dict /\ dict <= config
      /\ \A f \in Files : Holds("B", f) = file["public"][f] /\ Holds("C", f) = file["backup"][f]
      /\ Writable("C")
  BY WhileSaving
<1>a. ASSUME pc[t] # "idle" PROVE \A u \in Tasks \ {t} : pc[u] = "idle"
  BY <1>a, WhileSaving
<1>b. ASSUME pc[t] \in {"begin", "count", "collect", "open", "unlock", "test", "clear"} PROVE Settle
  BY <1>b, WhileSaving
<1>c. ASSUME pc[t] # "idle" PROVE \A f \in Files : Readings(t, f) = {file["public"][f]}
  BY <1>c, WhileSaving
<1>1. CASE Begin(t) \/ SeeCount(t) \/ Unlock(t)
  <2>1. pc[t] \in {"begin", "count", "unlock"} /\ UNCHANGED <<disk, tries, kept, config, crashes, board>>
        /\ (Goto(t, "count") \/ Goto(t, "collect") \/ Goto(t, "test"))
    BY <1>1 DEF Begin, SeeCount, Unlock
  <2>2. Settle BY <1>b, <2>1
  <2> QED BY <2>1, <2>2, TaskStill, TaskRest
<1>2. CASE Test(t)
  <2>1. pc[t] = "test" /\ (Goto(t, "count") \/ Goto(t, "clear"))
        /\ UNCHANGED <<disk, tries, kept, config, crashes, board>>
    BY <1>2 DEF Test, save
  <2>2. Settle BY <1>b, <2>1
  <2> QED BY <2>1, <2>2, TaskStill, TaskRest
<1>3. CASE Collect(t)
  <2>1. pc[t] = "collect" /\ Goto(t, "open") /\ UNCHANGED <<disk, tries, kept, config, crashes, board>>
        /\ dict' = config
    BY <1>3 DEF Collect
  <2>2. dict' <= config' BY <1>0, <2>1 DEF Versions
  <2>3. Settle BY <1>b, <2>1
  <2> QED BY <1>0, <2>1, <2>2, <2>3, TaskStill, TaskRest
<1>4. CASE Open(t)
  <2>1. pc[t] = "open" /\ UNCHANGED <<tries, save, crashes, board>> /\ Settle
    BY <1>4, <1>b DEF Open
  <2>2. ~ InUse(t) BY <1>a, <2>1 DEF InUse
  <2>3. Put("B", "ini", Partial) /\ Goto(t, "dump") BY <1>4, <2>2 DEF Open
  <2>4. /\ \A g \in Files \ {"ini"} : file'["public"][g] = file["public"][g]
        /\ \A w \in Volumes \ {"public"} : Untouched(w) /\ (Solid(w) => Solid(w)')
        /\ UNCHANGED <<fat, drive>> /\ Sane' /\ (Marked => Marked')
        /\ Fine => Fresh("public")' /\ Fresh("backup")' /\ Bounded' /\ kept' <= config'
    <3>1. Partial \in Content \ {Missing} /\ Partial \notin Versions BY SettingsAssumption, Apart
    <3> QED BY <2>1, <2>3, <3>1, TaskPut, ForceMountType
  <2>5. Solid("backup")' BY <1>0, <2>1, <2>4, SettleMeans
  <2>6. file'["public"]["crc"] \in Versions BY <1>0, <2>1, <2>4, SettleMeans
  <2>7. Fine => kept' <= dict' /\ dict' <= config' BY <1>0, <2>1 DEF save
  <2> QED BY <2>1, <2>3, <2>4, <2>5, <2>6, <2>7, TaskRest
<1>5. CASE Dump(t)
  <2>1. pc[t] = "dump" /\ UNCHANGED <<tries, save, crashes, board>> /\ Put("B", "ini", dict)
        /\ Goto(t, "lock") /\ Solid("backup") /\ file["public"]["crc"] \in Versions
        /\ (Fine => kept <= dict /\ dict <= config)
    BY <1>0, <1>5 DEF Dump, Saves
  <2>2. /\ file'["public"]["ini"] = dict
        /\ \A g \in Files \ {"ini"} : file'["public"][g] = file["public"][g]
        /\ \A w \in Volumes \ {"public"} : Untouched(w) /\ (Solid(w) => Solid(w)')
        /\ UNCHANGED <<fat, drive>> /\ Sane' /\ (Marked => Marked')
        /\ Fine => Fresh("public")' /\ Fresh("backup")' /\ Bounded' /\ kept' <= config'
    <3>1. dict \in Content \ {Missing} BY <1>0, Apart
    <3> QED BY <2>1, <3>1, TaskPut, ForceMountType
  <2>3. Solid("backup")' /\ file'["public"]["crc"] \in Versions BY <2>1, <2>2
  <2>4. (Fine => kept' <= dict' /\ dict' <= config') /\ dict' = dict BY <2>1 DEF save
  <2> QED BY <2>1, <2>2, <2>3, <2>4, TaskRest
<1>6. CASE Lock(t)
  <2>1. pc[t] = "lock" /\ Goto(t, "crc")
        /\ UNCHANGED <<disk, tries, kept, config, dict, crashes, board>>
        /\ Solid("backup") /\ file["public"]["crc"] \in Versions /\ file["public"]["ini"] = dict
        /\ (Fine => kept <= dict /\ dict <= config)
    BY <1>0, <1>6 DEF Lock, Saves
  <2>2. file' = file BY <2>1 DEF disk
  <2> QED BY <1>0, <2>1, <2>2, TaskStill, TaskRest
<1>7. CASE SetFileCrc(t)
  <2>1. pc[t] = "crc" /\ UNCHANGED <<tries, save, crashes, board>> /\ Goto(t, "flush")
        /\ Solid("backup") /\ file["public"]["crc"] \in Versions /\ file["public"]["ini"] = dict
        /\ (Fine => kept <= dict /\ dict <= config)
    BY <1>0, <1>7 DEF SetFileCrc, Saves
  <2>2. dict # Missing BY <1>0, Apart
  <2>3. Put("B", "crc", dict) BY <1>0, <1>7, <1>c, <2>1, <2>2 DEF SetFileCrc
  <2>4. /\ file'["public"]["crc"] = dict
        /\ \A g \in Files \ {"crc"} : file'["public"][g] = file["public"][g]
        /\ \A w \in Volumes \ {"public"} : Untouched(w) /\ (Solid(w) => Solid(w)')
        /\ UNCHANGED <<fat, drive>> /\ Sane' /\ (Marked => Marked')
        /\ Fine => Fresh("public")' /\ Fresh("backup")' /\ Bounded' /\ kept' <= config'
    <3>1. dict \in Content \ {Missing} BY <1>0, <2>2
    <3> QED BY <1>0, <2>1, <2>3, <3>1, TaskPut, ForceMountType
  <2>5. Solid("backup")' /\ file'["public"]["ini"] = dict BY <2>1, <2>4
  <2>6. (Fine => kept' <= dict' /\ dict' <= config') /\ dict' = dict BY <2>1 DEF save
  <2> QED BY <1>0, <2>1, <2>4, <2>5, <2>6, TaskRest
<1>8. CASE FlushPublic(t)
  <2>1. pc[t] = "flush" /\ UNCHANGED <<tries, save, crashes, board>> /\ Goto(t, "save") /\ Flush
        /\ index'[t] = 1 /\ Solid("backup")
        /\ file["public"]["crc"] = dict /\ file["public"]["ini"] = dict
    BY <1>0, <1>8 DEF FlushPublic, Saves
  <2>2. /\ Clean' /\ Sane' /\ UNCHANGED <<fat, file, drive>> /\ (Marked => Marked')
        /\ Fine => Fresh("public")' /\ Fresh("backup")' /\ Bounded' /\ kept' <= config'
    BY <2>1, TaskFlush
  <2>3. Solid("public")'
    BY <1>0, <2>1, <2>2 DEF Solid, Clean, Both
  <2> QED BY <2>1, <2>2, <2>3, TaskRest
<1>9. CASE BackupSave(t)
  <2> DEFINE f == Listed[index[t]]
  <2>1. f \in {"ini", "crc"} /\ f \in Files /\ pc[t] = "save" /\ UNCHANGED <<tries, save, crashes, board>>
        /\ Solid("public") /\ index[t] \in 1 .. 2
        /\ (index[t] = 1 => f = "ini") /\ (index[t] = 2 => f = "crc" /\ Same("ini"))
    BY <1>0, <1>9 DEF BackupSave, Saves
  <2>2. file["public"][f] \in Versions /\ file["public"][f] # Missing
        /\ file["public"][f] \in flash["public"][f]
    BY <1>0, <2>1, SolidHolds, Apart DEF TypeInv, TypeOK
  <2>3. Put("C", f, file["public"][f]) /\ index' = [index EXCEPT ![t] = (@ % Len(Listed)) + 1]
        /\ (IF index[t] = Len(Listed) THEN Goto(t, "flushSaved") ELSE UNCHANGED pc)
    BY <1>9, <1>c, <1>0, <2>1, <2>2 DEF BackupSave
  <2>4. Fine => kept <= file["public"][f] /\ file["public"][f] <= config
    BY <1>0, <2>1, <2>2 DEF Fresh, Bounded
  <2>5. /\ file'["backup"][f] = file["public"][f]
        /\ \A g \in Files \ {f} : file'["backup"][g] = file["backup"][g]
        /\ \A w \in Volumes \ {"backup"} : Untouched(w) /\ (Solid(w) => Solid(w)')
        /\ UNCHANGED <<fat, drive>> /\ Sane' /\ (Marked => Marked')
        /\ Fine => Fresh("public")' /\ Fresh("backup")' /\ Bounded' /\ kept' <= config'
    <3>1. file["public"][f] \in Content \ {Missing} BY <2>2
    <3> QED BY <2>1, <2>2, <2>3, <2>4, <3>1, TaskPut, ForceMountType
  <2>6. Solid("public")' /\ Untouched("public") BY <2>1, <2>5, Apart DEF Volumes
  <2>7. CASE index[t] = 1
    <3>1. Same("ini")' BY <2>1, <2>5, <2>6, <2>7 DEF Same, Untouched
    <3>2. Goto(t, "save") BY <1>0, <2>1, <2>3, <2>7 DEF Goto, Placed
    <3> QED BY <2>1, <2>5, <2>6, <3>1, <3>2, TaskRest
  <2>8. CASE index[t] = 2
    <3>1. Same("ini")' /\ Same("crc")' BY <2>1, <2>5, <2>6, <2>8 DEF Same, Untouched
    <3>2. Goto(t, "flushSaved") BY <2>3, <2>8
    <3> QED BY <2>1, <2>5, <2>6, <3>1, <3>2, TaskRest
  <2> QED BY <2>1, <2>7, <2>8
<1>10. CASE FlushSaved(t)
  <2>1. pc[t] = "flushSaved" /\ UNCHANGED <<tries, save, crashes, board>> /\ Goto(t, "unlock") /\ Flush
        /\ Solid("public") /\ Same("ini") /\ Same("crc")
    BY <1>0, <1>10 DEF FlushSaved, Saves
  <2>2. /\ Clean' /\ Sane' /\ UNCHANGED <<fat, file, drive>> /\ (Marked => Marked')
        /\ \A v \in Volumes : Solid(v) => Solid(v)'
        /\ Fine => Fresh("public")' /\ Fresh("backup")' /\ Bounded' /\ kept' <= config'
    BY <2>1, TaskFlush
  <2>3. Both' /\ Same("ini")' /\ Same("crc")' BY <1>0, <2>1, <2>2 DEF Both, Same
  <2>4. Settle' BY <2>1, <2>2, <2>3 DEF Settle
  <2> QED BY <2>1, <2>2, <2>4, TaskRest
<1>11. CASE Clear(t)
  <2> DEFINE n == file["public"]["ini"]
  <2>1. pc[t] = "clear" /\ Goto(t, "idle") /\ UNCHANGED <<disk, tries, config, crashes, board>>
        /\ kept' = Loaded /\ Settle
    BY <1>11, <1>b DEF Clear
  <2>2. n \in Versions /\ \A v \in Volumes, f \in {"ini", "crc"} : flash[v][f] = {n}
    BY <1>0, <2>1, SettleMeans
  <2>3. kept' = n BY <1>0, <2>1, <2>2 DEF Loaded
  <2>4. Fine => n <= config
    <3>1. n \in flash["public"]["ini"] \cap Versions BY <2>2
    <3> QED BY <1>0, <3>1 DEF Bounded
  <2>5. Sane' /\ (Marked => Marked') /\ Settle' /\ (Bounded => Bounded') BY <1>0, <2>1, StillDisk
  <2>6. Fresh("public")' /\ Fresh("backup")'
    <3>1. \A v \in Volumes, f \in {"ini", "crc"} : flash'[v][f] = {n} BY <2>1, <2>2 DEF disk
    <3>2. n <= n BY <2>2 DEF Versions
    <3> QED BY <2>3, <3>1, <3>2 DEF Fresh
  <2>7. fat' = fat /\ drive' = drive BY <2>1 DEF disk
  <2> QED BY <1>0, <2>1, <2>3, <2>4, <2>5, <2>6, <2>7, TaskRest
<1> QED BY <1>1, <1>2, <1>3, <1>4, <1>5, <1>6, <1>7, <1>8, <1>9, <1>10, <1>11 DEF SaveTask

LEMMA OrdConfigSave ==
  ASSUME OrdInv, ConfigSave
  PROVE  Rest'
<1>0. /\ TypeInv /\ Disks /\ Sane /\ MarkKept /\ Recovering /\ BootAges /\ RunAges /\ Saves /\ Both
      /\ pc[Main] = "run" /\ config \in Versions /\ kept \in Versions /\ ~ board.overlap
      /\ UNCHANGED <<disk, tries, kept, crashes, board>> /\ config' = config + 1
  BY DEF OrdInv, Orderly, Rest, Disks, Recovering, TypeInv, TypeOK, ConfigSave
<1>1. \A t \in Tasks : pc[t] = "idle" BY <1>0 DEF ConfigSave
<1>2. Settle BY <1>0, <1>1 DEF Saves, Quiet
<1>3. Fine' = Fine /\ Pristine' = Pristine /\ (Pristine => Fine) /\ fat' = fat
  BY <1>0 DEF Fine, Pristine, disk
<1>4. /\ Sane' /\ (Marked => Marked') /\ Both' /\ Settle'
      /\ Fresh("public") /\ Fresh("backup") => Fresh("public")' /\ Fresh("backup")'
  BY <1>0, <1>2, StillDisk, Names
<1>5. config <= config' BY <1>0 DEF Versions
<1>6. Fine => Bounded' /\ kept' <= config'
  <2> SUFFICES ASSUME Fine PROVE Bounded' /\ kept' <= config' OBVIOUS
  <2>1. Bounded /\ kept <= config BY <1>0 DEF RunAges
  <2>2. ASSUME NEW v \in Volumes, NEW f \in {"ini", "crc"}, NEW n \in flash'[v][f] \cap Versions
        PROVE  n <= config'
    <3>1. n <= config BY <1>0, <2>1 DEF Bounded, disk
    <3> QED BY <1>0, <3>1 DEF Versions
  <2>3. Bounded' BY <2>2 DEF Bounded
  <2>4. kept' <= config' BY <1>0, <2>1 DEF Versions
  <2> QED BY <2>3, <2>4
<1>7. ASSUME pc'[Main] = "run", NEW t \in Tasks, pc'[t] \in {"idle", "begin"},
             \A u \in Tasks \ {t} : pc'[u] = "idle"
      PROVE  Rest'
  <2>1. Disks' BY <1>0, <1>3, <1>4, <1>7 DEF Disks, MarkKept, Formatting
  <2>2. Recovering' BY <1>0, <1>4, <1>7 DEF Recovering, FromBackup, FromPublic
  <2>3. Saves' BY <1>4, <1>7 DEF Saves
  <2>4. BootAges' BY <1>0, <1>3, <1>4, <1>7 DEF BootAges, FromBackup, FromPublic
  <2>5. RunAges' BY <1>3, <1>6, <1>7 DEF RunAges
  <2> QED BY <2>1, <2>2, <2>3, <2>4, <2>5 DEF Rest
<1>8. CASE \E t \in Tasks : Goto(t, "begin")
  <2>1. PICK t \in Tasks : Goto(t, "begin") BY <1>8
  <2>2. Placed /\ t \in Threads /\ "begin" \in Booting \cup Settled \cup Saving
    BY <1>0 DEF TypeInv, Threads, Saving
  <2>3. pc'[t] = "begin" /\ \A u \in Threads \ {t} : pc'[u] = pc[u]
    BY <2>1, <2>2, GotoType
  <2>4. pc'[Main] = "run" /\ \A u \in Tasks \ {t} : pc'[u] = "idle"
    BY <1>0, <1>1, <2>3, Apart DEF Threads
  <2> QED BY <1>7, <2>3, <2>4
<1>9. CASE UNCHANGED pc
  <2>1. pc'[Main] = "run" /\ \A t \in Tasks : pc'[t] = "idle" BY <1>0, <1>1, <1>9
  <2>2. Disks' BY <1>0, <1>3, <1>4, <2>1 DEF Disks, MarkKept, Formatting
  <2>3. Recovering' BY <1>0, <1>4, <2>1 DEF Recovering, FromBackup, FromPublic
  <2>4. Saves' BY <1>4, <2>1 DEF Saves
  <2>5. BootAges' BY <1>0, <1>3, <1>4, <2>1 DEF BootAges, FromBackup, FromPublic
  <2>6. RunAges' BY <1>3, <1>6, <2>1 DEF RunAges
  <2> QED BY <2>2, <2>3, <2>4, <2>5, <2>6 DEF Rest
<1> QED BY <1>8, <1>9 DEF ConfigSave

-------------------------------------------------------------------------------
(* Power losses.                                                           *)

(* In every state one of the volumes is solid.                             *)
LEMMA OneSolid == ASSUME OrdInv PROVE Solid("public") \/ Solid("backup")
<1>0. TypeInv /\ Recovering /\ Saves /\ Placed BY DEF OrdInv, Rest, TypeInv
<1>1. CASE pc[Main] # "run"
  <2>1. pc[Main] \in {"check", "verify", "load"} \cup FromBackup \cup FromPublic
    BY <1>0, <1>1 DEF Placed, Recovering, FromBackup, FromPublic, Booting, Settled
  <2> QED BY <1>0, <2>1 DEF Recovering, Checking, Verifying, Settle
<1>2. CASE pc[Main] = "run" /\ \A t \in Tasks : Quiet(t)
  BY <1>0, <1>2 DEF Saves, Settle
<1>3. CASE \E t \in Tasks : ~ Quiet(t)
  <2>1. PICK t \in Tasks : ~ Quiet(t) BY <1>3
  <2>2. pc[t] \in {"dump", "lock", "crc", "flush", "save", "flushSaved"}
    BY <1>0, <2>1 DEF Quiet, Placed, Saving
  <2> QED BY <1>0, <2>2 DEF Saves
<1> QED BY <1>1, <1>2, <1>3

LEMMA OrdCrash ==
  ASSUME OrdInv, Crash, Limited'
  PROVE  Rest'
<1> USE Names
<1>0. /\ TypeInv /\ Disks /\ Sane /\ MarkKept /\ Recovering /\ BootAges
      /\ crashes \in Nat /\ crashes' = crashes + 1 /\ fat \in [Volumes -> BOOLEAN]
      /\ risky' = {} /\ drive' = Mount(fat') /\ tries' = 0 /\ UNCHANGED <<kept, board>>
      /\ pc' = [t \in Threads |-> IF t = Main THEN "check" ELSE "idle"]
      /\ flash' = [v \in Volumes |-> [f \in Files |-> {file'[v][f]}]]
  BY SettingsAssumption DEF OrdInv, Rest, Disks, TypeInv, TypeOK, Crash, PowerOn
<1>1. PICK broken \in SUBSET risky, pub \in Left("public"), bak \in Left("backup") :
        /\ fat' = [v \in Volumes |-> fat[v] /\ v \notin broken]
        /\ file' = [v \in Volumes |-> IF v \in broken THEN NoFiles
                                      ELSE IF v = "public" THEN pub ELSE bak]
  BY DEF Crash, LosePower
<1>2. Fine BY <1>0 DEF Limited, Fine
<1>3. Fine' => Pristine BY <1>0 DEF Fine, Pristine
<1>4. (Pristine' => ~ board.fragile) /\ (Pristine' => Fine') BY <1>0 DEF Fine, Pristine
<1>5. pc'[Main] = "check" /\ \A t \in Tasks : pc'[t] = "idle"
  BY <1>0, Apart DEF Threads
<1>6. \A v \in Volumes, f \in Files : flash'[v][f] = {file'[v][f]} BY <1>0
<1>7. \A v \in Volumes \ broken : fat'[v] = fat[v] /\ \A f \in Files : file'[v][f] \in flash[v][f]
  <2> SUFFICES ASSUME NEW v \in Volumes \ broken
               PROVE  fat'[v] = fat[v] /\ \A f \in Files : file'[v][f] \in flash[v][f]
    OBVIOUS
  <2>1. fat'[v] = fat[v] BY <1>0, <1>1
  <2>2. file'[v] = IF v = "public" THEN pub ELSE bak BY <1>1
  <2>3. \A f \in Files : pub[f] \in flash["public"][f] /\ bak[f] \in flash["backup"][f]
    BY DEF Left
  <2> QED BY <2>1, <2>2, <2>3 DEF Volumes
<1>8. \A v \in broken : v \in risky /\ \A f \in Files : file'[v][f] = Missing
  <2>1. broken \subseteq Volumes BY <1>0 DEF TypeInv, TypeOK
  <2> QED BY <1>1, <2>1 DEF NoFiles
<1>9. \A v \in Volumes, f \in Files : file'[v][f] = Missing \/ file'[v][f] \in flash[v][f]
  BY <1>7, <1>8
<1>10. \A v \in Volumes : Solid(v) => Solid(v)'
  <2> SUFFICES ASSUME NEW v \in Volumes, Solid(v) PROVE Solid(v)' OBVIOUS
  <2>1. v \notin broken /\ fat[v] BY <1>8 DEF Solid
  <2>2. fat'[v] /\ \A f \in Files : file'[v][f] \in flash[v][f] BY <1>7, <2>1
  <2>3. PICK n \in Versions : flash[v]["ini"] = {n} /\ flash[v]["crc"] = {n} BY DEF Solid
  <2>4. flash'[v]["ini"] = {n} /\ flash'[v]["crc"] = {n} BY <1>6, <2>2, <2>3
  <2> QED BY <1>0, <2>2, <2>4 DEF Solid
<1>11. file'["public"]["mark"] = Missing
  <2>1. CASE "public" \in broken BY <1>8, <2>1
  <2>2. CASE "public" \notin broken BY <1>1, <2>2 DEF Left
  <2> QED BY <2>1, <2>2
<1>12. ~ board.fragile => \A v \in Volumes, f \in {"ini", "crc"} :
                            file'[v][f] # Missing /\ file'[v][f] \in flash[v][f]
  <2> SUFFICES ASSUME ~ board.fragile, NEW v \in Volumes, NEW f \in {"ini", "crc"}
               PROVE  file'[v][f] # Missing /\ file'[v][f] \in flash[v][f]
    OBVIOUS
  <2>1. risky = {} /\ Missing \notin flash[v][f] BY <1>0 DEF Sane
  <2>2. v \notin broken BY <2>1
  <2> QED BY <1>7, <2>1, <2>2
<1>13. Sane'
  <2>1. \A v \in Volumes : flash'[v]["crc"] \subseteq Versions \cup {Torn, Missing}
    BY <1>0, <1>6, <1>9 DEF Sane
  <2>2. ~ board.fragile => \A v \in Volumes, f \in {"ini", "crc"} : Missing \notin flash'[v][f]
    BY <1>6, <1>12
  <2> QED BY <1>0, <1>11, <2>1, <2>2 DEF Sane
<1>14. ASSUME Marked, fat'["backup"] PROVE file'["backup"]["mark"] # Missing
  <2>1. "backup" \notin broken BY <1>1, <1>14
  <2> QED BY <1>7, <1>14, <2>1 DEF Marked
<1>15. MarkKept'
  <2> SUFFICES ASSUME Fine', fat'["backup"] PROVE Marked' BY DEF MarkKept
  <2>1. Both /\ pc[Main] \notin Formatting BY <1>0, <1>3 DEF Disks
  <2>2. Marked BY <1>0, <1>2, <2>1 DEF MarkKept, Both, Formatting
  <2> QED BY <1>6, <1>14, <2>2 DEF Marked
<1>16. Pristine' => Both' /\ Present("public")' /\ Present("backup")'
  <2> SUFFICES ASSUME Pristine' PROVE Both' /\ Present("public")' /\ Present("backup")' OBVIOUS
  <2>1. ~ board.fragile /\ Both BY <1>0, <1>3, <1>4 DEF Disks
  <2>2. risky = {} BY <1>0, <2>1 DEF Sane
  <2>3. fat'["public"] /\ fat'["backup"] BY <1>1, <2>1, <2>2 DEF Both
  <2>4. drive' = ForceMount BY <1>0, <2>3 DEF Mount, ForceMount, Letters
  <2>5. Present("public")' /\ Present("backup")' BY <1>12, <2>1 DEF Present
  <2> QED BY <2>3, <2>4, <2>5 DEF Both
<1>17. Disks' BY <1>5, <1>13, <1>15, <1>16 DEF Disks, Formatting
<1>18. Clean' BY <1>0, <1>6 DEF Clean
<1>19. Solid("public")' \/ (Solid("backup")' /\ (fat'["public"] \/ file'["backup"]["mark"] # Missing))
  <2>1. CASE Solid("public") BY <1>10, <2>1
  <2>2. CASE ~ Solid("public")
    <3>1. Solid("backup") BY <2>2, OneSolid
    <3>2. Solid("backup")' /\ fat'["backup"] /\ fat["backup"] BY <1>10, <3>1 DEF Solid
    <3>3. pc[Main] \notin {"defaultBackup", "flushBackup"}
      BY <1>0, <2>2 DEF Recovering, FromPublic
    <3>4. Marked BY <1>0, <1>2, <3>2, <3>3 DEF MarkKept
    <3> QED BY <1>14, <3>2, <3>4
  <2> QED BY <2>1, <2>2
<1>20. Checking' BY <1>0, <1>16, <1>18, <1>19 DEF Checking
<1>21. Recovering' BY <1>0, <1>5, <1>20 DEF Recovering, FromBackup, FromPublic
<1>22. Saves' BY <1>5 DEF Saves
<1>23. Fine' => Fresh("public")' /\ Fresh("backup")'
  <2> SUFFICES ASSUME Fine', NEW v \in Volumes PROVE Fresh(v)' OBVIOUS
  <2>1. Fresh(v) BY <1>0, <1>3 DEF BootAges, Volumes
  <2>2. \A f \in {"ini", "crc"} : flash'[v][f] \cap Versions \subseteq flash[v][f]
    BY <1>6, <1>9, Apart
  <2> QED BY <1>0, <2>1, <2>2 DEF Fresh
<1>24. BootAges' BY <1>4, <1>5, <1>23 DEF BootAges, FromBackup, FromPublic
<1>25. RunAges' BY <1>5 DEF RunAges
<1> QED BY <1>17, <1>21, <1>22, <1>24, <1>25 DEF Rest

LEMMA OrdInit == ASSUME Init, Orderly PROVE Rest
<1> USE Names
<1>0. TypeInv BY InitType
<1>1. fat["public"] /\ fat["backup"] /\ risky = {} /\ crashes = 0 /\ tries = 0 /\ kept = Default
  BY DEF Init, Orderly
<1>2. /\ \A v \in Volumes, f \in {"ini", "crc"} : file[v][f] = Default
      /\ file["public"]["mark"] = Missing /\ file["backup"]["mark"] = Default
  BY DEF Init, Orderly
<1>3. \A v \in Volumes, f \in Files : flash[v][f] = {file[v][f]} BY DEF Init
<1>4. drive = Mount(fat) /\ drive = ForceMount
  BY <1>1 DEF Init, Mount, ForceMount, Letters
<1>5. pc[Main] = "check" /\ \A t \in Tasks : pc[t] = "idle" BY Apart DEF Init, Threads
<1>6. Default # Missing BY Apart
<1>7. Sane
  <2>1. \A v \in Volumes : flash[v]["crc"] = {Default} BY <1>2, <1>3
  <2>2. \A v \in Volumes, f \in {"ini", "crc"} : flash[v][f] = {Default} BY <1>2, <1>3
  <2> QED BY <1>1, <1>2, <1>6, <2>1, <2>2 DEF Sane
<1>8. Marked BY <1>2, <1>3, <1>6 DEF Marked
<1>9. Disks BY <1>1, <1>4, <1>5, <1>7, <1>8 DEF Disks, MarkKept, Both, Formatting
<1>10. Clean BY <1>1, <1>3 DEF Clean
<1>11. Solid("public")
  <2>1. flash["public"]["ini"] = {Default} /\ flash["public"]["crc"] = {Default} BY <1>2, <1>3
  <2> QED BY <1>1, <2>1 DEF Solid
<1>12. Present("public") /\ Present("backup") BY <1>2, <1>6 DEF Present
<1>13. Checking BY <1>4, <1>10, <1>11, <1>12 DEF Checking
<1>14. Recovering BY <1>1, <1>5, <1>13 DEF Recovering, FromBackup, FromPublic
<1>15. Saves BY <1>5 DEF Saves
<1>16. Fresh("public") /\ Fresh("backup")
  <2>1. \A v \in Volumes, f \in {"ini", "crc"} : flash[v][f] = {kept} BY <1>1, <1>2, <1>3
  <2>2. kept <= kept BY <1>1 DEF Default
  <2> QED BY <2>1, <2>2 DEF Fresh
<1>17. BootAges BY <1>5, <1>16 DEF BootAges, FromBackup, FromPublic
<1>18. RunAges BY <1>5 DEF RunAges
<1> QED BY <1>9, <1>14, <1>15, <1>17, <1>18 DEF Rest

(* The board stays what it is and the power losses only grow in number.    *)
LEMMA BoardStays ==
  ASSUME TypeInv, Next
  PROVE  /\ board' = board /\ crashes \in Nat
         /\ Crash \/ crashes' = crashes
<1>0. crashes \in Nat BY SettingsAssumption DEF TypeInv, TypeOK
<1>1. CASE Crash BY <1>0, <1>1 DEF Crash, PowerOn
<1>2. CASE Boot
  BY <1>0, <1>2 DEF Boot, CheckBackup, FormatPublic, DefaultPublic, FlushDefault, FormatBackup,
       DefaultBackup, Restore, FlushRestored, Verify, Sync, FlushSynced, ConfigInit, Restart, PowerOn
<1>3. CASE ConfigSave BY <1>0, <1>3 DEF ConfigSave
<1>4. ASSUME NEW t \in Tasks, SaveTask(t) PROVE board' = board /\ crashes' = crashes
  BY <1>4 DEF SaveTask, Begin, SeeCount, Collect, Open, Dump, Lock, SetFileCrc, FlushPublic,
       BackupSave, FlushSaved, Unlock, Test, Clear
<1> QED BY <1>0, <1>1, <1>2, <1>3, <1>4 DEF Next

Guarded == TypeInv /\ (Orderly /\ Limited => Rest)

LEMMA OrdStep ==
  ASSUME Guarded, TypeInv', [Next]_vars
  PROVE  Guarded' /\ (ConfigInit /\ Orderly /\ Fine => config' >= kept)
<1>1. CASE Next
  <2>1. board' = board /\ crashes \in Nat /\ (Crash \/ crashes' = crashes)
    BY <1>1, BoardStays DEF Guarded
  <2>2. Limited' => Limited
    BY <2>1 DEF Limited, Crash
  <2>3. ASSUME Orderly', Limited' PROVE Rest'
    <3>1. OrdInv BY <2>1, <2>2, <2>3 DEF OrdInv, Guarded, Orderly
    <3> QED BY <1>1, <2>3, <3>1, OrdBoot, OrdSave, OrdConfigSave, OrdCrash DEF Next
  <2>4. ASSUME ConfigInit, Orderly, Fine PROVE config' >= kept
    <3>1. Limited BY <2>1, <2>4 DEF Limited, Fine
    <3>2. OrdInv BY <2>4, <3>1 DEF OrdInv, Guarded
    <3> QED BY <2>4, <3>2, OrdLoad
  <2> QED BY <2>3, <2>4 DEF Guarded
<1>2. CASE UNCHANGED vars
  <2>1. UNCHANGED <<disk, board, pc, index, tries, dict, config, kept, crashes>> BY <1>2 DEF vars, save
  <2>2. (Orderly' <=> Orderly) /\ (Limited' <=> Limited) /\ (Fine' <=> Fine) /\ (Pristine' <=> Pristine)
    BY <2>1 DEF Orderly, Limited, Fine, Pristine
  <2>3. ASSUME Rest PROVE Rest'
    <3>1. Disks' /\ BootAges' /\ RunAges'
      BY <2>1, <2>2, <2>3, StillDisk, Names
         DEF Rest, Disks, MarkKept, BootAges, RunAges, disk
    <3>2. Checking => Checking'
      BY <2>1, <2>2, StillDisk, Names DEF Checking, disk
    <3>3. Verifying => Verifying'
      BY <2>1, StillDisk, Names DEF Verifying
    <3>4. Recovering'
      BY <2>1, <2>3, <3>2, <3>3, StillDisk, Names DEF Rest, Recovering, disk
    <3>5. Saves'
      BY <2>1, <2>3, StillDisk, Names DEF Rest, Saves, Quiet, disk
    <3> QED BY <3>1, <3>4, <3>5 DEF Rest
  <2>4. ~ ConfigInit
    <3>1. ASSUME ConfigInit PROVE FALSE
      <4>1. pc[Main] = "load" /\ Goto(Main, "run") /\ Placed /\ pc' = pc
        BY <1>2, <3>1 DEF ConfigInit, Guarded, TypeInv, vars
      <4>2. pc'[Main] = "run" BY <4>1, MainGoes DEF Settled
      <4> QED BY <4>1, <4>2
    <3> QED BY <3>1
  <2> QED BY <2>2, <2>3, <2>4 DEF Guarded
<1> QED BY <1>1, <1>2

THEOREM OrderlyAlways == Spec => []Guarded
<1>1. Init => Guarded BY InitType, OrdInit DEF Guarded
<1>2. Guarded /\ TypeInv' /\ [Next]_vars => Guarded' BY OrdStep
<1> QED BY <1>1, <1>2, Typed, PTL DEF Spec

(* On an installed board whose saves do not overlap, and whatever a power  *)
(* loss hits, one of the two drives has the whole, certified settings, and *)
(* no boot ends in the factory reset or in a failed assertion: always,     *)
(* where no volume can break, and up to the second power loss where one    *)
(* can (ConfigSaveTask, BackupInit, BackupSyncFile, SDL_main).             *)
THEOREM TwoLossesSurvived == Spec => [](Limited => OneCopySolid /\ Recovers)
<1>1. Guarded => (Limited => OneCopySolid /\ Recovers)
  <2> SUFFICES ASSUME Guarded, Limited, Orderly
               PROVE  (\E v \in Volumes : Solid(v)) /\ pc[Main] \notin {"reset", "exit"}
    BY DEF OneCopySolid, Recovers
  <2>1. OrdInv BY DEF OrdInv, Guarded
  <2> QED BY <2>1, OneSolid, Names DEF OrdInv, Rest, Recovering
<1> QED BY <1>1, OrderlyAlways, PTL

(* What bounds the power losses of a board whose volumes can break.        *)
FewLosses == \A b \in Boards : b.installed /\ ~ b.overlap /\ b.fragile => MaxCrashes <= 2

LEMMA FewIsLimited == ASSUME FewLosses, TypeInv, Orderly PROVE Limited
<1>1. board \in Boards /\ crashes \in 0 .. MaxCrashes BY DEF TypeInv, TypeOK
<1> QED BY <1>1, SettingsAssumption DEF FewLosses, Orderly, Limited

(* With that few, one of the two drives always has the settings, however a *)
(* save or a recovery was cut off (ConfigSaveTask, BackupInit).            *)
THEOREM OneDriveKept == ASSUME FewLosses PROVE Spec => []OneCopySolid
<1>1. TypeInv /\ (Limited => OneCopySolid /\ Recovers) => OneCopySolid
  BY FewIsLimited DEF OneCopySolid
<1> QED BY <1>1, Typed, TwoLossesSurvived, PTL

(* And the boot never ends in the factory reset or in a failed assertion   *)
(* (SDL_main, _FileSyncFile).                                              *)
THEOREM AlwaysRecovers == ASSUME FewLosses PROVE Spec => []Recovers
<1>1. TypeInv /\ (Limited => OneCopySolid /\ Recovers) => Recovers
  BY FewIsLimited DEF Recovers
<1> QED BY <1>1, Typed, TwoLossesSurvived, PTL

(* The board comes up with the settings of the last finished save or with  *)
(* newer ones: on every board, after any number of power losses in saving  *)
(* and recovering where no volume can break.                               *)
THEOREM NothingLost == Spec => SettingsKept
<1>1. Guarded /\ TypeInv' /\ [Next]_vars
        => [ConfigInit /\ Orderly /\ (board.fragile => crashes < 2) => config' >= kept]_vars
  BY OrdStep DEF Fine
<1> QED BY <1>1, OrderlyAlways, Typed, PTL DEF Spec, SettingsKept

-------------------------------------------------------------------------------
(* The boot is short: each of its steps lowers a bounded rank, in which a  *)
(* verification that fails for the first time counts more than all that    *)
(* can follow it.                                                          *)

StepsLeft ==
  CASE pc[Main] = "check" -> 15
    [] pc[Main] \in {"formatPublic", "formatBackup"} -> 14
    [] pc[Main] \in {"defaultPublic", "defaultBackup"} -> 13
    [] pc[Main] \in {"flushDefault", "flushBackup"} -> 12
    [] pc[Main] = "restore" -> 12 - index[Main]
    [] pc[Main] = "flushRestored" -> 9
    [] pc[Main] = "verify" -> 8
    [] pc[Main] = "sync" -> 9 - 2 * index[Main]
    [] pc[Main] = "flushSynced" -> 8 - 2 * index[Main]
    [] pc[Main] = "load" -> 3
    [] OTHER -> 0

Rank == StepsLeft + (IF tries = 0 THEN 16 ELSE 0)

LEMMA RankBounded == ASSUME TypeInv PROVE Rank \in 0 .. 31
<1>1. index[Main] \in 1 .. 2 BY Names DEF TypeInv, TypeOK, Threads
<1> QED BY <1>1 DEF Rank, StepsLeft

LEMMA BootLowers ==
  ASSUME OrdInv, Boot
  PROVE  Rank' < Rank
<1> USE Names DEF Booting, Settled
<1>0. /\ TypeInv /\ Placed /\ Recovering /\ Main \in Threads
      /\ index \in [Threads -> 1 .. 2] /\ index[Main] \in 1 .. 2 /\ tries \in {0, 1}
  BY DEF OrdInv, Rest, TypeInv, TypeOK, Recovering, Threads
<1>1. CASE CheckBackup
  <2>1. pc[Main] = "check" /\ tries' = tries
        /\ \E l \in {"formatPublic", "formatBackup", "verify"} : Goto(Main, l)
    BY <1>1 DEF CheckBackup
  <2>2. pc'[Main] \in {"formatPublic", "formatBackup", "verify"} BY <1>0, <2>1, MainGoes
  <2> QED BY <2>1, <2>2 DEF Rank, StepsLeft
<1>2. CASE FormatPublic \/ FormatBackup
  <2>1. pc[Main] \in {"formatPublic", "formatBackup"} /\ tries' = tries
        /\ \E l \in {"defaultPublic", "defaultBackup"} : Goto(Main, l)
    BY <1>0, <1>2 DEF FormatPublic, FormatBackup, Recovering
  <2>2. pc'[Main] \in {"defaultPublic", "defaultBackup"} BY <1>0, <2>1, MainGoes
  <2> QED BY <2>1, <2>2 DEF Rank, StepsLeft
<1>3. CASE DefaultPublic \/ DefaultBackup
  <2>1. pc[Main] \in {"defaultPublic", "defaultBackup"} /\ tries' = tries
        /\ \E l \in {"flushDefault", "flushBackup"} : Goto(Main, l)
    BY <1>0, <1>3 DEF DefaultPublic, DefaultBackup, Recovering
  <2>2. pc'[Main] \in {"flushDefault", "flushBackup"} BY <1>0, <2>1, MainGoes
  <2> QED BY <2>1, <2>2 DEF Rank, StepsLeft
<1>4. CASE FlushDefault
  <2>1. pc[Main] = "flushDefault" /\ tries' = tries /\ index'[Main] = 1 /\ Goto(Main, "restore")
    BY <1>0, <1>4 DEF FlushDefault
  <2>2. pc'[Main] = "restore" BY <1>0, <2>1, MainGoes
  <2> QED BY <2>1, <2>2 DEF Rank, StepsLeft
<1>5. CASE Restore
  <2> DEFINE f == Listed[index[Main]]
  <2>1. pc[Main] = "restore" /\ tries' = tries /\ Both /\ Solid("backup") /\ f \in {"ini", "crc"}
    BY <1>0, <1>5 DEF Restore, Recovering, FromBackup
  <2>2. Exists("C", f) /\ Writable("B")
    BY <1>0, <2>1, BothHold, SolidHolds, Apart DEF Exists
  <2>3. index' = [index EXCEPT ![Main] = (@ % Len(Listed)) + 1]
        /\ (IF index[Main] = Len(Listed) THEN Goto(Main, "flushRestored") ELSE UNCHANGED pc)
    BY <1>5, <2>2 DEF Restore
  <2>4. CASE index[Main] = 1
    BY <1>0, <2>1, <2>3, <2>4 DEF Rank, StepsLeft
  <2>5. CASE index[Main] = 2
    <3>1. pc'[Main] = "flushRestored" BY <1>0, <2>3, <2>5, MainGoes
    <3> QED BY <2>1, <2>5, <3>1 DEF Rank, StepsLeft
  <2> QED BY <1>0, <2>4, <2>5
<1>6. CASE FlushRestored
  <2>1. pc[Main] \in {"flushBackup", "flushRestored"} /\ tries' = tries /\ Goto(Main, "verify")
    BY <1>6 DEF FlushRestored
  <2>2. pc'[Main] = "verify" BY <1>0, <2>1, MainGoes
  <2> QED BY <2>1, <2>2 DEF Rank, StepsLeft
<1>7. CASE Verify
  <2>1. pc[Main] = "verify" /\ index'[Main] = 1 /\ Both /\ Verifying
    BY <1>0, <1>7 DEF Verify, Recovering
  <2>2. CASE PublicIntact
    <3>1. tries' = tries /\ Goto(Main, "sync") BY <1>7, <2>2 DEF Verify
    <3>2. pc'[Main] = "sync" BY <1>0, <3>1, MainGoes
    <3> QED BY <2>1, <3>1, <3>2 DEF Rank, StepsLeft
  <2>3. CASE ~ PublicIntact
    <3>1. ~ Solid("public")
      BY <1>0, <2>1, <2>3, BothHold, SolidHolds DEF PublicIntact, Certified
    <3>2. tries = 0 BY <2>1, <3>1 DEF Verifying
    <3>3. tries' = 1 /\ Goto(Main, "restore") BY <1>7, <2>3, <3>2 DEF Verify
    <3>4. pc'[Main] = "restore" BY <1>0, <3>3, MainGoes
    <3> QED BY <2>1, <3>2, <3>3, <3>4 DEF Rank, StepsLeft
  <2> QED BY <2>2, <2>3
<1>8. ASSUME pc[Main] \in {"sync", "flushSynced"}, tries' = tries, NextSync, Goto(Main, AfterSync)
      PROVE  Rank' < Rank
  <2>1. CASE index[Main] = 1
    <3>1. Goto(Main, "sync") /\ index'[Main] = 2 BY <1>0, <1>8, <2>1 DEF NextSync, AfterSync
    <3>2. pc'[Main] = "sync" BY <1>0, <3>1, MainGoes
    <3> QED BY <1>8, <2>1, <3>1, <3>2 DEF Rank, StepsLeft
  <2>2. CASE index[Main] = 2
    <3>1. Goto(Main, "load") BY <1>8, <2>2 DEF AfterSync
    <3>2. pc'[Main] = "load" BY <1>0, <3>1, MainGoes
    <3> QED BY <1>8, <2>2, <3>2 DEF Rank, StepsLeft
  <2> QED BY <1>0, <2>1, <2>2
<1>9. CASE Sync
  <2> DEFINE f == Listed[index[Main]]
  <2>1. pc[Main] = "sync" /\ tries' = tries /\ Both /\ Solid("public") /\ Present("backup")
        /\ f \in {"ini", "crc"}
    BY <1>0, <1>9 DEF Sync, Recovering, FromPublic
  <2>2. Exists("B", f) /\ Exists("C", f)
    BY <1>0, <2>1, BothHold, SolidHolds DEF Exists, Present
  <2>3. CASE Holds("B", f) # Holds("C", f)
    <3>1. Goto(Main, "flushSynced") /\ index' = index BY <1>9, <2>2, <2>3 DEF Sync
    <3>2. pc'[Main] = "flushSynced" BY <1>0, <3>1, MainGoes
    <3> QED BY <1>0, <2>1, <3>1, <3>2 DEF Rank, StepsLeft
  <2>4. CASE Holds("B", f) = Holds("C", f)
    <3>1. NextSync /\ Goto(Main, AfterSync) BY <1>9, <2>2, <2>4 DEF Sync
    <3> QED BY <1>8, <2>1, <3>1
  <2> QED BY <2>3, <2>4
<1>10. CASE FlushSynced
  BY <1>8, <1>10 DEF FlushSynced
<1>11. CASE ConfigInit
  <2>1. pc[Main] = "load" /\ tries' = tries /\ Goto(Main, "run") BY <1>11 DEF ConfigInit
  <2>2. pc'[Main] = "run" BY <1>0, <2>1, MainGoes
  <2> QED BY <2>1, <2>2 DEF Rank, StepsLeft
<1>12. ~ Restart BY <1>0 DEF Recovering, Restart
<1> QED BY <1>1, <1>2, <1>3, <1>4, <1>5, <1>6, <1>7, <1>9, <1>10, <1>11, <1>12 DEF Boot

(* Between two power losses a board of that kind boots in at most 31       *)
(* steps: UpgradeInit fails once at the most, and the loops of BackupInit  *)
(* and BackupSyncFile go through their list once (SDL_main).               *)
THEOREM BootAdvances ==
  Spec => [](Rank \in 0 .. 31) /\ [][Boot /\ Orderly /\ Limited => Rank' < Rank]_vars
<1>1. TypeInv => Rank \in 0 .. 31 BY RankBounded
<1>2. ASSUME Guarded, Boot, Orderly, Limited PROVE Rank' < Rank
  BY <1>2, BootLowers DEF Guarded, OrdInv
<1>3. Guarded => [Boot /\ Orderly /\ Limited => Rank' < Rank]_vars BY <1>2
<1> QED BY <1>1, <1>3, OrderlyAlways, Typed, PTL
=============================================================================
