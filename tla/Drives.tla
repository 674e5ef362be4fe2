------------------------------- MODULE Drives -------------------------------
(***************************************************************************)
(* Removable media, from the slot to the GUI.  The interrupt of the SD     *)
(* slot and the tasks of the USB ports make an entry in the queue of       *)
(* itp_card.c for each disk that is put in or taken out; the probe task    *)
(* of itp_drive_openrtos.c mounts and unmounts it, which itp_fat.c records *)
(* in the table of drives; StorageCheck of storage.c, called once a frame  *)
(* by the GUI, compares that table, without a lock, with what it has told  *)
(* the GUI.                                                                *)
(*                                                                         *)
(* Each disk has one partition, and each USB port one disk.  The drives of *)
(* the NOR flash are always there and take no part; nor does the name of a *)
(* drive.                                                                  *)
(***************************************************************************)
EXTENDS Naturals, Sequences, FiniteSetsExt

CONSTANTS
  Sd,         \* the disk in the SD slot
  Msc,        \* the disks of the USB ports
  Letters,    \* how many drive letters are left for them: 1 .. Letters
  QueueLen,   \* QUEUE_LEN of itp_card.c
  MaxPlugs,   \* bound: disks put in or taken out in a behaviour
  None

ASSUME DrivesAssumption ==
  /\ Sd \notin Msc /\ None \notin Msc \cup {Sd}
  /\ Letters \in Nat \ {0} /\ None \notin 1 .. Letters
  /\ QueueLen \in Nat \ {0} /\ MaxPlugs \in Nat

Disks == Msc \cup {Sd}
Kinds == {"sd", "usb"}                    \* STORAGE_SD, STORAGE_USB
Kind(d) == IF d = Sd THEN "sd" ELSE "usb"
Letter == 1 .. Letters

VARIABLES
  plugged,    \* the disks that are there
  pulled,     \* USB disks taken out since the host driver has looked
  port,       \* what a USB port does with its disk
  active,     \* lunStatus: the USB disks that were reported as inserted
  queue,      \* cardQueue
  lost,       \* has the interrupt met a full queue?
  probe,      \* the probe task: where it is, and with which disk and letter
  table,      \* driveStatusTable
  diskAvail,  \* the disks with driveDiskAvail set
  storage,    \* storageTable: a letter, or None
  current,    \* storageCurrType
  plugs

vars == <<plugged, pulled, port, active, queue, lost, probe, table, diskAvail, storage,
          current, plugs>>

slots    == <<plugged, pulled, plugs>>
usb      == <<port, active>>
gui      == <<storage, current>>

Entry == [disk : Disks \cup {None}, avail : BOOLEAN]

TypeOK ==
  /\ plugged \subseteq Disks /\ pulled \subseteq Msc
  /\ port \in [Msc -> {"off", "poll", "in", "out", "reset"}]
  /\ active \subseteq Msc
  /\ queue \in Seq([disk : Disks, inserted : BOOLEAN])
  /\ Len(queue) <= QueueLen
  /\ lost \in BOOLEAN
  /\ probe \in [at : {"read", "insert", "mount", "avail", "mounted", "remove"},
                disk : Disks \cup {None}, letter : Letter \cup {None}]
  /\ table \in [Letter -> Entry]
  /\ diskAvail \subseteq Disks
  /\ storage \in [Kinds -> Letter \cup {None}]
  /\ current \in Kinds \cup {"internal"}
  /\ plugs \in 0 .. MaxPlugs

Reading == [at |-> "read", disk |-> None, letter |-> None]

Init ==
  /\ plugged = {} /\ pulled = {}
  /\ port = [d \in Msc |-> "off"] /\ active = {}
  /\ queue = << >> /\ lost = FALSE
  /\ probe = Reading
  /\ table = [l \in Letter |-> [disk |-> None, avail |-> FALSE]]
  /\ diskAvail = {}
  /\ storage = [k \in Kinds |-> None] /\ current = "internal"
  /\ plugs = 0

-----------------------------------------------------------------------------
\* Mutant: the interrupt is taken to find room always.
PlugSdUnbounded ==
  /\ plugs < MaxPlugs
  /\ plugged' = SymDiff(plugged, {Sd})
  /\ queue' = Append(queue, [disk |-> Sd, inserted |-> Sd \notin plugged])
  /\ plugs' = plugs + 1
  /\ UNCHANGED <<pulled, usb, lost, probe, table, diskAvail, gui>>

\* The card of the SD slot: an interrupt on both edges, which does not wait.
PlugSd ==
  /\ plugs < MaxPlugs
  /\ plugged' = SymDiff(plugged, {Sd})
  /\ IF Len(queue) < QueueLen
     THEN /\ queue' = Append(queue, [disk |-> Sd, inserted |-> Sd \notin plugged])
          /\ UNCHANGED lost
     ELSE /\ lost' = TRUE
          /\ UNCHANGED queue
  /\ plugs' = plugs + 1
  /\ UNCHANGED <<pulled, usb, probe, table, diskAvail, gui>>

PlugMsc(d) ==
  /\ plugs < MaxPlugs
  /\ plugged' = SymDiff(plugged, {d})
  /\ pulled' = pulled \cup (plugged \cap {d})
  /\ plugs' = plugs + 1
  /\ UNCHANGED <<usb, queue, lost, probe, table, diskAvail, gui>>

\* A disk that was taken out and put in again is another one to its driver.
Answers(d) == d \in plugged \ pulled

Port(d, at) == port' = [port EXCEPT ![d] = at]

\* An entry of a USB port waits until the queue has room.
CardWrite(d, inserted) ==
  /\ Len(queue) < QueueLen
  /\ queue' = Append(queue, [disk |-> d, inserted |-> inserted])

others == <<probe, table, diskAvail, gui, lost>>

\* One task of the host driver looks after all ports, and runs MscConnect and
\* MscDisconnect itself.
HostIdle == \A d \in Msc : port[d] # "reset"

MscConnect(d) ==
  /\ port[d] = "off" /\ HostIdle /\ d \in plugged
  /\ pulled' = pulled \ {d}
  /\ Port(d, "poll")
  /\ UNCHANGED <<plugged, plugs, active, queue, others>>

\* The polling task: it asks the disk, then reports what has changed.
MscStatus(d) ==
  /\ port[d] = "poll" /\ (Answers(d) # (d \in active))
  /\ Port(d, IF Answers(d) THEN "in" ELSE "out")
  /\ UNCHANGED <<slots, active, queue, others>>

MscReport(d) ==
  /\ port[d] \in {"in", "out"}
  /\ CardWrite(d, port[d] = "in")
  /\ active' = IF port[d] = "in" THEN active \cup {d} ELSE active \ {d}
  /\ Port(d, "poll")
  /\ UNCHANGED <<slots, others>>

\* Mutant: lunStatus is cleared without a report (MscStatusReset left out).
MscDisconnectSilent(d) ==
  /\ port[d] = "poll" /\ HostIdle /\ ~Answers(d)
  /\ pulled' = pulled \ {d}
  /\ active' = active \ {d}
  /\ Port(d, "off")
  /\ UNCHANGED <<plugged, plugs, queue, others>>

\* The polling task is joined, which waits for its report.
MscDisconnect(d) ==
  /\ port[d] = "poll" /\ HostIdle /\ ~Answers(d)
  /\ pulled' = pulled \ {d}
  /\ Port(d, IF d \in active THEN "reset" ELSE "off")
  /\ UNCHANGED <<plugged, plugs, active, queue, others>>

MscStatusReset(d) ==
  /\ port[d] = "reset"
  /\ CardWrite(d, FALSE)
  /\ active' = active \ {d}
  /\ Port(d, "off")
  /\ UNCHANGED <<slots, others>>

-----------------------------------------------------------------------------
\* The probe task.

Go(at) == probe' = [probe EXCEPT !.at = at]

CardRead ==
  /\ probe.at = "read" /\ queue # << >>
  /\ queue' = Tail(queue)
  /\ probe' = [Reading EXCEPT !.disk = Head(queue).disk,
                 !.at = IF Head(queue).inserted THEN "insert" ELSE "remove"]
  /\ UNCHANGED <<slots, usb, lost, table, diskAvail, gui>>

\* A disk known already, and a card of the SD slot that does not answer, are
\* left alone.
DriveMountCard ==
  /\ probe.at = "insert"
  /\ IF probe.disk \in diskAvail \/ (probe.disk = Sd /\ ~Answers(Sd))
     THEN probe' = Reading
     ELSE Go("mount")
  /\ UNCHANGED <<slots, usb, queue, lost, table, diskAvail, gui>>

\* The first letter that is free.
FirstFree(l) ==
  /\ ~table[l].avail
  /\ \A m \in 1 .. (l - 1) : table[m].avail

\* FatMount: without the disk there are no partitions.  The entry in the table
\* is written in two steps, and StorageCheck may look in between.
FatMount ==
  /\ probe.at = "mount"
  /\ IF Answers(probe.disk) /\ \E l \in Letter : FirstFree(l)
     THEN \E l \in Letter :
            /\ FirstFree(l)
            /\ table' = [table EXCEPT ![l].disk = probe.disk]
            /\ probe' = [probe EXCEPT !.at = "avail", !.letter = l]
     ELSE Go("mounted") /\ UNCHANGED table
  /\ UNCHANGED <<slots, usb, queue, lost, diskAvail, gui>>

SetAvail ==
  /\ probe.at = "avail"
  /\ table' = [table EXCEPT ![probe.letter].avail = TRUE]
  /\ Go("mounted")
  /\ UNCHANGED <<slots, usb, queue, lost, diskAvail, gui>>

\* driveDiskAvail is set also when the mount has failed.
Mounted ==
  /\ probe.at = "mounted"
  /\ diskAvail' = diskAvail \cup {probe.disk}
  /\ probe' = Reading
  /\ UNCHANGED <<slots, usb, queue, lost, table, gui>>

\* Mutant: the table keeps the letter of the disk.
DriveUnmountCardKept ==
  /\ probe.at = "remove"
  /\ diskAvail' = diskAvail \ {probe.disk}
  /\ probe' = Reading
  /\ UNCHANGED <<slots, usb, queue, lost, table, gui>>

DriveUnmountCard ==
  /\ probe.at = "remove"
  /\ IF probe.disk \in diskAvail
     THEN /\ table' = [l \in Letter |->
               IF table[l].avail /\ table[l].disk = probe.disk
               THEN [table[l] EXCEPT !.avail = FALSE] ELSE table[l]]
          /\ diskAvail' = diskAvail \ {probe.disk}
     ELSE UNCHANGED <<table, diskAvail>>
  /\ probe' = Reading
  /\ UNCHANGED <<slots, usb, queue, lost, gui>>

-----------------------------------------------------------------------------
\* The GUI.

\* Mutant: a storage is adopted only when it becomes the one in use.
InsertedFirst(l) ==
  /\ table[l].disk # None /\ table[l].avail
  /\ storage[Kind(table[l].disk)] = None /\ current = "internal"

\* What StorageCheck finds at a letter, in the order of its tests.
Inserted(l) ==
  table[l].disk # None /\ table[l].avail /\ storage[Kind(table[l].disk)] = None
Removed(l)  ==
  table[l].disk # None /\ ~table[l].avail /\ storage[Kind(table[l].disk)] = l

\* Mutant: the storage in use is left as it is when it is removed.
StorageCheckStale(l) ==
  /\ \A m \in 1 .. (l - 1) : ~Inserted(m) /\ ~Removed(m)
  /\ \/ /\ Inserted(l)
        /\ storage' = [storage EXCEPT ![Kind(table[l].disk)] = l]
        /\ current' = IF current = "internal" THEN Kind(table[l].disk)
                                              ELSE current
     \/ /\ Removed(l)
        /\ storage' = [storage EXCEPT ![Kind(table[l].disk)] = None]
        /\ UNCHANGED current
  /\ UNCHANGED <<slots, usb, queue, lost, probe, table, diskAvail>>

\* One call of StorageCheck reports at most one change: that of the first letter.
StorageCheck(l) ==
  /\ \A m \in 1 .. (l - 1) : ~Inserted(m) /\ ~Removed(m)
  /\ \/ /\ Inserted(l)
        /\ storage' = [storage EXCEPT ![Kind(table[l].disk)] = l]
        /\ current' = IF current = "internal" THEN Kind(table[l].disk)
                                              ELSE current
     \/ /\ Removed(l)
        /\ storage' = [storage EXCEPT ![Kind(table[l].disk)] = None]
        /\ current' = IF current # Kind(table[l].disk) THEN current
                      ELSE IF \E k \in Kinds : storage'[k] # None
                           THEN CHOOSE k \in Kinds : storage'[k] # None
                           ELSE "internal"
  /\ UNCHANGED <<slots, usb, queue, lost, probe, table, diskAvail>>

\* The radio buttons of the players; the one of a removed storage is disabled.
StorageSetCurrType(k) ==
  /\ k \in {"internal"} \cup {j \in Kinds : storage[j] # None}
  /\ current' = k
  /\ UNCHANGED <<slots, usb, queue, lost, probe, table, diskAvail, storage>>

-----------------------------------------------------------------------------
ProbeTask == CardRead \/ DriveMountCard \/ FatMount \/ SetAvail
             \/ Mounted \/ DriveUnmountCard

UsbTask(d) == MscConnect(d) \/ MscStatus(d) \/ MscReport(d)
              \/ MscDisconnect(d) \/ MscStatusReset(d)

Poll   == \E l \in Letter : StorageCheck(l)
Usb    == \E d \in Msc : PlugMsc(d) \/ UsbTask(d)
Press  == \E k \in Kinds \cup {"internal"} : StorageSetCurrType(k)

Next == PlugSd \/ Usb \/ ProbeTask \/ Poll \/ Press

Spec == Init /\ [][Next]_vars

\* The tasks run for ever; nobody has to touch a slot or a button.
FairSpec ==
  /\ Spec
  /\ \A d \in Msc : WF_vars(UsbTask(d))
  /\ WF_vars(ProbeTask) /\ WF_vars(Poll)

-----------------------------------------------------------------------------
Mounts(d) == {l \in Letter : table[l].avail /\ table[l].disk = d}

(***************************************************************************)
(* No disk is mounted on two letters, and the only letter of a disk the    *)
(* probe task does not know is the one it is mounting                      *)
(* (itp_drive_openrtos.c:181 and 326 keep driveDiskAvail for that).        *)
(***************************************************************************)
OneLetter ==
  \A d \in Disks :
    /\ \A l, m \in Mounts(d) : l = m
    /\ Mounts(d) # {} => d \in diskAvail \/ probe.disk = d

(***************************************************************************)
(* The storage in use is one the GUI was told of (storage.c:93-99 and      *)
(* 122-128 choose another one when it is removed).                         *)
(***************************************************************************)
CurrentKnown == current # "internal" => storage[current] # None

(***************************************************************************)
(* When nothing is touched any more, and the interrupt has never met a     *)
(* full queue, the disks mounted are the ones that are there.              *)
(***************************************************************************)
MountsFollow ==
  <>[](lost \/ \A d \in Disks : d \in plugged <=> Mounts(d) # {})

(***************************************************************************)
(* A kind of storage that stays available is known to the GUI sooner or    *)
(* later, whatever happens to the other disks.                             *)
(***************************************************************************)
Available(k) == \E d \in Disks : Kind(d) = k /\ Mounts(d) # {}

InsertionTold ==
  \A k \in Kinds : []<>(Available(k) => storage[k] # None)

(***************************************************************************)
(* scene.h:32 and 34, "SD card removed." and "USB drive removed.": the GUI *)
(* is told sooner or later that a kind of storage is gone.                 *)
(***************************************************************************)
RemovalTold ==
  \A k \in Kinds : []<>(storage[k] # None => Available(k))

=============================================================================
