----------------------------- MODULE BootLoader -----------------------------
(***************************************************************************)
(* The boot loader (bootloader/main.c, upgrade.c, boot.c) and the blocks   *)
(* of an upgrade package (sdk/share/upgrade/ug_*.c).  The loader looks for *)
(* a package on a card at every start, checks and programs it, deletes it, *)
(* flushes the NOR cache, reports and restarts; without a package it       *)
(* starts the application, whose image it does not check.                  *)
(*                                                                         *)
(* The firmware is an image, written straight to the NOR flash, and the    *)
(* files of a FAT volume, written through the NOR cache: a power loss      *)
(* leaves any of the contents a file had since the last flush.  The card   *)
(* may be pulled and put in at any time.                                   *)
(***************************************************************************)
EXTENDS Naturals, Sequences

CONSTANTS
  Files,      \* the files of the package
  Package,    \* its blocks in order
  Builds,     \* configurations: [deletes, partitioning]
  Fragile,    \* can a power loss break a FAT volume that has unflushed writes?
  MaxLosses,  \* bound: power losses
  MaxFaults,  \* bound: failing reads and writes, disks that are not ready in time
  MaxSwaps    \* bound: cards put in

Idle   == {"unformatted", "directory"}   \* blocks that leave the firmware alone
Blocks == Idle \cup {"device", "rawdata", "partition", "end"} \cup Files

ASSUME PackageAssumption ==
  /\ Package \in Seq(Blocks)
  /\ Files \cap (Idle \cup {"device", "rawdata", "partition", "end"}) = {}
  /\ \A b \in Files \cup {"rawdata", "partition"} : \E i \in DOMAIN Package : Package[i] = b
  /\ \A i, j \in DOMAIN Package :
       Package[j] = "device" /\ Package[i] \in Files \cup {"partition"} => j < i
  /\ \A i \in DOMAIN Package :
       Package[i] \in Files => \E j \in 1 .. i - 1 : Package[j] = "partition"
  /\ \A i \in DOMAIN Package : Package[i] = "end" <=> i = Len(Package)

(* When is the disk partitioned: by FLAG_PARTITION, when its partitions are *)
(* not those of the package, or not at all (FLAG_NO_PARTITION).            *)
Partitioning == {"always", "missing", "never"}

ASSUME BuildAssumption ==
  /\ Builds \subseteq [deletes : BOOLEAN, partitioning : Partitioning]
  /\ Fragile \in BOOLEAN
  /\ {MaxLosses, MaxFaults, MaxSwaps} \subseteq Nat

Contents == {"old", "new", "torn", "missing"}
Volumes  == {"none", "raw", "fat"}   \* not partitioned, not formatted, in use
Held     == {"good", "damaged"}      \* a package on the card
Cards    == Held \cup {"empty", "out"}
Working  == {"read", "header", "program"}
Loader   == Working \cup {"open", "check", "delete", "flush", "report", "boot"}

VARIABLES
  build,     \* the configuration; never changes
  locked,    \* is the card write-protected?  never changes
  card,      \* what is in the slot
  image,     \* the firmware image in the flash
  volume, file,            \* the FAT volume as the running system sees it
  volumeLeft, fileLeft,    \* what a power loss may leave of it
  pc, at, ret,
  source,    \* the stream of the package: "none", "open" or "gone" with its card
  touched,   \* history: has a package been written?
  unseen,    \* history: the errors of this start that no result reports
  blame,     \* history: what stands between a half-written firmware and its repair
  losses, faults, swaps

fw      == <<image, volume, file, volumeLeft, fileLeft>>
control == <<pc, at, ret, source>>
rigid   == <<build, locked>>
counts  == <<losses, faults, swaps>>
past    == <<touched, unseen, blame>>
vars    == <<rigid, card, fw, control, past, counts>>

NoFiles == [f \in Files |-> "missing"]

(* The whole package is programmed; and no power loss takes it away.       *)
Whole   == image = "new" /\ volume = "fat" /\ file = [f \in Files |-> "new"]
Durable == /\ Whole
           /\ volumeLeft = {"fat"}
           /\ fileLeft = [f \in Files |-> {"new"}]
Mixed   == touched /\ ~ Durable

(* Has the cache something that is not in the flash?                       *)
Unflushed == volumeLeft # {volume} \/ fileLeft # [f \in Files |-> {file[f]}]

(* A flush of the NOR cache; a reset without one.                          *)
WriteBack ==
  /\ volumeLeft' = {volume}
  /\ fileLeft' = [f \in Files |-> {file[f]}]
  /\ UNCHANGED <<volume, file>>
LoseCache ==
  \E v \in volumeLeft, left \in [Files -> Contents] :
    /\ \A f \in Files : left[f] \in fileLeft[f]
    /\ volume' = v /\ volumeLeft' = {v}
    /\ file' = IF v = "fat" THEN left ELSE NoFiles
    /\ fileLeft' = [f \in Files |-> {file'[f]}]

Goto(l) == pc' = l
Fault   == faults < MaxFaults /\ faults' = faults + 1
(* The package cannot be read: its card is pulled, or the read fails.      *)
Unreadable == (source # "open" /\ UNCHANGED faults) \/ Fault
Unreported(e) == unseen' = unseen \cup {e}

-------------------------------------------------------------------------------
(* Starting: InitFileSystem and OpenUpgradePackage.                        *)

Open ==
  /\ pc = "open"
  /\ IF card \in Held THEN Goto("check") /\ source' = "open"
                      ELSE Goto("boot") /\ UNCHANGED source
  /\ UNCHANGED <<rigid, card, fw, at, ret, past, counts>>

(* The USB disk is not there, or not mounted, when the time is over.       *)
OpenLate ==
  /\ pc = "open" /\ card \in Held
  /\ Fault /\ Goto("boot")
  /\ blame' = IF Mixed THEN blame \cup {"late"} ELSE blame
  /\ UNCHANGED <<rigid, card, fw, at, ret, source, touched, unseen, losses, swaps>>

CheckCrcSkipped ==
  /\ pc = "check"
  /\ \/ /\ source = "open"
        /\ Goto("read") /\ at' = 1 /\ ret' = 0
        /\ UNCHANGED <<faults, unseen>>
     \/ /\ Unreadable /\ Unreported("crc")
        /\ Goto("delete") /\ ret' \in {0, 1} /\ UNCHANGED at
  /\ UNCHANGED <<rigid, card, fw, source, touched, blame, losses, swaps>>

(* ugCheckCrc.  When it fails nothing sets ret.                            *)
CheckCrc ==
  /\ pc = "check"
  /\ \/ /\ source = "open" /\ card = "good"
        /\ Goto("read") /\ at' = 1 /\ ret' = 0
        /\ UNCHANGED <<faults, unseen>>
     \/ /\ Unreadable \/ (card = "damaged" /\ UNCHANGED faults)
        /\ Unreported("crc")
        /\ Goto("delete") /\ ret' \in {0, 1} /\ UNCHANGED at
  /\ UNCHANGED <<rigid, card, fw, source, touched, blame, losses, swaps>>

-------------------------------------------------------------------------------
(* ugUpgradePackage.                                                       *)

End(r) == Goto("delete") /\ ret' = r
Next1  == Goto("read") /\ at' = at + 1 /\ UNCHANGED ret

(* A package header or a tag that cannot be read ends the loop with ret as *)
(* it is, which is 0.                                                      *)
ReadTag ==
  /\ pc = "read"
  /\ \/ source = "open" /\ Goto("header") /\ UNCHANGED <<ret, faults, unseen>>
     \/ Unreadable /\ End(ret) /\ Unreported("tag")
  /\ UNCHANGED <<rigid, card, fw, at, source, touched, blame, losses, swaps>>

(* The header of a block cannot be read; no memory, no room on the drive.  *)
HeaderFails ==
  /\ pc = "header" /\ Unreadable /\ End(1)
  /\ UNCHANGED <<rigid, card, fw, at, source, past, losses, swaps>>

Header(b) == pc = "header" /\ source = "open" /\ Package[at] = b
Program   == Goto("program") /\ touched' = TRUE /\ UNCHANGED <<at, ret>>
Worn      == IF Fragile THEN volumeLeft \cup {"raw"} ELSE volumeLeft

UpgradeEndMissed ==
  /\ Header("end") /\ Next1
  /\ UNCHANGED <<rigid, card, fw, source, past, counts>>

(* ugUpgradeEnd ignores the checksum it reads.                             *)
UpgradeEnd ==
  /\ Header("end") /\ End(0)
  /\ UNCHANGED <<rigid, card, fw, at, source, past, counts>>

(* ugUpgradeUnformatted, and ugUpgradeDirectory, which ignores mkdir.      *)
UpgradeIdle ==
  /\ \E b \in Idle : Header(b)
  /\ Next1
  /\ UNCHANGED <<rigid, card, fw, source, past, counts>>

UpgradeDeviceUnforced ==
  /\ Header("device")
  /\ IF volume = "none" /\ build.partitioning # "never"
     THEN /\ Program
          /\ volume' = "none" /\ file' = NoFiles
          /\ volumeLeft' = volumeLeft \cup {"none", "raw"}
          /\ fileLeft' = [f \in Files |-> fileLeft[f] \cup {"missing", "torn"}]
          /\ UNCHANGED image
     ELSE Next1 /\ UNCHANGED <<fw, touched>>
  /\ UNCHANGED <<rigid, card, source, unseen, blame, counts>>

(* ugUpgradeDevice: the disk is partitioned and its drives are formatted.  *)
UpgradeDevice ==
  /\ Header("device")
  /\ IF \/ build.partitioning = "always"
        \/ build.partitioning = "missing" /\ volume = "none"
     THEN /\ Program
          /\ volume' = "none" /\ file' = NoFiles
          /\ volumeLeft' = volumeLeft \cup {"none", "raw"}
          /\ fileLeft' = [f \in Files |-> fileLeft[f] \cup {"missing", "torn"}]
          /\ UNCHANGED image
     ELSE Next1 /\ UNCHANGED <<fw, touched>>
  /\ UNCHANGED <<rigid, card, source, unseen, blame, counts>>

(* ugUpgradePartition finds a drive only when it is mounted.               *)
UpgradePartition ==
  /\ Header("partition")
  /\ IF volume = "fat" THEN Next1 ELSE End(1) /\ UNCHANGED at
  /\ UNCHANGED <<rigid, card, fw, source, past, counts>>

(* ugUpgradeRawData: block by block, then verified.                        *)
UpgradeRawData ==
  /\ Header("rawdata") /\ Program
  /\ image' = "torn"
  /\ UNCHANGED <<rigid, card, volume, file, volumeLeft, fileLeft, source, unseen, blame, counts>>

(* ugUpgradeFile: fopen empties the file.                                  *)
UpgradeFile ==
  /\ \E f \in Files :
       /\ Header(f) /\ volume = "fat" /\ Program
       /\ file' = [file EXCEPT ![f] = "torn"]
       /\ fileLeft' = [fileLeft EXCEPT ![f] = @ \cup {"torn", "missing"}]
  /\ volumeLeft' = Worn
  /\ UNCHANGED <<rigid, card, image, volume, source, unseen, blame, counts>>

(* The rest of a block, when all of it can be read and written.            *)
Finish ==
  /\ pc = "program"
  /\ source = "open" \/ Package[at] = "device"
  /\ Next1
  /\ \/ /\ Package[at] = "device"
        /\ volume' = "fat"
        /\ volumeLeft' = volumeLeft \cup {"fat"}
        /\ UNCHANGED <<image, file, fileLeft>>
     \/ /\ Package[at] = "rawdata"
        /\ image' = "new"
        /\ UNCHANGED <<volume, file, volumeLeft, fileLeft>>
     \/ /\ Package[at] \in Files
        /\ file' = [file EXCEPT ![Package[at]] = "new"]
        /\ fileLeft' = [fileLeft EXCEPT ![Package[at]] = @ \cup {"new"}]
        /\ UNCHANGED <<image, volume, volumeLeft>>
  /\ UNCHANGED <<rigid, card, source, past, counts>>

(* What a failure leaves of a disk: it may have come to its partitions.    *)
FailedDisk ==
  /\ IF Package[at] = "device" THEN volume' \in {"none", "raw"} ELSE UNCHANGED volume
  /\ UNCHANGED <<image, file, volumeLeft, fileLeft>>

FailUnreported ==
  /\ pc = "program"
  /\ IF Package[at] = "device" THEN Fault ELSE Unreadable
  /\ FailedDisk /\ End(ret)
  /\ UNCHANGED <<rigid, card, at, source, past, losses, swaps>>

(* It cannot be read, or a write or the verification fails.                *)
Fail ==
  /\ pc = "program"
  /\ IF Package[at] = "device" THEN Fault ELSE Unreadable
  /\ FailedDisk /\ End(1)
  /\ UNCHANGED <<rigid, card, at, source, past, losses, swaps>>

(* An access to the volume replaces a page that the flush before it failed *)
(* to write (_NOR_cache_getPage): files written since the last flush are   *)
(* torn.  A page of the FAT counts as the files it lists.                  *)
LosePage ==
  /\ pc \in Working /\ volume = "fat" /\ Fault
  /\ \E lost \in SUBSET {f \in Files : fileLeft[f] # {file[f]}} :
       /\ lost # {}
       /\ file' = [f \in Files |-> IF f \in lost THEN "torn" ELSE file[f]]
       /\ fileLeft' = [f \in Files |-> IF f \in lost THEN fileLeft[f] \cup {"torn"} ELSE fileLeft[f]]
  /\ Unreported("page")
  /\ UNCHANGED <<rigid, card, image, volume, volumeLeft, control, touched, blame, losses, swaps>>

-------------------------------------------------------------------------------
(* The end of DoUpgrade.                                                   *)

(* DeleteUpgradePackage, whatever came of the upgrade: the file of that    *)
(* name on the card that is in the slot now.                               *)
Removes == build.deletes /\ ~ locked /\ card \in Held

DeletePackageOnSuccess ==
  /\ pc = "delete"
  /\ card' = IF Removes /\ ret = 0 THEN "empty" ELSE card
  /\ blame' = IF Removes /\ touched /\ ~ Whole THEN blame \cup {"deleted"} ELSE blame
  /\ Goto("flush")
  /\ UNCHANGED <<rigid, fw, at, ret, source, touched, unseen, counts>>

DeletePackageEver ==
  /\ pc = "delete"
  /\ card' = IF card \in Held THEN "empty" ELSE card
  /\ blame' = IF Removes /\ touched /\ ~ Whole THEN blame \cup {"deleted"} ELSE blame
  /\ Goto("flush")
  /\ UNCHANGED <<rigid, fw, at, ret, source, touched, unseen, counts>>

DeletePackage ==
  /\ pc = "delete"
  /\ card' = IF Removes THEN "empty" ELSE card
  /\ blame' = IF Removes /\ touched /\ ~ Whole THEN blame \cup {"deleted"} ELSE blame
  /\ Goto("flush")
  /\ UNCHANGED <<rigid, fw, at, ret, source, touched, unseen, counts>>

Flush ==
  /\ pc = "flush" /\ WriteBack
  /\ blame' = IF Whole THEN {} ELSE blame
  /\ Goto("report")
  /\ UNCHANGED <<rigid, card, image, at, ret, source, touched, unseen, counts>>

(* A write fails and ends the flush; iteFatNorFlush drops its result.      *)
FlushFails ==
  /\ pc = "flush" /\ Unflushed /\ Fault
  /\ Unreported("flush")
  /\ blame' = IF Mixed /\ card # "good" THEN blame \cup {"unflushed"} ELSE blame
  /\ Goto("report")
  /\ UNCHANGED <<rigid, card, fw, at, ret, source, touched, losses, swaps>>

(* Every start begins with no stream; ret and at are local.                *)
Start(l) == Goto(l) /\ at' = 0 /\ ret' = 0 /\ source' = "none" /\ unseen' = {}

ExitResetReturns ==
  /\ pc = "report"
  /\ Start("boot")
  /\ UNCHANGED <<rigid, card, fw, touched, blame, counts>>

(* "Upgrade failed" or "Upgrade finished", by ret.  exit flushes the NOR   *)
(* cache once more, which may fail as the flush before it, and resets.     *)
ExitReset ==
  /\ pc = "report" /\ Start("open")
  /\ \/ WriteBack /\ blame' = IF Whole THEN {} ELSE blame
     \/ Unflushed /\ LoseCache /\ UNCHANGED blame
  /\ UNCHANGED <<rigid, card, image, touched, counts>>

(* BootImage does not check the image it starts.                           *)
BootImage ==
  /\ pc = "boot"
  /\ Goto(IF image = "torn" THEN "hung" ELSE "app")
  /\ UNCHANGED <<rigid, card, fw, at, ret, source, past, counts>>

-------------------------------------------------------------------------------
(* The user.                                                               *)

PowerOn ==
  /\ pc = "off"
  /\ Start("open")
  /\ UNCHANGED <<rigid, card, fw, touched, blame, counts>>

PowerLoss ==
  /\ pc # "off" /\ losses < MaxLosses /\ losses' = losses + 1
  /\ Start("off") /\ LoseCache
  /\ UNCHANGED <<rigid, card, image, touched, faults, swaps>>
  /\ blame' = IF pc = "flush" /\ card # "good" /\ Mixed' THEN blame \cup {"unflushed"} ELSE blame

Pull ==
  /\ card # "out"
  /\ card' = "out"
  /\ source' = IF source = "open" THEN "gone" ELSE source
  /\ blame' = IF Mixed THEN blame \cup {"pulled"} ELSE blame
  /\ UNCHANGED <<rigid, fw, pc, at, ret, touched, unseen, counts>>

Insert ==
  /\ card = "out" /\ swaps < MaxSwaps /\ swaps' = swaps + 1
  /\ card' \in {"good", "damaged"}
  /\ UNCHANGED <<rigid, fw, control, past, losses, faults>>

-------------------------------------------------------------------------------
(* A board as it was made, with or without a first partition.              *)
Init ==
  /\ build \in Builds /\ locked \in BOOLEAN
  /\ card \in {"good", "damaged", "out"}
  /\ image = "old"
  /\ \/ volume = "fat" /\ file = [f \in Files |-> "old"]
     \/ volume = "none" /\ file = NoFiles
  /\ volumeLeft = {volume} /\ fileLeft = [f \in Files |-> {file[f]}]
  /\ pc = "off" /\ at = 0 /\ ret = 0 /\ source = "none"
  /\ touched = FALSE /\ unseen = {} /\ blame = {}
  /\ losses = 0 /\ faults = 0 /\ swaps = 0

UpgradeBlock ==
  \/ UpgradeEnd \/ UpgradeIdle \/ UpgradeDevice \/ UpgradePartition
  \/ UpgradeRawData \/ UpgradeFile \/ Finish \/ Fail
Upgrade == CheckCrc \/ ReadTag \/ HeaderFails \/ UpgradeBlock
DoUpgrade == Open \/ OpenLate \/ Upgrade \/ DeletePackage \/ Flush \/ FlushFails \/ ExitReset
User == PowerOn \/ PowerLoss \/ Pull \/ Insert
Next == DoUpgrade \/ BootImage \/ LosePage \/ User

Spec == Init /\ [][Next]_vars
FairSpec == Spec /\ WF_vars(DoUpgrade) /\ WF_vars(BootImage) /\ WF_vars(PowerOn)

-------------------------------------------------------------------------------
(* Every variable keeps its type (BootloaderMain, ugUpgradePackage).       *)
TypeOK ==
  /\ build \in Builds /\ locked \in BOOLEAN
  /\ card \in Cards
  /\ image \in Contents \ {"missing"}
  /\ volume \in Volumes /\ volumeLeft \in SUBSET Volumes
  /\ file \in [Files -> Contents] /\ fileLeft \in [Files -> SUBSET Contents]
  /\ pc \in Loader \cup {"off", "app", "hung"}
  /\ at \in 0 .. Len(Package) /\ ret \in {0, 1}
  /\ source \in {"none", "open", "gone"}
  /\ touched \in BOOLEAN
  /\ unseen \subseteq {"crc", "tag", "page", "flush"}
  /\ blame \subseteq {"late", "deleted", "unflushed", "pulled"}
  /\ losses \in 0 .. MaxLosses /\ faults \in 0 .. MaxFaults /\ swaps \in 0 .. MaxSwaps

(* Whatever power losses come, a firmware that is not whole can still be   *)
(* repaired: its package is in the slot, unless the user pulled it too     *)
(* early or the loader deleted it (DoUpgrade, DeleteUpgradePackage).       *)
Resumable ==
  Mixed /\ ~ (pc = "flush" /\ Whole) => card = "good" \/ blame # {}

(* BootImage starts a firmware that is only half of the new one only when  *)
(* the card was pulled before the end or was not ready in time, and, where *)
(* packages are deleted, also after a failure and when the cache did not   *)
(* reach the flash after the deletion.                                     *)
NoMixedBoot ==
  pc \in {"boot", "app", "hung"} /\ Mixed =>
    IF build.deletes THEN blame # {} ELSE blame \cap {"pulled", "late"} # {}

(* "Upgrade finished" is printed (DoUpgrade) of a firmware that is not all *)
(* in the flash only after one of four errors the results do not show,     *)
(* although ug.h promises 0 for OK only: ret is unset after a wrong        *)
(* checksum, stays 0 after a tag that cannot be read, and nothing tells of *)
(* a page or of a flush that was not written.                              *)
FinishedMeansProgrammed ==
  pc = "report" /\ ret = 0 /\ unseen = {} => Durable

(* Only a package whose checksum was right is written (ugCheckCrc).        *)
OnlyGoodProgrammed ==
  [][fw' # fw /\ pc \in Working => card = "good" \/ source = "gone"]_vars

(* Where packages are deleted, a board does not upgrade for ever: in the   *)
(* end it runs the application, or an image that hangs (DoUpgrade).        *)
Settles ==
  build.deletes /\ ~ locked => <>[](pc \in {"app", "hung"})

(* A package that partitions the disk gets installed, in spite of power    *)
(* losses, unless it is pulled or deleted or missed (DoUpgrade).           *)
Installs ==
  build.partitioning = "always" =>
    (pc = "check" /\ card = "good" ~> Durable \/ card # "good" \/ pc \in {"app", "hung"})
=============================================================================
