-------------------------- MODULE BootLoader_proofs --------------------------
(***************************************************************************)
(* Proofs about BootLoader, for any package, any configuration and any     *)
(* number of power losses, faults and cards.                               *)
(***************************************************************************)
EXTENDS BootLoader, TLAPS

(* While a package is programmed its stream can be read only if the card   *)
(* that was checked is still in.                                           *)
Reading ==
  pc \in Working =>
    /\ source \in {"open", "gone"}
    /\ source = "open" => card = "good"
    /\ at \in 1 .. Len(Package) /\ ret = 0

(* The block that is being programmed is not whole.                        *)
InBlock ==
  pc = "program" =>
    /\ touched
    /\ \/ Package[at] = "device" /\ volume = "none"
       \/ Package[at] = "rawdata" /\ image = "torn"
       \/ Package[at] \in Files /\ file[Package[at]] = "torn"

(* What the blocks before this one wrote is still there, when nothing went *)
(* wrong unseen.                                                           *)
Done(b) ==
  /\ b = "rawdata" => image = "new"
  /\ b = "partition" => volume = "fat"
  /\ b \in Files => file[b] = "new"
DoneBefore == pc \in Working /\ unseen = {} => \A i \in 1 .. at - 1 :
                Done(Package[i]) \/ (pc = "program" /\ Package[i] = Package[at])
WholeAtEnd == pc \in {"delete", "flush", "report"} /\ ret = 0 /\ unseen = {} => Whole
FlushedAtEnd == pc = "report" /\ Whole /\ unseen = {} => Durable
Progress == DoneBefore /\ WholeAtEnd /\ FlushedAtEnd

(* A loader that keeps packages loses one only to the user.                *)
Kept == ~ build.deletes /\ Mixed => card = "good" \/ "pulled" \in blame

IInv == TypeOK /\ Reading /\ InBlock /\ Progress /\ Kept /\ Resumable /\ NoMixedBoot

-----------------------------------------------------------------------------
LEMMA PackageTyped ==
  /\ Len(Package) \in Nat /\ DOMAIN Package = 1 .. Len(Package)
  /\ \A i \in 1 .. Len(Package) : Package[i] \in Blocks
BY PackageAssumption

(* After a block that is not the last one there is another.                *)
LEMMA AnotherBlock ==
  ASSUME NEW i \in 1 .. Len(Package), Package[i] # "end"
  PROVE  i + 1 \in 1 .. Len(Package)
BY PackageTyped, PackageAssumption

(* When all blocks before the last one are done the firmware is whole.     *)
LEMMA AllDone ==
  ASSUME TypeOK, at = Len(Package), \A i \in 1 .. at - 1 : Done(Package[i])
  PROVE  Whole
<1>1. \A b \in Files \cup {"rawdata", "partition"} : Done(b)
  <2>1. TAKE b \in Files \cup {"rawdata", "partition"}
  <2>2. PICK i \in 1 .. Len(Package) : Package[i] = b
    BY PackageTyped, PackageAssumption
  <2>3. b # "end"
    BY PackageAssumption
  <2>4. i # Len(Package)
    BY <2>2, <2>3, PackageTyped, PackageAssumption
  <2>5. i \in 1 .. at - 1
    BY <2>2, <2>4, PackageTyped
  <2> QED
    BY <2>2, <2>5
<1>2. image = "new" /\ volume = "fat"
  BY <1>1 DEF Done
<1>3. \A f \in Files : file[f] = "new"
  BY <1>1 DEF Done
<1>4. file = [f \in Files |-> "new"]
  BY <1>3 DEF TypeOK
<1> QED
  BY <1>2, <1>4 DEF Whole

-----------------------------------------------------------------------------
(* Type correctness.                                                       *)

Control == Open \/ OpenLate \/ CheckCrc \/ ReadTag \/ HeaderFails \/ UpgradeEnd
           \/ UpgradeIdle \/ UpgradePartition \/ FlushFails \/ BootImage \/ PowerOn
Cards1  == DeletePackage \/ Pull \/ Insert
Writes  == UpgradeDevice \/ UpgradeRawData \/ UpgradeFile \/ Finish \/ Fail \/ LosePage
           \/ Flush \/ ExitReset \/ PowerLoss

LEMMA NextCases == Next => Control \/ Cards1 \/ Writes
BY DEF Next, DoUpgrade, Upgrade, UpgradeBlock, User, Control, Cards1, Writes

LEMMA FaultTyped == ASSUME TypeOK, Fault PROVE faults' \in 0 .. MaxFaults
BY BuildAssumption DEF TypeOK, Fault

(* The steps that leave the firmware and the card alone.                   *)
LEMMA ControlKeeps ==
  ASSUME Control
  PROVE  UNCHANGED <<rigid, card, fw, touched, losses, swaps>>
BY DEF Control, Open, OpenLate, CheckCrc, ReadTag, HeaderFails, UpgradeEnd, UpgradeIdle,
   UpgradePartition, FlushFails, BootImage, PowerOn, Header, Start, counts, past, rigid

LEMMA ControlTyped ==
  ASSUME TypeOK, Reading, Control
  PROVE  TypeOK'
<1>1. Len(Package) \in Nat /\ (Len(Package) # 0 => 1 \in 0 .. Len(Package))
  BY PackageTyped
<1>2. \E i \in 1 .. Len(Package) : Package[i] = "rawdata"
  BY PackageTyped, PackageAssumption
<1>3. faults' \in 0 .. MaxFaults
  <2>1. CASE Fault
    BY <2>1, FaultTyped
  <2>2. CASE UNCHANGED faults
    BY <2>2 DEF TypeOK
  <2> QED
    BY <2>1, <2>2 DEF Control, Open, OpenLate, CheckCrc, ReadTag, HeaderFails, UpgradeEnd,
       UpgradeIdle, UpgradePartition, FlushFails, BootImage, PowerOn, Unreadable, counts
<1>4. at' \in 0 .. Len(Package)
  <2>1. CASE Open \/ OpenLate \/ ReadTag \/ HeaderFails \/ UpgradeEnd \/ FlushFails \/ BootImage
    BY <2>1 DEF Open, OpenLate, ReadTag, HeaderFails, UpgradeEnd, FlushFails, BootImage, TypeOK
  <2>2. CASE CheckCrc
    BY <2>2, <1>1, <1>2 DEF CheckCrc, TypeOK
  <2>3. CASE PowerOn
    BY <2>3, <1>1 DEF PowerOn, Start
  <2>4. CASE UpgradeIdle
    <3>1. Package[at] \in Idle /\ at \in 1 .. Len(Package)
      BY <2>4 DEF UpgradeIdle, Header, Reading, Working
    <3>2. Package[at] # "end"
      BY <3>1 DEF Idle
    <3> QED
      BY <2>4, <3>1, <3>2, AnotherBlock, <1>1 DEF UpgradeIdle, Next1
  <2>5. CASE UpgradePartition
    <3>1. Package[at] # "end" /\ at \in 1 .. Len(Package)
      BY <2>5 DEF UpgradePartition, Header, Reading, Working
    <3> QED
      BY <2>5, <3>1, AnotherBlock, <1>1 DEF UpgradePartition, Next1, TypeOK
  <2> QED
    BY <2>1, <2>2, <2>3, <2>4, <2>5 DEF Control
<1>5. ret' \in {0, 1} /\ source' \in {"none", "open", "gone"}
  BY DEF Control, Open, OpenLate, CheckCrc, ReadTag, HeaderFails, UpgradeEnd, UpgradeIdle,
     UpgradePartition, FlushFails, BootImage, PowerOn, Start, End, Next1, TypeOK
<1>6. pc' \in Loader \cup {"off", "app", "hung"}
  BY DEF Control, Open, OpenLate, CheckCrc, ReadTag, HeaderFails, UpgradeEnd, UpgradeIdle,
     UpgradePartition, FlushFails, BootImage, PowerOn, Start, End, Next1, Goto, TypeOK,
     Loader, Working
<1>7. blame' \subseteq {"late", "deleted", "unflushed", "pulled"}
  BY DEF Control, Open, OpenLate, CheckCrc, ReadTag, HeaderFails, UpgradeEnd, UpgradeIdle,
     UpgradePartition, FlushFails, BootImage, PowerOn, past, TypeOK
<1>8. unseen' \subseteq {"crc", "tag", "page", "flush"}
  BY DEF Control, Open, OpenLate, CheckCrc, ReadTag, HeaderFails, UpgradeEnd, UpgradeIdle,
     UpgradePartition, FlushFails, BootImage, PowerOn, Unreported, Start, past, TypeOK
<1> QED
  BY <1>3, <1>4, <1>5, <1>6, <1>7, <1>8, ControlKeeps DEF TypeOK, rigid, fw

LEMMA CardsTyped ==
  ASSUME TypeOK, Cards1
  PROVE  TypeOK'
<1>1. card' \in Cards /\ blame' \subseteq {"late", "deleted", "unflushed", "pulled"}
  BY DEF TypeOK, Cards1, DeletePackage, Pull, Insert, Cards, Held, past
<1>2. swaps' \in 0 .. MaxSwaps
  BY BuildAssumption DEF TypeOK, Cards1, DeletePackage, Pull, Insert, counts
<1>3. /\ pc' \in Loader \cup {"off", "app", "hung"}
      /\ source' \in {"none", "open", "gone"}
  BY DEF TypeOK, Cards1, DeletePackage, Pull, Insert, Goto, Loader, control
<1>4. UNCHANGED <<rigid, fw, at, ret, touched, unseen, losses, faults>>
  BY DEF Cards1, DeletePackage, Pull, Insert, counts, control, past
<1> QED
  BY <1>1, <1>2, <1>3, <1>4 DEF TypeOK, rigid, fw

LEMMA LoseCacheTyped ==
  ASSUME TypeOK, LoseCache
  PROVE  /\ volume' \in Volumes /\ volumeLeft' \in SUBSET Volumes
         /\ file' \in [Files -> Contents] /\ fileLeft' \in [Files -> SUBSET Contents]
<1>1. /\ volume' \in Volumes /\ volumeLeft' \in SUBSET Volumes
      /\ file' \in [Files -> Contents]
  BY DEF LoseCache, TypeOK, NoFiles, Contents
<1>2. fileLeft' \in [Files -> SUBSET Contents]
  BY <1>1 DEF LoseCache
<1> QED
  BY <1>1, <1>2

LEMMA WriteBackTyped ==
  ASSUME TypeOK, WriteBack
  PROVE  /\ volume' \in Volumes /\ volumeLeft' \in SUBSET Volumes
         /\ file' \in [Files -> Contents] /\ fileLeft' \in [Files -> SUBSET Contents]
BY DEF WriteBack, TypeOK, Contents, Volumes

LEMMA StartTyped ==
  ASSUME NEW l \in {"off", "open"}, Start(l)
  PROVE  /\ pc' \in Loader \cup {"off"} /\ at' \in 0 .. Len(Package) /\ ret' \in {0, 1}
         /\ source' \in {"none", "open", "gone"} /\ unseen' = {}
BY PackageTyped DEF Start, Goto, Loader

LEMMA WritesTyped ==
  ASSUME TypeOK, Reading, Writes
  PROVE  TypeOK'
<1>1. Len(Package) \in Nat
  BY PackageTyped
<1>2. CASE UpgradeDevice
  <2>1. at \in 1 .. Len(Package) /\ Package[at] # "end"
    BY <1>2 DEF UpgradeDevice, Header, Reading, Working
  <2>2. at + 1 \in 0 .. Len(Package)
    BY <2>1, AnotherBlock, <1>1
  <2>3. pc' \in Loader /\ at' \in 0 .. Len(Package) /\ touched' \in BOOLEAN /\ ret' \in {0, 1}
    BY <1>2, <2>2 DEF UpgradeDevice, Program, Next1, Goto, TypeOK, Loader, Working
  <2>4. /\ image' \in Contents \ {"missing"}
        /\ volume' \in Volumes /\ volumeLeft' \in SUBSET Volumes
        /\ file' \in [Files -> Contents] /\ fileLeft' \in [Files -> SUBSET Contents]
    <3>1. CASE UNCHANGED fw
      BY <3>1 DEF TypeOK, fw
    <3>2. CASE ~ UNCHANGED fw
      <4>1. /\ volume' = "none" /\ UNCHANGED image /\ file' = NoFiles
            /\ volumeLeft' = volumeLeft \cup {"none", "raw"}
            /\ fileLeft' = [f \in Files |-> fileLeft[f] \cup {"missing", "torn"}]
        BY <1>2, <3>2 DEF UpgradeDevice
      <4>2. fileLeft' \in [Files -> SUBSET Contents]
        BY <4>1 DEF TypeOK, Contents
      <4>3. file' \in [Files -> Contents]
        BY <4>1 DEF NoFiles, Contents
      <4> QED
        BY <4>1, <4>2, <4>3 DEF TypeOK, Volumes
    <3> QED
      BY <3>1, <3>2
  <2>5. UNCHANGED <<rigid, card, source, unseen, blame, counts>>
    BY <1>2 DEF UpgradeDevice
  <2> QED
    BY <2>3, <2>4, <2>5 DEF TypeOK, rigid, counts
<1>3. CASE UpgradeRawData
  BY <1>3 DEF UpgradeRawData, Program, Goto, TypeOK, Contents, rigid, counts, Loader, Working
<1>4. CASE UpgradeFile
  BY <1>4 DEF UpgradeFile, Program, Goto, TypeOK, Worn, Contents, Volumes, rigid, counts,
     Loader, Working
<1>5. CASE Finish
  <2>1. at \in 1 .. Len(Package)
    BY <1>5 DEF Finish, Reading, Working
  <2>2. Package[at] # "end"
    BY <1>5, PackageAssumption DEF Finish
  <2>3. at + 1 \in 0 .. Len(Package)
    BY <2>1, <2>2, AnotherBlock, <1>1
  <2>4. /\ image' \in Contents \ {"missing"}
        /\ volume' \in Volumes /\ volumeLeft' \in SUBSET Volumes
        /\ file' \in [Files -> Contents] /\ fileLeft' \in [Files -> SUBSET Contents]
    <3>1. CASE UNCHANGED <<file, fileLeft>>
      BY <1>5, <3>1 DEF Finish, TypeOK, Contents, Volumes
    <3>2. CASE ~ UNCHANGED <<file, fileLeft>>
      <4>1. /\ Package[at] \in Files /\ UNCHANGED <<image, volume, volumeLeft>>
            /\ file' = [file EXCEPT ![Package[at]] = "new"]
            /\ fileLeft' = [fileLeft EXCEPT ![Package[at]] = @ \cup {"new"}]
        BY <1>5, <3>2 DEF Finish
      <4>2. file' \in [Files -> Contents]
        BY <4>1 DEF TypeOK, Contents
      <4>3. fileLeft' \in [Files -> SUBSET Contents]
        BY <4>1 DEF TypeOK, Contents
      <4> QED
        BY <4>1, <4>2, <4>3 DEF TypeOK
    <3> QED
      BY <3>1, <3>2
  <2>5. /\ pc' \in Loader /\ at' \in 0 .. Len(Package) /\ UNCHANGED ret
        /\ UNCHANGED <<rigid, card, source, past, counts>>
    BY <1>5, <2>3 DEF Finish, Next1, Goto, Loader, Working
  <2> QED
    BY <2>4, <2>5 DEF TypeOK, rigid, counts, past
<1>6. CASE Flush
  BY <1>6, WriteBackTyped DEF Flush, Goto, TypeOK, rigid, counts, Loader
<1>7. CASE PowerLoss
  <2>1. losses' \in 0 .. MaxLosses
    BY <1>7, BuildAssumption DEF PowerLoss, TypeOK
  <2>2. blame' \subseteq {"late", "deleted", "unflushed", "pulled"}
    BY <1>7 DEF PowerLoss, TypeOK
  <2>3. UNCHANGED <<rigid, card, image, touched, faults, swaps>> /\ Start("off") /\ LoseCache
    BY <1>7 DEF PowerLoss
  <2> QED
    BY <2>1, <2>2, <2>3, LoseCacheTyped, StartTyped DEF TypeOK, rigid
<1>8. CASE ExitReset
  <2>1. WriteBack \/ LoseCache
    BY <1>8 DEF ExitReset
  <2>2. /\ volume' \in Volumes /\ volumeLeft' \in SUBSET Volumes
        /\ file' \in [Files -> Contents] /\ fileLeft' \in [Files -> SUBSET Contents]
    BY <2>1, LoseCacheTyped, WriteBackTyped
  <2>3. blame' \subseteq {"late", "deleted", "unflushed", "pulled"}
    BY <1>8 DEF ExitReset, TypeOK
  <2>4. UNCHANGED <<rigid, card, image, touched, counts>> /\ Start("open")
    BY <1>8 DEF ExitReset
  <2> QED
    BY <2>2, <2>3, <2>4, StartTyped DEF TypeOK, rigid, counts
<1>9. CASE Fail
  <2>1. faults' \in 0 .. MaxFaults
    BY <1>9, FaultTyped DEF Fail, Unreadable, TypeOK
  <2>2. volume' \in Volumes /\ UNCHANGED <<image, file, volumeLeft, fileLeft>>
    BY <1>9 DEF Fail, FailedDisk, Volumes, TypeOK
  <2>3. /\ pc' = "delete" /\ ret' = 1
        /\ UNCHANGED <<rigid, card, at, source, past, losses, swaps>>
    BY <1>9 DEF Fail, End, Goto
  <2> QED
    BY <2>1, <2>2, <2>3 DEF TypeOK, rigid, past, Loader
<1>10. CASE LosePage
  <2>1. faults' \in 0 .. MaxFaults
    BY <1>10, FaultTyped DEF LosePage
  <2>2. PICK lost : /\ file' = [f \in Files |-> IF f \in lost THEN "torn" ELSE file[f]]
                    /\ fileLeft' = [f \in Files |-> IF f \in lost THEN fileLeft[f] \cup {"torn"}
                                                               ELSE fileLeft[f]]
    BY <1>10 DEF LosePage
  <2>3. file' \in [Files -> Contents]
    BY <2>2 DEF TypeOK, Contents
  <2>4. fileLeft' \in [Files -> SUBSET Contents]
    BY <2>2 DEF TypeOK, Contents
  <2>5. /\ unseen' \subseteq {"crc", "tag", "page", "flush"}
        /\ UNCHANGED <<rigid, card, image, volume, volumeLeft, control, touched, blame, losses, swaps>>
    BY <1>10 DEF LosePage, Unreported, TypeOK
  <2> QED
    BY <2>1, <2>3, <2>4, <2>5 DEF TypeOK, rigid, control
<1> QED
  BY <1>2, <1>3, <1>4, <1>5, <1>6, <1>7, <1>8, <1>9, <1>10 DEF Writes

LEMMA NextTyped == ASSUME TypeOK, Reading, Next PROVE TypeOK'
BY NextCases, ControlTyped, CardsTyped, WritesTyped

LEMMA InitTyped == ASSUME Init PROVE TypeOK
<1>1. /\ image \in Contents \ {"missing"}
      /\ volume \in Volumes /\ volumeLeft \in SUBSET Volumes
      /\ file \in [Files -> Contents]
  BY DEF Init, NoFiles, Contents, Volumes
<1>2. fileLeft \in [Files -> SUBSET Contents]
  BY <1>1 DEF Init
<1>3. card \in Cards /\ build \in Builds
  BY DEF Init, Cards, Held
<1>4. losses \in 0 .. MaxLosses /\ faults \in 0 .. MaxFaults /\ swaps \in 0 .. MaxSwaps
  BY BuildAssumption DEF Init
<1>5. at \in 0 .. Len(Package)
  BY PackageTyped DEF Init
<1> QED
  BY <1>1, <1>2, <1>3, <1>4, <1>5 DEF Init, TypeOK

-----------------------------------------------------------------------------
(* The stream and the blocks.                                              *)

LEMMA ReadingStep == ASSUME TypeOK, Reading, Next PROVE Reading'
<1>1. Len(Package) \in Nat /\ 1 \in 1 .. Len(Package)
  <2>1. PICK i \in 1 .. Len(Package) : Package[i] = "rawdata"
    BY PackageTyped, PackageAssumption
  <2> QED
    BY <2>1, PackageTyped
<1>2. ASSUME Next1, Package[at] # "end", pc \in Working PROVE at' \in 1 .. Len(Package)
  BY <1>2, AnotherBlock DEF Next1, Reading
<1>3. CASE Control
  <2>1. CASE CheckCrc
    BY <2>1, <1>1 DEF CheckCrc, Reading, Goto, Working
  <2>2. CASE UpgradeIdle \/ UpgradePartition
    <3>1. source = "open" /\ pc \in Working /\ Package[at] # "end"
      BY <2>2 DEF UpgradeIdle, UpgradePartition, Header, Working, Idle
    <3> QED
      BY <2>2, <3>1, <1>2 DEF UpgradeIdle, UpgradePartition, Reading, Next1, End, Goto, Working
  <2>3. CASE ReadTag
    BY <2>3 DEF ReadTag, Reading, End, Goto, Working
  <2>4. CASE Open \/ OpenLate \/ HeaderFails \/ UpgradeEnd \/ FlushFails \/ BootImage \/ PowerOn
    <3>1. pc' \notin Working
      BY <2>4 DEF Open, OpenLate, HeaderFails, UpgradeEnd, FlushFails, BootImage, PowerOn,
         Start, End, Goto, Working
    <3> QED
      BY <3>1 DEF Reading
  <2> QED
    BY <1>3, <2>1, <2>2, <2>3, <2>4 DEF Control
<1>4. CASE DeletePackage \/ Flush \/ PowerLoss \/ ExitReset \/ Fail
  BY <1>4 DEF DeletePackage, Flush, PowerLoss, ExitReset, Fail, Start, End, Goto, Reading, Working
<1>5. CASE Pull
  BY <1>5 DEF Pull, Reading
<1>6. CASE Insert
  BY <1>6 DEF Insert, Reading, control
<1>7. CASE UpgradeDevice \/ UpgradeRawData \/ UpgradeFile
  <2>1. source = "open" /\ pc \in Working /\ (Package[at] # "end" \/ Program)
    BY <1>7 DEF UpgradeDevice, UpgradeRawData, UpgradeFile, Header, Working
  <2>2. (Next1 \/ Program) /\ UNCHANGED <<card, source>>
    BY <1>7 DEF UpgradeDevice, UpgradeRawData, UpgradeFile, fw
  <2> QED
    BY <2>1, <2>2, <1>2 DEF Reading, Next1, Program, Goto, Working
<1>8. CASE Finish
  <2>1. pc \in Working /\ Package[at] # "end" /\ Next1 /\ UNCHANGED <<card, source>>
    BY <1>8, PackageAssumption DEF Finish, Working
  <2> QED
    BY <2>1, <1>2 DEF Reading, Next1, Goto, Working
<1>9. CASE LosePage
  BY <1>9 DEF LosePage, Reading, control
<1> QED
  BY <1>3, <1>4, <1>5, <1>6, <1>7, <1>8, <1>9, NextCases DEF Cards1, Writes

LEMMA InBlockStep == ASSUME TypeOK, InBlock, Next PROVE InBlock'
<1>1. CASE Control
  <2>1. pc' # "program"
    BY <1>1 DEF Control, Open, OpenLate, CheckCrc, ReadTag, HeaderFails, UpgradeEnd, UpgradeIdle,
       UpgradePartition, FlushFails, BootImage, PowerOn, Start, End, Next1, Goto
  <2> QED
    BY <2>1 DEF InBlock
<1>2. CASE Cards1
  BY <1>2 DEF Cards1, DeletePackage, Pull, Insert, Goto, InBlock, fw, control, past
<1>3. CASE UpgradeDevice
  BY <1>3 DEF UpgradeDevice, Header, Program, Next1, Goto, InBlock
<1>4. CASE UpgradeRawData
  BY <1>4 DEF UpgradeRawData, Header, Program, Goto, InBlock
<1>5. CASE UpgradeFile
  BY <1>5 DEF UpgradeFile, Header, Program, Goto, InBlock, TypeOK
<1>6. CASE Finish \/ Fail \/ Flush \/ ExitReset \/ PowerLoss
  BY <1>6 DEF Finish, Fail, Flush, ExitReset, PowerLoss, Start, Next1, End, Goto, InBlock
<1>7. CASE LosePage
  BY <1>7 DEF LosePage, InBlock, control, TypeOK
<1> QED
  BY <1>1, <1>2, <1>3, <1>4, <1>5, <1>6, <1>7, NextCases DEF Writes

(* A firmware in the middle of a block is not whole.                       *)
LEMMA InBlockMixed ==
  ASSUME TypeOK, InBlock, pc = "program"
  PROVE  touched /\ ~ Whole
BY DEF InBlock, Whole, TypeOK

-----------------------------------------------------------------------------
(* What is programmed stays programmed.                                    *)

LEMMA IndexBefore ==
  ASSUME NEW n \in Nat, NEW m \in Nat, m = n \/ m = n + 1
  PROVE  \A i \in 1 .. m - 1 : i = n \/ i \in 1 .. n - 1
OBVIOUS

LEMMA DoneKept == ASSUME UNCHANGED fw, NEW b PROVE Done(b) => Done(b)'
BY DEF Done, fw

(* An unseen error is not forgotten before the next start.                 *)
LEMMA UnseenKept ==
  ASSUME Next, pc' \in Working \cup {"delete", "flush", "report"}, unseen' = {}
  PROVE  unseen = {}
<1>1. CASE Control \/ Cards1
  BY <1>1 DEF Control, Cards1, Open, OpenLate, CheckCrc, ReadTag, HeaderFails, UpgradeEnd, UpgradeIdle,
     UpgradePartition, FlushFails, BootImage, PowerOn, DeletePackage, Pull, Insert, Unreported,
     Start, Goto, Working, past
<1>2. CASE Writes
  BY <1>2 DEF Writes, UpgradeDevice, UpgradeRawData, UpgradeFile, Finish, Fail, LosePage, Flush,
     ExitReset, PowerLoss, Unreported, Start, Goto, Working, past
<1> QED
  BY <1>1, <1>2, NextCases

LEMMA DoneBeforeStep ==
  ASSUME TypeOK, Reading, DoneBefore, Next
  PROVE  DoneBefore'
<1> SUFFICES ASSUME pc' \in Working, unseen' = {}, unseen = {} PROVE DoneBefore'
  BY UnseenKept DEF DoneBefore
<1>1. Len(Package) \in Nat /\ at \in Nat
  BY PackageTyped DEF TypeOK
<1>2. CASE Control \/ Cards1
  <2>1. UNCHANGED fw
    BY <1>2, ControlKeeps DEF Cards1, DeletePackage, Pull, Insert
  <2>2. CASE UpgradeIdle \/ UpgradePartition
    <3>1. pc = "header" /\ (Next1 \/ pc' = "delete")
      BY <2>2 DEF UpgradeIdle, UpgradePartition, Header, End, Goto
    <3>2. CASE Next1
      <4>1. Done(Package[at])
        BY <2>2, <3>2, PackageAssumption
        DEF UpgradeIdle, UpgradePartition, Header, Idle, Done, Next1, Goto, End
      <4>2. \A i \in 1 .. at : Done(Package[i])
        BY <3>1, <4>1, <1>1 DEF DoneBefore, Working
      <4>3. \A i \in 1 .. at : Done(Package[i])'
        BY <2>1, <4>2, DoneKept
      <4>4. 1 .. at' - 1 = 1 .. at
        BY <3>2, <1>1 DEF Next1
      <4>5. \A i \in 1 .. at' - 1 : Done(Package[i])'
        BY <4>3, <4>4
      <4> QED
        BY <4>5 DEF DoneBefore
    <3> QED
      BY <3>1, <3>2 DEF DoneBefore, Working
  <2>3. CASE CheckCrc
    BY <2>3 DEF CheckCrc, DoneBefore, Goto, Working
  <2>4. CASE ReadTag
    <3>1. at' = at /\ pc = "read" /\ pc' \in {"header", "delete"}
      BY <2>4 DEF ReadTag, End, Goto
    <3> QED
      BY <2>1, <3>1, DoneKept DEF DoneBefore, Working
  <2>5. CASE Pull \/ Insert
    <3>1. at' = at /\ pc' = pc
      BY <2>5 DEF Pull, Insert, control
    <3> QED
      BY <2>1, <3>1, DoneKept DEF DoneBefore
  <2>6. CASE Open \/ OpenLate \/ HeaderFails \/ UpgradeEnd \/ FlushFails \/ BootImage
             \/ PowerOn \/ DeletePackage
    BY <2>6 DEF Open, OpenLate, HeaderFails, UpgradeEnd, FlushFails, BootImage, PowerOn,
       DeletePackage, Start, End, Goto, Working, DoneBefore
  <2> QED
    BY <1>2, <2>2, <2>3, <2>4, <2>5, <2>6 DEF Control, Cards1
<1>3. CASE UpgradeDevice
  <2>1. pc = "header" /\ Package[at] = "device" /\ at \in 1 .. Len(Package)
    BY <1>3 DEF UpgradeDevice, Header, Reading, Working
  <2>2. \A i \in 1 .. at - 1 : Done(Package[i]) /\ Package[i] \notin Files \cup {"partition"}
    BY <2>1, <1>1, PackageTyped, PackageAssumption DEF DoneBefore, Working
  <2>3. UNCHANGED image /\ (at' = at \/ at' = at + 1)
    BY <1>3 DEF UpgradeDevice, Program, Next1, fw
  <2>4. \A i \in 1 .. at - 1 : Done(Package[i])'
    BY <2>2, <2>3 DEF Done
  <2>5. ASSUME NEW k \in Nat, k = at PROVE Done(Package[k])'
    BY <2>1, <2>5, PackageAssumption DEF Done
  <2>6. \A i \in 1 .. at' - 1 : i = at \/ i \in 1 .. at - 1
    BY <2>3, <1>1, IndexBefore
  <2>7. at' - 1 < at + 1 /\ \A i \in 1 .. at' - 1 : Done(Package[i])'
    BY <2>3, <2>4, <2>5, <2>6, <1>1
  <2> QED
    BY <2>7 DEF DoneBefore
<1>4. CASE UpgradeRawData
  <2>1. /\ pc = "header" /\ Package[at] = "rawdata" /\ pc' = "program" /\ at' = at
        /\ UNCHANGED <<volume, file>>
    BY <1>4 DEF UpgradeRawData, Header, Program, Goto
  <2> QED
    BY <2>1, PackageAssumption DEF DoneBefore, Done, Working
<1>5. CASE UpgradeFile
  <2>1. PICK f \in Files : /\ pc = "header" /\ Package[at] = f /\ pc' = "program" /\ at' = at
                          /\ file' = [file EXCEPT ![f] = "torn"]
    BY <1>5 DEF UpgradeFile, Header, Program, Goto
  <2>2. UNCHANGED <<image, volume>>
    BY <1>5 DEF UpgradeFile
  <2>3. ASSUME NEW i \in 1 .. at - 1, Package[i] # f PROVE Done(Package[i])'
    BY <2>1, <2>2, <2>3 DEF DoneBefore, Done, Working, TypeOK
  <2>4. 1 .. at' - 1 = 1 .. at - 1 /\ Package[at'] = f
    BY <2>1
  <2>5. \A i \in 1 .. at' - 1 : Done(Package[i])' \/ Package[i] = Package[at']
    BY <2>3, <2>4
  <2> QED
    BY <2>1, <2>5 DEF DoneBefore
<1>6. CASE Finish
  <2>1. pc = "program" /\ at' = at + 1 /\ pc' = "read" /\ Package[at] # "end"
    BY <1>6, PackageAssumption DEF Finish, Next1, Goto
  <2>2. ASSUME NEW k \in Nat, k = at PROVE Done(Package[k])'
    BY <1>6, <2>2, PackageAssumption DEF Finish, Done, TypeOK
  <2>3. ASSUME NEW b, Done(b) PROVE Done(b)'
    BY <1>6, <2>3, PackageAssumption DEF Finish, Done, TypeOK
  <2>4. ASSUME NEW i \in 1 .. at - 1 PROVE Done(Package[i])'
    <3>1. CASE Done(Package[i])
      BY <2>3, <3>1
    <3>2. CASE ~ Done(Package[i])
      <4>1. Package[i] = Package[at] /\ at \in Nat
        BY <2>1, <3>2, <1>1 DEF DoneBefore, Working
      <4>2. PICK k \in Nat : k = at
        BY <4>1
      <4> QED
        BY <2>2, <4>1, <4>2
    <3> QED
      BY <3>1, <3>2
  <2>5. \A i \in 1 .. at' - 1 : i = at \/ i \in 1 .. at - 1
    BY <2>1, <1>1, IndexBefore
  <2>6. \A i \in 1 .. at' - 1 : Done(Package[i])'
    BY <2>2, <2>4, <2>5, <1>1
  <2> QED
    BY <2>6 DEF DoneBefore
<1>7. CASE Flush \/ ExitReset \/ PowerLoss \/ Fail
  BY <1>7 DEF Flush, ExitReset, PowerLoss, Fail, Start, End, Goto, DoneBefore, Working
<1>8. CASE LosePage
  BY <1>8 DEF LosePage, Unreported
<1> QED
  BY <1>2, <1>3, <1>4, <1>5, <1>6, <1>7, <1>8, NextCases DEF Writes

LEMMA WholeAtEndStep ==
  ASSUME TypeOK, Reading, DoneBefore, WholeAtEnd, Next
  PROVE  WholeAtEnd'
<1> SUFFICES ASSUME pc' \in {"delete", "flush", "report"}, unseen' = {}, unseen = {} PROVE WholeAtEnd'
  BY UnseenKept DEF WholeAtEnd
<1>1. Len(Package) \in Nat /\ at \in Nat
  BY PackageTyped DEF TypeOK
<1>2. CASE UpgradeEnd
  <2>1. pc = "header" /\ Package[at] = "end" /\ UNCHANGED fw
    BY <1>2 DEF UpgradeEnd, Header
  <2>2. at = Len(Package)
    BY <2>1, PackageTyped, PackageAssumption DEF Reading, Working
  <2>3. \A i \in 1 .. at - 1 : Done(Package[i])
    BY <2>1 DEF DoneBefore, Working
  <2>4. Whole
    BY <2>2, <2>3, AllDone
  <2> QED
    BY <2>1, <2>4 DEF WholeAtEnd, Whole, fw
<1>3. CASE CheckCrc \/ ReadTag \/ FlushFails \/ LosePage
  BY <1>3 DEF CheckCrc, ReadTag, FlushFails, LosePage, Unreported, Goto, Working, control
<1>4. CASE HeaderFails \/ Fail \/ UpgradePartition
  BY <1>4 DEF HeaderFails, Fail, UpgradePartition, End, Next1, Goto, WholeAtEnd
<1>5. CASE Open \/ OpenLate \/ UpgradeIdle \/ ExitReset \/ BootImage \/ PowerOn \/ UpgradeDevice
           \/ UpgradeRawData \/ UpgradeFile \/ Finish \/ PowerLoss
  BY <1>5 DEF Open, OpenLate, UpgradeIdle, ExitReset, BootImage, PowerOn, UpgradeDevice,
     UpgradeRawData, UpgradeFile, Finish, PowerLoss, Start, Program, Next1, Goto
<1>6. CASE DeletePackage \/ Flush \/ Pull \/ Insert
  <2>1. UNCHANGED <<image, volume, file, ret>>
    BY <1>6 DEF DeletePackage, Flush, WriteBack, Pull, Insert, fw, control
  <2>2. pc \in {"delete", "flush", "report"}
    BY <1>6 DEF DeletePackage, Flush, Pull, Insert, control
  <2> QED
    BY <2>1, <2>2 DEF WholeAtEnd, Whole
<1> QED
  BY <1>2, <1>3, <1>4, <1>5, <1>6, NextCases DEF Control, Cards1, Writes

LEMMA FlushedStep == ASSUME TypeOK, FlushedAtEnd, Next PROVE FlushedAtEnd'
<1> SUFFICES ASSUME pc' = "report", unseen' = {}, unseen = {} PROVE FlushedAtEnd'
  BY UnseenKept DEF FlushedAtEnd
<1>1. CASE Flush
  <2>1. Whole' => Durable'
    BY <1>1 DEF Flush, WriteBack, Whole, Durable
  <2> QED
    BY <2>1 DEF FlushedAtEnd
<1>2. CASE Pull \/ Insert
  BY <1>2 DEF Pull, Insert, control, fw, FlushedAtEnd, Whole, Durable
<1>3. CASE FlushFails
  BY <1>3 DEF FlushFails, Unreported
<1>4. CASE LosePage
  BY <1>4 DEF LosePage, Unreported
<1>5. CASE ~ (Flush \/ FlushFails \/ LosePage \/ Pull \/ Insert)
  BY <1>5, NextCases DEF Control, Cards1, Writes, DeletePackage, Open, OpenLate, CheckCrc,
     ReadTag, HeaderFails, UpgradeEnd, UpgradeIdle, UpgradePartition, Fail, ExitReset,
     BootImage, PowerOn, UpgradeDevice, UpgradeRawData, UpgradeFile, Finish, PowerLoss,
     Start, Program, Next1, End, Goto
<1> QED
  BY <1>1, <1>2, <1>3, <1>4, <1>5

LEMMA ProgressStep ==
  ASSUME TypeOK, Reading, Progress, Next
  PROVE  Progress'
BY DoneBeforeStep, WholeAtEndStep, FlushedStep DEF Progress

-----------------------------------------------------------------------------
(* A half-written firmware can be repaired.                                *)

LEMMA DurableWhole == Durable => Whole
BY DEF Durable

(* The steps that write or lose a part have the card in the slot.          *)
InPackage == UpgradeDevice \/ UpgradeRawData \/ UpgradeFile \/ Finish \/ Fail \/ LosePage

LEMMA WritesMixed ==
  ASSUME TypeOK, Reading, InBlock, InPackage
  PROVE  /\ UNCHANGED <<card, blame, build>> /\ pc \in Working /\ pc' \in Working \cup {"delete"}
         /\ UNCHANGED <<fw, touched>> \/ card = "good" \/ Mixed \/ ~ Mixed'
<1>1. UNCHANGED <<card, blame, build>> /\ pc \in Working /\ pc' \in Working \cup {"delete"}
  BY DEF InPackage, UpgradeDevice, UpgradeRawData, UpgradeFile, Finish, Fail, LosePage, Header,
     Program, Next1, End, Goto, Working, past, control, rigid
<1>2. CASE Finish \/ Fail
  BY <1>1, <1>2, InBlockMixed, DurableWhole DEF Finish, Fail, Mixed
<1>3. CASE UpgradeDevice \/ UpgradeRawData \/ UpgradeFile
  BY <1>1, <1>3 DEF UpgradeDevice, UpgradeRawData, UpgradeFile, Header, Reading, Working
<1>4. CASE LosePage
  <2>1. touched' = touched /\ \E f \in Files : fileLeft[f] # {file[f]}
    <3>1. PICK lost \in SUBSET {f \in Files : fileLeft[f] # {file[f]}} : lost # {}
      BY <1>4 DEF LosePage
    <3>2. PICK f : f \in lost
      BY <3>1
    <3>3. f \in Files /\ fileLeft[f] # {file[f]}
      BY <3>1, <3>2
    <3> QED
      BY <1>4, <3>3 DEF LosePage
  <2>2. ~ Durable
    BY <2>1 DEF Durable, Whole
  <2> QED
    BY <1>1, <2>1, <2>2 DEF Mixed
<1> QED
  BY <1>1, <1>2, <1>3, <1>4 DEF InPackage

(* The steps that leave the firmware alone.                                *)
LEMMA MixedKept == ASSUME UNCHANGED <<fw, touched>> PROVE (Mixed <=> Mixed') /\ (Whole <=> Whole')
BY DEF fw, Mixed, Durable, Whole

(* A power loss takes nothing from a firmware that is durable.             *)
LEMMA LossKeepsDurable ==
  ASSUME TypeOK, LoseCache, UNCHANGED image, Durable
  PROVE  Durable'
<1>1. PICK v \in volumeLeft, left \in [Files -> Contents] :
        /\ \A f \in Files : left[f] \in fileLeft[f]
        /\ volume' = v /\ volumeLeft' = {v}
        /\ file' = IF v = "fat" THEN left ELSE NoFiles
        /\ fileLeft' = [f \in Files |-> {file'[f]}]
  BY DEF LoseCache
<1>2. v = "fat" /\ \A f \in Files : left[f] = "new"
  BY <1>1 DEF Durable
<1>3. left = [f \in Files |-> "new"]
  BY <1>2
<1>4. Whole'
  BY <1>1, <1>2, <1>3 DEF Durable, Whole
<1>5. volumeLeft' = {"fat"} /\ fileLeft' = [f \in Files |-> {"new"}]
  BY <1>1, <1>2, <1>3
<1> QED
  BY <1>4, <1>5 DEF Durable

(* A flush that succeeds makes a whole firmware durable; exit's flush or    *)
(* loss never makes half of a firmware out of a durable one.               *)
LEMMA FlushEnds ==
  ASSUME TypeOK, WriteBack, UNCHANGED <<image, touched>>, blame' = IF Whole THEN {} ELSE blame
  PROVE  (Whole => ~ Mixed') /\ (Mixed' => Mixed /\ blame' = blame)
<1>1. Whole => Durable'
  BY DEF WriteBack, Whole, Durable
<1> QED
  BY <1>1, DurableWhole DEF Mixed

LEMMA ExitMixed ==
  ASSUME TypeOK, ExitReset
  PROVE  UNCHANGED <<rigid, card>> /\ pc = "report" /\ pc' = "open"
         /\ (Mixed' => Mixed /\ blame' = blame)
<1>1. UNCHANGED <<rigid, card, image, touched>> /\ pc = "report" /\ pc' = "open"
  BY DEF ExitReset, Start, Goto
<1>2. CASE WriteBack /\ blame' = IF Whole THEN {} ELSE blame
  BY <1>1, <1>2, FlushEnds
<1>3. CASE LoseCache /\ UNCHANGED blame
  BY <1>1, <1>3, LossKeepsDurable DEF Mixed
<1> QED
  BY <1>1, <1>2, <1>3 DEF ExitReset

LEMMA KeptStep ==
  ASSUME TypeOK, Reading, InBlock, Kept, Next
  PROVE  Kept'
<1>1. CASE Control
  <2>1. UNCHANGED <<fw, touched, card, build>>
    BY <1>1, ControlKeeps DEF rigid
  <2>2. blame \subseteq blame'
    BY <1>1 DEF Control, Open, OpenLate, CheckCrc, ReadTag, HeaderFails, UpgradeEnd, UpgradeIdle,
       UpgradePartition, FlushFails, BootImage, PowerOn, past
  <2> QED
    BY <2>1, <2>2, MixedKept DEF Kept
<1>2. CASE Cards1
  <2>1. UNCHANGED <<fw, touched, build>>
    BY <1>2 DEF Cards1, DeletePackage, Pull, Insert, rigid, past
  <2>2. CASE DeletePackage
    BY <2>1, <2>2, MixedKept DEF DeletePackage, Removes, Kept
  <2>3. CASE Pull \/ Insert
    BY <2>1, <2>3, MixedKept DEF Pull, Insert, Kept, past
  <2> QED
    BY <1>2, <2>2, <2>3 DEF Cards1
<1>3. CASE InPackage
  BY <1>3, WritesMixed, MixedKept DEF Kept
<1>4. CASE Flush
  <2>1. Mixed' => Mixed /\ blame' = blame
    BY <1>4, FlushEnds DEF Flush
  <2>2. UNCHANGED <<card, build>>
    BY <1>4 DEF Flush, rigid
  <2> QED
    BY <2>1, <2>2 DEF Kept
<1>5. CASE ExitReset
  BY <1>5, ExitMixed DEF Kept, rigid
<1>6. CASE PowerLoss
  <2>1. UNCHANGED <<card, build>> /\ blame \subseteq blame'
    BY <1>6 DEF PowerLoss, rigid
  <2>2. Mixed' => Mixed
    BY <1>6, LossKeepsDurable DEF PowerLoss, Mixed
  <2> QED
    BY <2>1, <2>2 DEF Kept
<1> QED
  BY <1>1, <1>2, <1>3, <1>4, <1>5, <1>6, NextCases DEF Writes, InPackage

LEMMA ResumableStep ==
  ASSUME TypeOK, Reading, InBlock, Resumable, Next
  PROVE  Resumable'
<1>1. CASE Control
  <2>1. UNCHANGED <<fw, touched, card>> /\ blame \subseteq blame'
    BY <1>1, ControlKeeps DEF Control, Open, OpenLate, CheckCrc, ReadTag, HeaderFails, UpgradeEnd,
       UpgradeIdle, UpgradePartition, FlushFails, BootImage, PowerOn, past
  <2>2. CASE FlushFails
    BY <2>1, <2>2, MixedKept DEF FlushFails, Resumable
  <2>3. CASE ~ FlushFails
    <3>1. pc # "flush"
      BY <1>1, <2>3 DEF Control, Open, OpenLate, CheckCrc, ReadTag, HeaderFails, UpgradeEnd,
         UpgradeIdle, UpgradePartition, BootImage, PowerOn, Header
    <3> QED
      BY <2>1, <3>1, MixedKept DEF Resumable
  <2> QED
    BY <2>2, <2>3
<1>2. CASE DeletePackage
  <2>1. UNCHANGED <<fw, touched>> /\ pc = "delete" /\ pc' = "flush"
    BY <1>2 DEF DeletePackage, Goto
  <2>2. Mixed /\ ~ Whole => touched /\ (card' = "good" \/ blame' # {})
    BY <1>2, <2>1 DEF DeletePackage, Resumable, Mixed
  <2> QED
    BY <2>1, <2>2, MixedKept DEF Resumable
<1>3. CASE Pull
  BY <1>3, MixedKept DEF Pull, Resumable
<1>4. CASE Insert
  <2>1. UNCHANGED <<fw, touched, blame, pc>> /\ card = "out"
    BY <1>4 DEF Insert, control, past
  <2> QED
    BY <2>1, MixedKept DEF Resumable
<1>5. CASE InPackage
  <2>1. pc # "flush"
    BY <1>5, WritesMixed DEF Working
  <2> QED
    BY <1>5, <2>1, WritesMixed, MixedKept DEF Resumable
<1>6. CASE Flush
  <2>1. (Whole => ~ Mixed') /\ (Mixed' => Mixed /\ blame' = blame)
    BY <1>6, FlushEnds DEF Flush
  <2>2. UNCHANGED card
    BY <1>6 DEF Flush
  <2> QED
    BY <2>1, <2>2 DEF Resumable
<1>7. CASE ExitReset
  BY <1>7, ExitMixed DEF Resumable
<1>8. CASE PowerLoss
  <2>1. card' = card /\ blame \subseteq blame'
    BY <1>8 DEF PowerLoss
  <2>2. Mixed' => Mixed
    BY <1>8, LossKeepsDurable DEF PowerLoss, Mixed
  <2>3. pc = "flush" /\ card # "good" /\ Mixed' => blame' # {}
    BY <1>8 DEF PowerLoss
  <2> QED
    BY <2>1, <2>2, <2>3 DEF Resumable
<1> QED
  BY <1>1, <1>2, <1>3, <1>4, <1>5, <1>6, <1>7, <1>8, NextCases DEF Cards1, Writes, InPackage

LEMMA BootStep ==
  ASSUME TypeOK, Kept, Resumable, NoMixedBoot, Next
  PROVE  NoMixedBoot'
<1>1. CASE Open \/ OpenLate
  <2>1. UNCHANGED <<fw, touched, card, build>>
    BY <1>1 DEF Open, OpenLate, rigid, past
  <2>2. pc = "open" /\ (card = "good" /\ pc' = "boot" => OpenLate)
    BY <1>1 DEF Open, OpenLate, Goto, Held
  <2>3. CASE OpenLate
    BY <2>1, <2>3, MixedKept DEF OpenLate, NoMixedBoot
  <2>4. CASE Open
    <3>1. blame' = blame /\ (pc' = "boot" => card # "good") /\ pc' \in {"boot", "check"}
      BY <2>4 DEF Open, Goto, Held, past
    <3> QED
      BY <2>1, <2>2, <3>1, MixedKept DEF NoMixedBoot, Resumable, Kept
  <2> QED
    BY <1>1, <2>3, <2>4
<1>2. CASE BootImage
  <2>1. UNCHANGED <<fw, touched, blame, build>> /\ pc = "boot"
    BY <1>2 DEF BootImage, rigid, past
  <2> QED
    BY <2>1, MixedKept DEF NoMixedBoot
<1>3. CASE Pull \/ Insert
  <2>1. UNCHANGED <<fw, touched, pc, build>> /\ blame \subseteq blame'
    BY <1>3 DEF Pull, Insert, rigid, control, past
  <2> QED
    BY <2>1, MixedKept DEF NoMixedBoot
<1>4. CASE LosePage
  BY <1>4 DEF LosePage, control, Working, NoMixedBoot
<1>5. CASE ~ (Open \/ OpenLate \/ BootImage \/ Pull \/ Insert \/ LosePage)
  <2>1. pc' \notin {"boot", "app", "hung"}
    BY <1>5, NextCases DEF Control, Cards1, Writes, DeletePackage, CheckCrc, ReadTag,
       HeaderFails, UpgradeEnd, UpgradeIdle, UpgradePartition, FlushFails, PowerOn,
       UpgradeDevice, UpgradeRawData, UpgradeFile, Finish, Fail, Flush, ExitReset, PowerLoss,
       Start, Program, Next1, End, Goto
  <2> QED
    BY <2>1 DEF NoMixedBoot
<1> QED
  BY <1>1, <1>2, <1>3, <1>4, <1>5

-----------------------------------------------------------------------------
(* The theorems.                                                           *)

LEMMA InitInv == ASSUME Init PROVE IInv
<1>1. TypeOK
  BY InitTyped
<1>2. pc = "off" /\ at = 0 /\ touched = FALSE
  BY DEF Init
<1> QED
  BY <1>1, <1>2 DEF IInv, Reading, InBlock, Progress, DoneBefore, WholeAtEnd, FlushedAtEnd,
     Kept, Resumable, NoMixedBoot, Mixed, Working

LEMMA StutterInv == ASSUME IInv, UNCHANGED vars PROVE IInv'
<1>1. UNCHANGED <<fw, touched, unseen, rigid, card, control, blame, counts>>
  BY DEF vars, past
<1>2. TypeOK' /\ Reading' /\ InBlock'
  BY <1>1 DEF IInv, TypeOK, Reading, InBlock, fw, rigid, control, counts
<1>3. Progress'
  <2>1. UNCHANGED <<pc, at, ret, source, unseen>> /\ (Whole <=> Whole') /\ (Durable <=> Durable')
    BY <1>1 DEF control, fw, Whole, Durable
  <2>2. \A i \in 1 .. at - 1 : Done(Package[i]) => Done(Package[i])'
    BY <1>1, DoneKept
  <2> QED
    BY <2>1, <2>2 DEF IInv, Progress, DoneBefore, WholeAtEnd, FlushedAtEnd
<1>4. Kept' /\ Resumable' /\ NoMixedBoot'
  BY <1>1, MixedKept DEF IInv, Kept, Resumable, NoMixedBoot, rigid, control
<1> QED
  BY <1>2, <1>3, <1>4 DEF IInv

LEMMA StepInv == ASSUME IInv, Next PROVE IInv'
<1>1. TypeOK' /\ Reading' /\ InBlock'
  BY NextTyped, ReadingStep, InBlockStep DEF IInv
<1>2. Progress'
  BY ProgressStep DEF IInv
<1>3. Kept' /\ Resumable' /\ NoMixedBoot'
  BY KeptStep, ResumableStep, BootStep DEF IInv
<1> QED
  BY <1>1, <1>2, <1>3 DEF IInv

THEOREM Invariant == Spec => []IInv
<1>1. Init => IInv
  BY InitInv
<1>2. IInv /\ [Next]_vars => IInv'
  BY StepInv, StutterInv
<1> QED
  BY <1>1, <1>2, PTL DEF Spec

(* Every variable keeps its type, for any package and configuration.       *)
THEOREM TypeCorrect == Spec => []TypeOK
<1>1. IInv => TypeOK
  BY DEF IInv
<1> QED
  BY <1>1, Invariant, PTL

(* A half-written firmware keeps its package in the slot, unless the user  *)
(* pulled it or the loader deleted it.                                     *)
THEOREM PackageKept == Spec => []Resumable
<1>1. IInv => Resumable
  BY DEF IInv
<1> QED
  BY <1>1, Invariant, PTL

(* A half-written firmware is started only after one of the losses that    *)
(* NoMixedBoot names.                                                      *)
THEOREM WholeBoot == Spec => []NoMixedBoot
<1>1. IInv => NoMixedBoot
  BY DEF IInv
<1> QED
  BY <1>1, Invariant, PTL

(* "Upgrade finished" means that all of the package is in the flash, where *)
(* no power loss reaches it, unless one of the four errors came that no    *)
(* result shows (FinishedMeansProgrammed).                                 *)
THEOREM FinishedIsDurable == Spec => []FinishedMeansProgrammed
<1>1. IInv => FinishedMeansProgrammed
  BY DEF IInv, Progress, WholeAtEnd, FlushedAtEnd, FinishedMeansProgrammed
<1> QED
  BY <1>1, Invariant, PTL

(* Only a package whose checksum was right is ever written.                *)
THEOREM CheckedBeforeWritten == Spec => OnlyGoodProgrammed
<1>1. IInv => (pc \in Working => card = "good" \/ source = "gone")
  BY DEF IInv, Reading
<1>2. IInv /\ [Next]_vars => [fw' # fw /\ pc \in Working => card = "good" \/ source = "gone"]_vars
  BY <1>1
<1> QED
  BY <1>2, Invariant, PTL DEF Spec, OnlyGoodProgrammed
-----------------------------------------------------------------------------
(* The loader gets on.  Where packages are deleted each step of it leaves  *)
(* fewer packages to try, or, of the same number, a shorter way to the     *)
(* application.  The package it works on no longer counts: it is deleted,  *)
(* whatever comes of it.                                                   *)

Upgrading == Working \cup {"check", "delete"}

Pending == MaxSwaps - swaps + (IF card \in Held /\ pc \notin Upgrading THEN 1 ELSE 0)

Way ==
  CASE pc = "check"   -> 3 * Len(Package) + 10
    [] pc = "read"    -> 3 * (Len(Package) - at) + 9
    [] pc = "header"  -> 3 * (Len(Package) - at) + 8
    [] pc = "program" -> 3 * (Len(Package) - at) + 7
    [] pc = "delete"  -> 6
    [] pc = "flush"   -> 5
    [] pc = "report"  -> 4
    [] pc = "off"     -> 3
    [] pc = "open"    -> 2
    [] pc = "boot"    -> 1
    [] OTHER -> 0

Nearer == Pending' < Pending \/ (Pending' = Pending /\ Way' < Way)

LEMMA WayBounded ==
  ASSUME TypeOK
  PROVE  Pending \in 0 .. MaxSwaps + 1 /\ Way \in 0 .. 3 * Len(Package) + 10
<1>1. swaps \in 0 .. MaxSwaps /\ MaxSwaps \in Nat BY BuildAssumption DEF TypeOK
<1>2. Len(Package) \in Nat /\ at \in 0 .. Len(Package) BY PackageTyped DEF TypeOK
<1>3. Pending \in 0 .. MaxSwaps + 1 BY <1>1 DEF Pending
<1>4. Way \in 0 .. 3 * Len(Package) + 10 BY <1>2 DEF Way
<1> QED BY <1>3, <1>4

(* Opening a package takes it off those that are waiting.                  *)
LEMMA OpenAdvances ==
  ASSUME TypeOK, Open
  PROVE  Nearer
<1>1. swaps \in 0 .. MaxSwaps /\ MaxSwaps \in Nat BY BuildAssumption DEF TypeOK
<1>2. pc = "open" /\ card' = card /\ swaps' = swaps BY DEF Open, counts
<1>3. CASE card \in Held
  <2>1. pc' = "check" BY <1>3 DEF Open, Goto
  <2> QED BY <1>1, <1>2, <1>3, <2>1 DEF Nearer, Pending, Upgrading, Working
<1>4. CASE card \notin Held
  <2>1. pc' = "boot" BY <1>4 DEF Open, Goto
  <2> QED BY <1>2, <1>4, <2>1 DEF Nearer, Pending, Way
<1> QED BY <1>3, <1>4

(* The steps from the checksum to the deletion.                            *)
LEMMA UpgradeAdvances ==
  ASSUME TypeOK, Reading, Upgrade
  PROVE  Nearer
<1>1. Len(Package) \in Nat /\ at \in 0 .. Len(Package) BY PackageTyped DEF TypeOK
<1>2. pc \in Upgrading /\ pc' \in Upgrading /\ card' = card /\ swaps' = swaps
  BY DEF Upgrade, UpgradeBlock, CheckCrc, ReadTag, HeaderFails, UpgradeEnd, UpgradeIdle, UpgradeDevice,
     UpgradePartition, UpgradeRawData, UpgradeFile, Finish, Fail, Header, Goto, End, Next1, Program,
     past, Upgrading, Working, counts
<1>3. Pending' = Pending BY <1>2 DEF Pending
<1>4. SUFFICES Way' < Way BY <1>3 DEF Nearer
<1>5. ASSUME End(ret'), pc \in Working \cup {"check"} PROVE Way' < Way
  <2>1. pc' = "delete" BY <1>5 DEF End, Goto
  <2>2. Way' = 6 BY <2>1 DEF Way
  <2>3. Way > 6 BY <1>1, <1>5 DEF Way, Working
  <2> QED BY <2>2, <2>3
<1>6. ASSUME Next1, pc \in {"header", "program"} PROVE Way' < Way
  <2>1. pc' = "read" /\ at' = at + 1 BY <1>6 DEF Next1, Goto
  <2>2. Way' = 3 * (Len(Package) - at) + 6 BY <1>1, <2>1 DEF Way
  <2>3. Way > 3 * (Len(Package) - at) + 6 BY <1>1, <1>6 DEF Way
  <2> QED BY <1>1, <2>2, <2>3
<1>7. ASSUME Program, pc = "header" PROVE Way' < Way
  <2>1. pc' = "program" /\ at' = at BY <1>7 DEF Program, Goto
  <2>2. Way' = 3 * (Len(Package) - at) + 7 BY <2>1 DEF Way
  <2>3. Way = 3 * (Len(Package) - at) + 8 BY <1>7 DEF Way
  <2> QED BY <1>1, <2>2, <2>3
<1>8. CASE CheckCrc
  <2>1. CASE pc' = "read"
    <3>1. pc = "check" /\ at' = 1 BY <1>8, <2>1 DEF CheckCrc, Goto
    <3>2. Way' = 3 * (Len(Package) - 1) + 9 BY <2>1, <3>1 DEF Way
    <3>3. Way = 3 * Len(Package) + 10 BY <3>1 DEF Way
    <3> QED BY <1>1, <3>2, <3>3
  <2>2. CASE pc' # "read"
    BY <1>5, <1>8, <2>2 DEF CheckCrc, End, Goto
  <2> QED BY <2>1, <2>2
<1>9. CASE ReadTag
  <2>1. CASE pc' = "header"
    <3>1. pc = "read" /\ at' = at BY <1>9, <2>1 DEF ReadTag, Goto
    <3>2. Way' = 3 * (Len(Package) - at) + 8 BY <2>1, <3>1 DEF Way
    <3>3. Way = 3 * (Len(Package) - at) + 9 BY <3>1 DEF Way
    <3> QED BY <1>1, <3>2, <3>3
  <2>2. CASE pc' # "header"
    BY <1>5, <1>9, <2>2 DEF ReadTag, End, Goto, Working
  <2> QED BY <2>1, <2>2
<1>10. CASE HeaderFails \/ UpgradeEnd \/ Fail
  BY <1>5, <1>10 DEF HeaderFails, UpgradeEnd, Fail, Header, End, Working
<1>11. CASE UpgradeIdle \/ Finish
  BY <1>6, <1>11 DEF UpgradeIdle, Finish, Header
<1>12. CASE UpgradePartition
  BY <1>5, <1>6, <1>12 DEF UpgradePartition, Header, End, Working
<1>13. CASE UpgradeDevice \/ UpgradeRawData \/ UpgradeFile
  BY <1>6, <1>7, <1>13 DEF UpgradeDevice, UpgradeRawData, UpgradeFile, Header
<1> QED BY <1>8, <1>9, <1>10, <1>11, <1>12, <1>13 DEF Upgrade, UpgradeBlock

(* Deleting does not bring back a package: nothing is left in the slot.    *)
LEMMA RestAdvances ==
  ASSUME TypeOK, build.deletes, ~ locked, OpenLate \/ DeletePackage \/ Flush \/ FlushFails \/ ExitReset \/ BootImage \/ PowerOn
  PROVE  Nearer
<1>1. swaps' = swaps
  BY DEF OpenLate, DeletePackage, Flush, FlushFails, ExitReset, BootImage, PowerOn, counts
<1>2. CASE DeletePackage
  <2>1. pc = "delete" /\ pc' = "flush" /\ card' \notin Held
    BY <1>2 DEF DeletePackage, Removes, Goto, Held
  <2>2. Pending' = Pending BY <1>1, <2>1 DEF Pending, Upgrading
  <2> QED BY <2>1, <2>2 DEF Nearer, Way
<1>3. CASE OpenLate \/ Flush \/ FlushFails \/ ExitReset \/ BootImage \/ PowerOn
  <2>1. /\ card' = card
        /\ \/ pc = "open" /\ pc' = "boot"
           \/ pc = "flush" /\ pc' = "report"
           \/ pc \in {"report", "off"} /\ pc' = "open"
           \/ pc = "boot" /\ pc' \in {"app", "hung"}
    BY <1>3 DEF OpenLate, Flush, FlushFails, ExitReset, BootImage, PowerOn, Start, Goto
  <2>2. Pending' = Pending BY <1>1, <2>1 DEF Pending, Upgrading, Working
  <2> QED BY <2>1, <2>2 DEF Nearer, Way
<1> QED BY <1>2, <1>3

LEMMA LoaderStep ==
  ASSUME TypeOK, Reading, build.deletes, ~ locked, DoUpgrade \/ BootImage \/ PowerOn
  PROVE  Nearer
BY OpenAdvances, UpgradeAdvances, RestAdvances DEF DoUpgrade

LEMMA CardStep ==
  ASSUME TypeOK, Pull \/ Insert \/ LosePage
  PROVE  Pending' <= Pending /\ Way' = Way
<1>1. swaps \in 0 .. MaxSwaps /\ MaxSwaps \in Nat BY BuildAssumption DEF TypeOK
<1>2. pc' = pc /\ at' = at BY DEF Pull, Insert, LosePage, control
<1>3. Way' = Way BY <1>2 DEF Way
<1>4. CASE Pull
  <2>1. swaps' = swaps /\ card' \notin Held BY <1>4 DEF Pull, counts, Held
  <2> QED BY <1>1, <1>2, <1>3, <2>1 DEF Pending
<1>5. CASE Insert
  <2>1. swaps' = swaps + 1 /\ card \notin Held BY <1>5 DEF Insert, Held
  <2> QED BY <1>1, <1>2, <1>3, <2>1 DEF Pending
<1>6. CASE LosePage
  BY <1>1, <1>2, <1>3, <1>6 DEF LosePage, Pending
<1> QED BY <1>4, <1>5, <1>6

(* A board that deletes its packages does not upgrade for ever, whatever   *)
(* fails, is exchanged or pulled: between two power losses its steps lead  *)
(* to the application, or to an image that hangs (DoUpgrade, BootImage).   *)
THEOREM LoaderAdvances ==
  Spec =>
    /\ [](Pending \in 0 .. MaxSwaps + 1 /\ Way \in 0 .. 3 * Len(Package) + 10)
    /\ [][/\ (DoUpgrade \/ BootImage \/ PowerOn) /\ build.deletes /\ ~ locked => Nearer
          /\ Pull \/ Insert \/ LosePage => Pending' <= Pending /\ Way' = Way]_vars
<1>1. IInv => Pending \in 0 .. MaxSwaps + 1 /\ Way \in 0 .. 3 * Len(Package) + 10
  BY WayBounded DEF IInv
<1>2. IInv => [/\ (DoUpgrade \/ BootImage \/ PowerOn) /\ build.deletes /\ ~ locked => Nearer
               /\ Pull \/ Insert \/ LosePage => Pending' <= Pending /\ Way' = Way]_vars
  BY LoaderStep, CardStep DEF IInv
<1> QED BY <1>1, <1>2, Invariant, PTL
=============================================================================
