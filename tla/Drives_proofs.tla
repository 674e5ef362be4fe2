---------------------------- MODULE Drives_proofs ----------------------------
(***************************************************************************)
(* Proofs about Drives, for any number of USB ports, drive letters and     *)
(* entries of the queue.                                                   *)
(***************************************************************************)
EXTENDS Drives, TLAPS

(* A disk with a letter is known to the probe task, or was just mounted.   *)
Known ==
  \A l \in Letter : table[l].avail =>
    \/ table[l].disk \in diskAvail
    \/ probe.at = "mounted" /\ probe.disk = table[l].disk

(* The probe task mounts only disks it does not know, on a letter no other *)
(* disk has.                                                               *)
Mounting ==
  /\ probe.at \in {"mount", "avail"} => probe.disk \notin diskAvail
  /\ probe.at = "avail" => /\ probe.letter \in Letter
                           /\ table[probe.letter].disk = probe.disk
                           /\ ~table[probe.letter].avail
  /\ probe.at # "read" => probe.disk \in Disks

(* A letter in use has a disk, which has no other letter.                  *)
NoTwoLetters ==
  \A l \in Letter : table[l].avail =>
    /\ table[l].disk \in Disks
    /\ \A m \in Letter : table[m].avail /\ table[m].disk = table[l].disk => l = m

IInv == TypeOK /\ Known /\ Mounting /\ NoTwoLetters

Entries == [disk : Disks, inserted : BOOLEAN]
Probes  == [at : {"read", "insert", "mount", "avail", "mounted", "remove"},
            disk : Disks \cup {None}, letter : Letter \cup {None}]

(* The queue stays within its length, and a read takes an entry from it.   *)
LEMMA QueueGrows ==
  ASSUME TypeOK, NEW e \in Entries, Len(queue) < QueueLen
  PROVE  Append(queue, e) \in Seq(Entries) /\ Len(Append(queue, e)) <= QueueLen
  BY DrivesAssumption DEF TypeOK, Entries

LEMMA QueueShrinks ==
  ASSUME TypeOK, queue # << >>
  PROVE  /\ Head(queue) \in Entries /\ Tail(queue) \in Seq(Entries)
         /\ Len(Tail(queue)) <= QueueLen
<1>1. queue \in Seq(Entries) /\ Len(queue) <= QueueLen /\ QueueLen \in Nat
  BY DrivesAssumption DEF TypeOK, Entries
<1>2. /\ Head(queue) \in Entries /\ Tail(queue) \in Seq(Entries)
      /\ Len(Tail(queue)) = Len(queue) - 1 /\ Len(queue) \in Nat
  BY <1>1
<1> QED
  BY <1>1, <1>2

-----------------------------------------------------------------------------
(* The steps of the slots and ports leave the mounts alone.                *)
LEMMA SlotsStep ==
  ASSUME IInv, PlugSd \/ Usb
  PROVE  IInv'
<1>1. UNCHANGED <<probe, table, diskAvail, gui>>
  BY DEF PlugSd, Usb, PlugMsc, UsbTask, MscConnect, MscStatus, MscReport, MscDisconnect,
     MscStatusReset, others
<1>2. TypeOK'
  <2>1. CASE PlugSd
    <3>1. [disk |-> Sd, inserted |-> Sd \notin plugged] \in Entries
      BY DEF Entries, Disks
    <3>2. queue' \in Seq(Entries) /\ Len(queue') <= QueueLen /\ lost' \in BOOLEAN
      <4>1. CASE Len(queue) < QueueLen
        BY <2>1, <3>1, <4>1, QueueGrows DEF PlugSd, IInv, TypeOK
      <4>2. CASE ~(Len(queue) < QueueLen)
        BY <2>1, <4>2 DEF PlugSd, IInv, TypeOK, Entries
      <4> QED
        BY <4>1, <4>2
    <3>3. plugged' \subseteq Disks /\ plugs' \in 0 .. MaxPlugs /\ UNCHANGED <<pulled, usb>>
      BY <2>1, DrivesAssumption DEF PlugSd, IInv, TypeOK, SymDiff, Disks
    <3> QED
      BY <1>1, <3>2, <3>3 DEF IInv, TypeOK, Entries, usb, gui
  <2>2. ASSUME NEW d \in Msc, PlugMsc(d) PROVE TypeOK'
    <3>1. plugged' \subseteq Disks /\ pulled' \subseteq Msc /\ plugs' \in 0 .. MaxPlugs
      BY <2>2, DrivesAssumption DEF PlugMsc, IInv, TypeOK, SymDiff, Disks
    <3> QED
      BY <1>1, <2>2, <3>1 DEF PlugMsc, IInv, TypeOK, usb, gui
  <2>3. ASSUME NEW d \in Msc, MscConnect(d) \/ MscStatus(d) \/ MscDisconnect(d) PROVE TypeOK'
    <3>1. port' \in [Msc -> {"off", "poll", "in", "out", "reset"}]
      BY <2>3 DEF MscConnect, MscStatus, MscDisconnect, Port, IInv, TypeOK
    <3>2. pulled' \subseteq Msc /\ UNCHANGED <<plugged, plugs, active, queue, lost>>
      BY <2>3 DEF MscConnect, MscStatus, MscDisconnect, slots, others, IInv, TypeOK
    <3> QED
      BY <1>1, <3>1, <3>2 DEF IInv, TypeOK, gui
  <2>4. ASSUME NEW d \in Msc, MscReport(d) \/ MscStatusReset(d) PROVE TypeOK'
    <3>1. port' \in [Msc -> {"off", "poll", "in", "out", "reset"}] /\ active' \subseteq Msc
      BY <2>4 DEF MscReport, MscStatusReset, Port, IInv, TypeOK
    <3>2. \A i \in BOOLEAN : [disk |-> d, inserted |-> i] \in Entries
      BY DEF Entries, Disks
    <3>3. queue' \in Seq(Entries) /\ Len(queue') <= QueueLen
      BY <2>4, <3>2, QueueGrows DEF MscReport, MscStatusReset, CardWrite, IInv
    <3>4. UNCHANGED <<slots, lost>>
      BY <2>4 DEF MscReport, MscStatusReset, others
    <3> QED
      BY <1>1, <3>1, <3>3, <3>4 DEF IInv, TypeOK, Entries, slots, gui
  <2> QED
    BY <2>1, <2>2, <2>3, <2>4 DEF Usb, UsbTask
<1>3. Known' /\ Mounting' /\ NoTwoLetters'
  BY <1>1 DEF IInv, Known, Mounting, NoTwoLetters
<1> QED
  BY <1>2, <1>3 DEF IInv

(* Entries of the table keep their type when one field of them is written. *)
LEMMA AvailTyped ==
  ASSUME NEW e \in Entry, NEW b \in BOOLEAN
  PROVE  [e EXCEPT !.avail = b] \in Entry
  BY DEF Entry

LEMMA TableTyped ==
  ASSUME NEW f \in [Letter -> Entry], NEW l \in Letter, NEW e \in Entry
  PROVE  [f EXCEPT ![l] = e] \in [Letter -> Entry]
  OBVIOUS

(* The probe task gives a disk a letter only when it has none.             *)
LEMMA ProbeTyped ==
  ASSUME IInv, ProbeTask
  PROVE  probe' \in Probes /\ table' \in [Letter -> Entry] /\ diskAvail' \subseteq Disks
<1> USE DEF IInv, TypeOK, Mounting, Probes, Reading, Go
<1>1. CASE CardRead
  <2>1. Head(queue) \in Entries
    BY <1>1, QueueShrinks DEF CardRead
  <2> QED
    BY <1>1, <2>1 DEF CardRead, Entries
<1>2. CASE DriveMountCard
  BY <1>2 DEF DriveMountCard
<1>3. CASE FatMount
  <2>1. probe.disk \in Disks /\ probe.at = "mount"
    BY <1>3 DEF FatMount
  <2>2. diskAvail' = diskAvail
    BY <1>3 DEF FatMount
  <2>3. ASSUME NEW l \in Letter, table' = [table EXCEPT ![l].disk = probe.disk],
               probe' = [probe EXCEPT !.at = "avail", !.letter = l]
        PROVE  probe' \in Probes /\ table' \in [Letter -> Entry]
    <3>1. [table[l] EXCEPT !.disk = probe.disk] \in Entry
      BY <2>1 DEF Entry
    <3>2. table' \in [Letter -> Entry]
      BY <2>3, <3>1
    <3> QED
      BY <2>1, <2>3, <3>2
  <2>4. ASSUME probe' = [probe EXCEPT !.at = "mounted"], UNCHANGED table
        PROVE  probe' \in Probes /\ table' \in [Letter -> Entry]
    BY <2>1, <2>4
  <2> QED
    BY <1>3, <2>2, <2>3, <2>4 DEF FatMount
<1>4. CASE SetAvail
  <2>1. probe.letter \in Letter /\ table \in [Letter -> Entry]
    BY <1>4 DEF SetAvail
  <2>2. [table[probe.letter] EXCEPT !.avail = TRUE] \in Entry
    BY <2>1, AvailTyped
  <2>3. table' = [table EXCEPT ![probe.letter] = [table[probe.letter] EXCEPT !.avail = TRUE]]
    BY <1>4 DEF SetAvail
  <2>4. probe' \in Probes /\ diskAvail' \subseteq Disks
    BY <1>4, <2>1 DEF SetAvail
  <2> HIDE DEF IInv, TypeOK, Mounting
  <2>5. table' \in [Letter -> Entry]
    BY <2>1, <2>2, <2>3, TableTyped
  <2> QED
    BY <2>4, <2>5
<1>5. CASE Mounted
  BY <1>5 DEF Mounted
<1>6. CASE DriveUnmountCard
  <2>1. table \in [Letter -> Entry] /\ diskAvail \subseteq Disks
    OBVIOUS
  <2>2. \A l \in Letter : [table[l] EXCEPT !.avail = FALSE] \in Entry
    BY <2>1, AvailTyped
  <2>3. probe' \in Probes
    BY <1>6 DEF DriveUnmountCard
  <2> HIDE DEF IInv, TypeOK, Mounting, Entry
  <2>4. table' \in [Letter -> Entry]
    <3>1. CASE UNCHANGED table
      BY <2>1, <3>1
    <3>2. CASE table' = [l \in Letter |-> IF table[l].avail /\ table[l].disk = probe.disk
                                         THEN [table[l] EXCEPT !.avail = FALSE] ELSE table[l]]
      BY <2>1, <2>2, <3>2
    <3> QED
      BY <1>6, <3>1, <3>2 DEF DriveUnmountCard
  <2>5. diskAvail' \subseteq Disks
    BY <1>6, <2>1 DEF DriveUnmountCard
  <2> QED
    BY <2>3, <2>4, <2>5
<1> QED
  BY <1>1, <1>2, <1>3, <1>4, <1>5, <1>6 DEF ProbeTask

LEMMA ProbeStep ==
  ASSUME IInv, ProbeTask
  PROVE  IInv'
<1>1. TypeOK'
  <2>1. queue' \in Seq(Entries) /\ Len(queue') <= QueueLen
    <3>1. CASE CardRead
      BY <3>1, QueueShrinks DEF CardRead, IInv
    <3>2. CASE ~CardRead
      BY <3>2 DEF ProbeTask, DriveMountCard, FatMount, SetAvail, Mounted, DriveUnmountCard,
         IInv, TypeOK, Entries
    <3> QED
      BY <3>1, <3>2
  <2>2. UNCHANGED <<slots, usb, lost, gui>>
    BY DEF ProbeTask, CardRead, DriveMountCard, FatMount, SetAvail, Mounted, DriveUnmountCard
  <2> QED
    BY <2>1, <2>2, ProbeTyped DEF IInv, TypeOK, Probes, Entries, slots, usb, gui
<1>2. Known' /\ Mounting' /\ NoTwoLetters'
  <2> USE DEF IInv, TypeOK, Known, Mounting, NoTwoLetters, Reading, Go
  <2>1. CASE CardRead
    <3>1. Head(queue) \in Entries
      BY <2>1, QueueShrinks DEF CardRead
    <3>2. UNCHANGED <<table, diskAvail>> /\ probe'.at \in {"insert", "remove"}
          /\ probe'.disk \in Disks /\ probe.at = "read"
      BY <2>1, <3>1 DEF CardRead, Entries
    <3> QED
      BY <3>2
  <2>2. CASE DriveMountCard
    BY <2>2 DEF DriveMountCard
  <2>3. CASE FatMount
    <3>1. ASSUME NEW l \in Letter, ~table[l].avail,
                 table' = [table EXCEPT ![l].disk = probe.disk],
                 probe' = [probe EXCEPT !.at = "avail", !.letter = l]
          PROVE  Known' /\ Mounting' /\ NoTwoLetters'
      <4>1. \A m \in Letter : /\ table'[m].avail = table[m].avail
                              /\ table'[m].disk = IF m = l THEN probe.disk ELSE table[m].disk
        BY <3>1 DEF Entry
      <4>2. probe'.at = "avail" /\ probe'.letter = l /\ probe'.disk = probe.disk
        BY <3>1
      <4>3. diskAvail' = diskAvail /\ probe.at = "mount"
        BY <2>3 DEF FatMount
      <4> QED
        BY <3>1, <4>1, <4>2, <4>3
    <3>2. CASE probe' = [probe EXCEPT !.at = "mounted"] /\ UNCHANGED table
      BY <2>3, <3>2 DEF FatMount
    <3> QED
      BY <2>3, <3>1, <3>2 DEF FatMount, FirstFree
  <2>4. CASE SetAvail
    <3>1. \A m \in Letter : /\ table'[m].disk = table[m].disk
                            /\ table'[m].avail = (m = probe.letter \/ table[m].avail)
      <4>1. table' = [table EXCEPT ![probe.letter].avail = TRUE] BY <2>4 DEF SetAvail
      <4>2. table \in [Letter -> [disk : Disks \cup {None}, avail : BOOLEAN]] BY DEF Entry
      <4> HIDE DEF IInv, TypeOK, Known, Mounting, NoTwoLetters, Reading, Go
      <4> QED BY <4>1, <4>2
    <3>2. /\ probe'.at = "mounted" /\ probe'.disk = probe.disk /\ diskAvail' = diskAvail
          /\ probe.at = "avail"
      BY <2>4 DEF SetAvail
    <3>3. probe.disk \in Disks /\ table[probe.letter].disk = probe.disk
      BY <3>2
    <3>4. \A m \in Letter : table[m].avail => table[m].disk \in diskAvail
      BY <3>2
    <3>5. \A m \in Letter : table[m].avail => table[m].disk # probe.disk
      BY <3>2, <3>4
    <3>6. Known' /\ Mounting'
      BY <3>1, <3>2, <3>3, <3>4
    <3>7. NoTwoLetters'
      <4> SUFFICES ASSUME NEW l \in Letter, table'[l].avail
                   PROVE  /\ table'[l].disk \in Disks
                          /\ \A m \in Letter : table'[m].avail /\ table'[m].disk = table'[l].disk
                                                => l = m
        OBVIOUS
      <4>1. CASE l = probe.letter
        BY <3>1, <3>3, <3>5, <4>1
      <4>2. CASE l # probe.letter
        <5>1. table[l].avail /\ table'[l].disk = table[l].disk
          BY <3>1, <4>2
        <5>2. /\ table[l].disk \in Disks
              /\ \A m \in Letter : table[m].avail /\ table[m].disk = table[l].disk => l = m
          BY <5>1
        <5>3. table[l].disk # probe.disk
          BY <3>5, <5>1
        <5>4. ASSUME NEW m \in Letter, table'[m].avail, table'[m].disk = table[l].disk
              PROVE  table[m].avail /\ table[m].disk = table[l].disk
          BY <3>1, <3>3, <5>3, <5>4
        <5> HIDE DEF NoTwoLetters, TypeOK, Known, Mounting, IInv
        <5> QED
          BY <5>1, <5>2, <5>4
      <4> QED
        BY <4>1, <4>2
    <3> QED
      BY <3>6, <3>7
  <2>5. CASE Mounted
    BY <2>5 DEF Mounted
  <2>6. CASE DriveUnmountCard
    <3>1. \A m \in Letter :
            /\ table'[m].disk = table[m].disk
            /\ table'[m].avail => table[m].avail
            /\ table'[m].avail /\ diskAvail' # diskAvail => table[m].disk # probe.disk
      BY <2>6 DEF DriveUnmountCard, Entry
    <3>2. /\ probe'.at = "read" /\ diskAvail' \in {diskAvail, diskAvail \ {probe.disk}}
          /\ probe.at = "remove"
      BY <2>6 DEF DriveUnmountCard
    <3> QED
      BY <3>1, <3>2
  <2> QED
    BY <2>1, <2>2, <2>3, <2>4, <2>5, <2>6 DEF ProbeTask
<1> QED
  BY <1>1, <1>2 DEF IInv

(* The GUI only looks; what it knows stays typed, and in use only what it  *)
(* knows.                                                                  *)
LEMMA GuiStep ==
  ASSUME IInv, CurrentKnown, Poll \/ Press
  PROVE  IInv' /\ CurrentKnown'
<1> USE DEF IInv, TypeOK, CurrentKnown
<1>1. UNCHANGED <<slots, usb, queue, lost, probe, table, diskAvail>>
  BY DEF Poll, Press, StorageCheck, StorageSetCurrType
<1>2. /\ storage' \in [Kinds -> Letter \cup {None}] /\ current' \in Kinds \cup {"internal"}
      /\ CurrentKnown'
  <2>1. CASE Press
    BY <2>1 DEF Press, StorageSetCurrType
  <2>2. ASSUME NEW l \in Letter, StorageCheck(l)
        PROVE  /\ storage' \in [Kinds -> Letter \cup {None}]
               /\ current' \in Kinds \cup {"internal"} /\ CurrentKnown'
    <3> DEFINE k == Kind(table[l].disk)
    <3>1. k \in Kinds /\ l # None
      BY DrivesAssumption DEF Kind, Kinds, Letter
    <3>2. CASE Inserted(l) /\ storage' = [storage EXCEPT ![k] = l]
               /\ current' = IF current = "internal" THEN k ELSE current
      BY <3>1, <3>2
    <3>3. CASE Removed(l) /\ storage' = [storage EXCEPT ![k] = None]
               /\ current' = IF current # k THEN current
                             ELSE IF \E j \in Kinds : storage'[j] # None
                                  THEN CHOOSE j \in Kinds : storage'[j] # None
                                  ELSE "internal"
      <4>1. storage' \in [Kinds -> Letter \cup {None}]
        BY <3>1, <3>3
      <4>2. CASE current # k
        BY <3>1, <3>3, <4>1, <4>2
      <4>3. CASE current = k
        BY <3>3, <4>1, <4>3
      <4> QED
        BY <4>2, <4>3
    <3> QED
      BY <2>2, <3>2, <3>3 DEF StorageCheck
  <2> QED
    BY <2>1, <2>2 DEF Poll
<1>3. TypeOK'
  BY <1>1, <1>2 DEF slots, usb
<1> QED
  BY <1>1, <1>2, <1>3 DEF Known, Mounting, NoTwoLetters

-----------------------------------------------------------------------------
Inv == IInv /\ CurrentKnown

LEMMA InvInit == Init => Inv
<1> SUFFICES ASSUME Init PROVE Inv
  OBVIOUS
<1>1. TypeOK
  <2>1. queue \in Seq(Entries) /\ Len(queue) <= QueueLen /\ plugs \in 0 .. MaxPlugs
    BY DrivesAssumption DEF Init
  <2>2. table \in [Letter -> Entry] /\ storage \in [Kinds -> Letter \cup {None}]
    BY DEF Init, Entry
  <2> QED
    BY <2>1, <2>2 DEF Init, TypeOK, Reading, Entries
<1>2. Known /\ Mounting /\ NoTwoLetters /\ CurrentKnown
  BY DEF Init, Known, Mounting, NoTwoLetters, CurrentKnown, Reading
<1> QED
  BY <1>1, <1>2 DEF Inv, IInv

LEMMA InvStep == Inv /\ [Next]_vars => Inv'
<1> SUFFICES ASSUME Inv, [Next]_vars PROVE Inv'
  OBVIOUS
<1>1. CASE PlugSd \/ Usb
  <2>1. UNCHANGED gui
    BY <1>1 DEF PlugSd, Usb, PlugMsc, UsbTask, MscConnect, MscStatus, MscReport, MscDisconnect,
       MscStatusReset, others
  <2> QED
    BY <1>1, <2>1, SlotsStep DEF Inv, CurrentKnown, gui
<1>2. CASE ProbeTask
  <2>1. UNCHANGED gui
    BY <1>2 DEF ProbeTask, CardRead, DriveMountCard, FatMount, SetAvail, Mounted, DriveUnmountCard
  <2> QED
    BY <1>2, <2>1, ProbeStep DEF Inv, CurrentKnown, gui
<1>3. CASE Poll \/ Press
  BY <1>3, GuiStep DEF Inv
<1>4. CASE UNCHANGED vars
  BY <1>4 DEF vars, Inv, IInv, TypeOK, Known, Mounting, NoTwoLetters, CurrentKnown
<1> QED
  BY <1>1, <1>2, <1>3, <1>4 DEF Next

LEMMA Invariance == Spec => []Inv
<1>1. Init => Inv
  BY InvInit
<1>2. Inv /\ [Next]_vars => Inv'
  BY InvStep
<1> QED
  BY <1>1, <1>2, PTL DEF Spec

(***************************************************************************)
(* The queue of the cards, the table of drives and what the GUI knows of   *)
(* them keep their types; the queue keeps its length (itp_card.c:30).      *)
(***************************************************************************)
THEOREM TypeCorrect == Spec => []TypeOK
<1>1. Inv => TypeOK
  BY DEF Inv, IInv
<1> QED
  BY <1>1, Invariance, PTL

(***************************************************************************)
(* However the disks come and go, none is mounted on two letters, and a    *)
(* disk with a letter is one driveDiskAvail knows, or the one the probe    *)
(* task is mounting (itp_drive_openrtos.c:181-257).                        *)
(***************************************************************************)
THEOREM NoDiskTwice == Spec => []OneLetter
<1>1. Inv => OneLetter
  BY DEF Inv, IInv, Known, NoTwoLetters, OneLetter, Mounts
<1> QED
  BY <1>1, Invariance, PTL

(***************************************************************************)
(* The storage in use is always one the GUI was told of, or the internal   *)
(* one (storage.c:93-99 and 122-128).                                      *)
(***************************************************************************)
THEOREM StorageInUseKnown == Spec => []CurrentKnown
<1>1. Inv => CurrentKnown
  BY DEF Inv
<1> QED
  BY <1>1, Invariance, PTL

=============================================================================
