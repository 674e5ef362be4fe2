------------------------------- MODULE NorCache -------------------------------
(***************************************************************************)
(* The write-back sector cache in front of the serial NOR flash            *)
(* (sdk/share/fat/nor/cache2.c) and the FAT driver functions that use it   *)
(* (sdk/share/fat/nor/nordrv_f.c).                                         *)
(*                                                                         *)
(* Every thread of the firmware may read and write sectors, through the    *)
(* file system, and may flush the cache, through the NOR device's ioctl or *)
(* its idle handler.  The file system serialises its own calls into the    *)
(* driver (fatLock); a flush takes only the flush mutex.                   *)
(*                                                                         *)
(* The access times are kept as the order they induce on the pages, and    *)
(* a page buffer as a function from the sectors it holds to their values.  *)
(***************************************************************************)
EXTENDS Integers, FiniteSets

CONSTANTS
  Threads,        \* the threads that use the NOR drive
  NumPages,       \* cache->numberOfPages
  SectorsPerPage, \* cache->sectorsPerPage
  TotalSectors,   \* the number of sectors nor_getphy reports
  UsedSectors,    \* the sectors the file system reads and writes
  MaxTransfer,    \* bound: sectors in one call
  Values,         \* contents of a sector
  Torn,           \* content of a sector of an interrupted page program
  Faults,         \* can a transfer from or to the flash fail?
  MaxCrashes,     \* bound: power losses in a behaviour
  NoThread

(* The constructor raises NumPages to 4 and SectorsPerPage to 32; nothing   *)
(* below depends on it.                                                    *)
ASSUME NorCacheAssumption ==
  /\ NumPages \in Nat \ {0}
  /\ SectorsPerPage \in Nat \ {0}
  /\ TotalSectors \in Nat \ {0}
  /\ UsedSectors \subseteq 0 .. TotalSectors - 1
  /\ MaxTransfer \in Nat \ {0}
  /\ MaxCrashes \in Nat
  /\ Faults \in BOOLEAN
  /\ Values # {} /\ Torn \notin Values
  /\ NoThread \notin Threads

Pages   == 1 .. NumPages
Sectors == 0 .. TotalSectors - 1
Free    == -1                     \* CACHE_FREE
Content == Values \cup {Torn}

VARIABLES
  disc,     \* contents of the flash
  base,     \* cacheEntries[p].sector
  buf,      \* cacheEntries[p].cache, on the sectors of the page
  dirty,    \* cacheEntries[p].dirty
  older,    \* <<p, q>> : page p was used before page q (last_access)
  fatLock,  \* the thread inside the FAT driver
  mutex,    \* holder of NorContext.flushMutex
  flush,    \* the loop of the running flush: iteration, page, stage
  pc,       \* where each thread is
  call,     \* the call it executes
  page,     \* the page getPage works on for it
  crashes

vars == <<disc, base, buf, dirty, older, fatLock, mutex, flush, pc, call, page, crashes>>

None == [op |-> "none"]
FlushCall == [op |-> "flush"]
Transfers == [op : {"read"}, from : Sectors, to : Sectors]
             \cup [op : {"write"}, from : Sectors, to : Sectors, val : Values]
Calls == {None, FlushCall} \cup Transfers

(* The page a sector belongs to starts at an aligned sector, and ends      *)
(* before endOfPartition, which nor_initfunc sets one below the number of  *)
(* sectors.                                                                *)
EndOfPartitionTooLow == TotalSectors - 2
EndOfPartition == TotalSectors - 1
BaseOf(s) == (s \div SectorsPerPage) * SectorsPerPage
Cover(b)  == {s \in Sectors : BaseOf(s) = b /\ s < EndOfPartition}

Holds(p, s) == s \in DOMAIN buf[p]
NoBuffer == [s \in {} |-> Torn]
NoFlush  == [iter |-> 0, page |-> 0, stage |-> "scan"]

(* A drive without history: what it holds makes no difference.             *)
Init ==
  /\ \E v \in Values : disc = [s \in Sectors |-> v]
  /\ base = [p \in Pages |-> Free]
  /\ buf = [p \in Pages |-> NoBuffer]
  /\ dirty = [p \in Pages |-> FALSE]
  /\ older = {}
  /\ fatLock = NoThread
  /\ mutex = NoThread
  /\ flush = NoFlush
  /\ pc = [t \in Threads |-> "idle"]
  /\ call = [t \in Threads |-> None]
  /\ page = [t \in Threads |-> 1]
  /\ crashes = 0

-------------------------------------------------------------------------------
(* Calls.                                                                  *)

TransferUnlocked(t) ==
  /\ pc[t] = "idle"
  /\ \E c \in Transfers : c.from = c.to /\ call' = [call EXCEPT ![t] = c]
  /\ fatLock' = t
  /\ pc' = [pc EXCEPT ![t] = "lookup"]
  /\ UNCHANGED <<disc, base, buf, dirty, older, mutex, flush, page, crashes>>

Transfer(t) ==
  /\ pc[t] = "idle"
  /\ fatLock = NoThread
  /\ \E c \in Transfers :
       /\ c.to - c.from \in 0 .. MaxTransfer - 1
       /\ c.from .. c.to \subseteq UsedSectors
       /\ call' = [call EXCEPT ![t] = c]
  /\ fatLock' = t
  /\ pc' = [pc EXCEPT ![t] = "lookup"]
  /\ UNCHANGED <<disc, base, buf, dirty, older, mutex, flush, page, crashes>>

Flush(t) ==
  /\ pc[t] = "idle"
  /\ call' = [call EXCEPT ![t] = FlushCall]
  /\ pc' = [pc EXCEPT ![t] = "enter"]
  /\ UNCHANGED <<disc, base, buf, dirty, older, fatLock, mutex, flush, page, crashes>>

-------------------------------------------------------------------------------
(* Looking a page up, and choosing one to replace.                         *)

Touch(p) == {e \in older : p \notin {e[1], e[2]}} \cup ((Pages \ {p}) \X {p})

(* The page is in the cache.  A write finds it without marking it used,    *)
(* unless it starts at the first sector of the page.                       *)
Hit(t) ==
  /\ pc[t] = "lookup"
  /\ \E p \in Pages :
       /\ Holds(p, call[t].from)
       /\ \A q \in 1 .. p - 1 : ~ Holds(q, call[t].from)
       /\ page' = [page EXCEPT ![t] = p]
       /\ older' = IF call[t].op = "write" /\ call[t].from > base[p]
                   THEN older ELSE Touch(p)
  /\ pc' = [pc EXCEPT ![t] = "copy"]
  /\ UNCHANGED <<disc, base, buf, dirty, fatLock, mutex, flush, call, crashes>>

(* The first free page, or else the page used least recently.              *)
Victim(v) ==
  IF \E p \in Pages : base[p] = Free
  THEN base[v] = Free /\ \A q \in 1 .. v - 1 : base[q] # Free
  ELSE \A q \in Pages : <<q, v>> \notin older

MissWithoutFlush(t) ==
  /\ pc[t] = "lookup"
  /\ \A p \in Pages : ~ Holds(p, call[t].from)
  /\ \E v \in Pages : Victim(v) /\ page' = [page EXCEPT ![t] = v]
  /\ pc' = [pc EXCEPT ![t] = "load"]
  /\ UNCHANGED <<disc, base, buf, dirty, older, fatLock, mutex, flush, call, crashes>>

Miss(t) ==
  /\ pc[t] = "lookup"
  /\ \A p \in Pages : ~ Holds(p, call[t].from)
  /\ \E v \in Pages :
       /\ Victim(v)
       /\ page' = [page EXCEPT ![t] = v]
       /\ pc' = [pc EXCEPT ![t] = IF base[v] # Free /\ dirty[v] THEN "enter" ELSE "load"]
  /\ UNCHANGED <<disc, base, buf, dirty, older, fatLock, mutex, flush, call, crashes>>

-------------------------------------------------------------------------------
(* _NOR_cache_flush, called by getPage to clean its victim and by Flush.   *)

DirtyPages == {p \in Pages : dirty[p]}

FlushEnter(t) ==
  /\ pc[t] = "enter"
  /\ mutex = NoThread
  /\ mutex' = t
  /\ flush' = NoFlush
  /\ pc' = [pc EXCEPT ![t] = "flush"]
  /\ UNCHANGED <<disc, base, buf, dirty, older, fatLock, call, page, crashes>>

(* The dirty page with the lowest sector is next.                          *)
FlushPick(t) ==
  /\ pc[t] = "flush" /\ flush.stage = "scan"
  /\ flush.iter < NumPages
  /\ \E p \in DirtyPages :
       /\ \A q \in DirtyPages : base[p] <= base[q]
       /\ flush' = [flush EXCEPT !.page = p, !.stage = "write"]
  /\ UNCHANGED <<disc, base, buf, dirty, older, fatLock, mutex, pc, call, page, crashes>>

ProgrammedShort(p) ==
  [s \in Sectors |-> IF Holds(p, s) /\ Holds(p, s + 1) THEN buf[p][s] ELSE disc[s]]
Programmed(p) == [s \in Sectors |-> IF Holds(p, s) THEN buf[p][s] ELSE disc[s]]
Interrupted(p) == [s \in Sectors |-> IF Holds(p, s) THEN Torn ELSE disc[s]]

FlushWrite(t) ==
  /\ pc[t] = "flush" /\ flush.stage = "write"
  /\ disc' = Programmed(flush.page)
  /\ flush' = [flush EXCEPT !.stage = "written"]
  /\ UNCHANGED <<base, buf, dirty, older, fatLock, mutex, pc, call, page, crashes>>

FlushClear(t) ==
  /\ pc[t] = "flush" /\ flush.stage = "written"
  /\ dirty' = [dirty EXCEPT ![flush.page] = FALSE]
  /\ flush' = [flush EXCEPT !.stage = "scan", !.iter = @ + 1]
  /\ UNCHANGED <<disc, base, buf, older, fatLock, mutex, pc, call, page, crashes>>

(* Back to getPage, which does not look at the result, or to the caller.   *)
FlushReturn(t) ==
  /\ mutex' = NoThread
  /\ flush' = NoFlush
  /\ IF call[t].op = "flush"
     THEN /\ pc' = [pc EXCEPT ![t] = "idle"]
          /\ call' = [call EXCEPT ![t] = None]
     ELSE /\ pc' = [pc EXCEPT ![t] = "load"]
          /\ UNCHANGED call

FlushFail(t) ==
  /\ Faults
  /\ pc[t] = "flush" /\ flush.stage = "write"
  /\ disc' \in {disc, Interrupted(flush.page)}
  /\ FlushReturn(t)
  /\ UNCHANGED <<base, buf, dirty, older, fatLock, page, crashes>>

FlushEndEarly(t) ==
  /\ pc[t] = "flush" /\ flush.stage = "scan"
  /\ flush.iter = NumPages - 1 \/ DirtyPages = {}
  /\ FlushReturn(t)
  /\ UNCHANGED <<disc, base, buf, dirty, older, fatLock, page, crashes>>

FlushEnd(t) ==
  /\ pc[t] = "flush" /\ flush.stage = "scan"
  /\ flush.iter = NumPages \/ DirtyPages = {}
  /\ FlushReturn(t)
  /\ UNCHANGED <<disc, base, buf, dirty, older, fatLock, page, crashes>>

-------------------------------------------------------------------------------
(* Loading the page, and copying between it and the caller.                *)

LoadOneSector(t) ==
  /\ pc[t] = "load"
  /\ base' = [base EXCEPT ![page[t]] = BaseOf(call[t].from)]
  /\ buf' = [buf EXCEPT ![page[t]] = [s \in {call[t].from} |-> disc[s]]]
  /\ older' = Touch(page[t])
  /\ pc' = [pc EXCEPT ![t] = "copy"]
  /\ UNCHANGED <<disc, dirty, fatLock, mutex, flush, call, page, crashes>>

Load(t) ==
  /\ pc[t] = "load"
  /\ LET b == BaseOf(call[t].from) IN
       /\ base' = [base EXCEPT ![page[t]] = b]
       /\ buf' = [buf EXCEPT ![page[t]] = [s \in Cover(b) |-> disc[s]]]
  /\ older' = Touch(page[t])
  \* readSectors and writeSectors find the sector behind a page that does
  \* not reach it, move nothing, and look it up again
  /\ pc' = [pc EXCEPT ![t] = IF call[t].from \in Cover(BaseOf(call[t].from))
                             THEN "copy" ELSE "lookup"]
  /\ UNCHANGED <<disc, dirty, fatLock, mutex, flush, call, page, crashes>>

(* The read fails: the call returns an error; the entry keeps its sector   *)
(* and its dirty flag although its buffer may have been overwritten.       *)
LoadFail(t) ==
  /\ Faults
  /\ pc[t] = "load"
  /\ buf' \in {buf, [buf EXCEPT ![page[t]] = [s \in DOMAIN @ |-> Torn]]}
  /\ fatLock' = NoThread
  /\ pc' = [pc EXCEPT ![t] = "idle"]
  /\ call' = [call EXCEPT ![t] = None]
  /\ UNCHANGED <<disc, base, dirty, older, mutex, flush, page, crashes>>

(* The first sector after the page, sector + count; the call goes on there *)
(* if it reaches that far.                                                 *)
PageEnd(b) ==
  IF b + SectorsPerPage > EndOfPartition THEN EndOfPartition ELSE b + SectorsPerPage

Proceed(t) ==
  LET next == PageEnd(base[page[t]]) IN
  IF call[t].to < next
  THEN /\ fatLock' = NoThread
       /\ pc' = [pc EXCEPT ![t] = "idle"]
       /\ call' = [call EXCEPT ![t] = None]
  ELSE /\ pc' = [pc EXCEPT ![t] = "lookup"]
       /\ call' = [call EXCEPT ![t] = [@ EXCEPT !.from = next]]
       /\ UNCHANGED fatLock

CopyOut(t) ==
  /\ pc[t] = "copy" /\ call[t].op = "read"
  /\ Proceed(t)
  /\ UNCHANGED <<disc, base, buf, dirty, older, mutex, flush, page, crashes>>

CopyIn(t) ==
  /\ pc[t] = "copy" /\ call[t].op = "write"
  /\ buf' = [buf EXCEPT ![page[t]] =
               [s \in DOMAIN @ |-> IF s \in call[t].from .. call[t].to THEN call[t].val ELSE @[s]]]
  /\ pc' = [pc EXCEPT ![t] = "mark"]
  /\ UNCHANGED <<disc, base, dirty, older, fatLock, mutex, flush, call, page, crashes>>

MarkNothing(t) ==
  /\ pc[t] = "mark"
  /\ Proceed(t)
  /\ UNCHANGED <<disc, base, buf, dirty, older, mutex, flush, page, crashes>>

MarkDirty(t) ==
  /\ pc[t] = "mark"
  /\ dirty' = [dirty EXCEPT ![page[t]] = TRUE]
  /\ Proceed(t)
  /\ UNCHANGED <<disc, base, buf, older, mutex, flush, page, crashes>>

-------------------------------------------------------------------------------
(* A power loss: memory is gone; a page being programmed is old, new or    *)
(* torn.  The driver starts again with an empty cache.                     *)
Crash ==
  /\ crashes < MaxCrashes
  /\ crashes' = crashes + 1
  /\ disc' \in IF mutex # NoThread /\ flush.stage = "write"
               THEN {disc, Programmed(flush.page), Interrupted(flush.page)}
               ELSE {disc}
  /\ base' = [p \in Pages |-> Free]
  /\ buf' = [p \in Pages |-> NoBuffer]
  /\ dirty' = [p \in Pages |-> FALSE]
  /\ older' = {}
  /\ fatLock' = NoThread
  /\ mutex' = NoThread
  /\ flush' = NoFlush
  /\ pc' = [t \in Threads |-> "idle"]
  /\ call' = [t \in Threads |-> None]
  /\ page' = [t \in Threads |-> 1]

Begin(t) == Transfer(t) \/ Flush(t)

Continue(t) ==
  \/ Hit(t) \/ Miss(t) \/ Load(t) \/ LoadFail(t)
  \/ CopyOut(t) \/ CopyIn(t) \/ MarkDirty(t)
  \/ FlushEnter(t) \/ FlushPick(t) \/ FlushWrite(t) \/ FlushClear(t)
  \/ FlushFail(t) \/ FlushEnd(t)

Next == (\E t \in Threads : Begin(t) \/ Continue(t)) \/ Crash

Spec == Init /\ [][Next]_vars

(* A thread inside a call keeps running: nothing in the code waits but for *)
(* the flush mutex and the file system's lock, and the scheduler runs      *)
(* every ready thread.                                                     *)
FairSpec == Spec /\ \A t \in Threads : WF_vars(Continue(t))

-------------------------------------------------------------------------------
(* Properties.                                                             *)

Stages == {"idle", "lookup", "enter", "flush", "load", "copy", "mark"}

TypeOK ==
  /\ disc \in [Sectors -> Content]
  /\ base \in [Pages -> {BaseOf(s) : s \in Sectors} \cup {Free}]
  /\ DOMAIN buf = Pages
  /\ \A p \in Pages : buf[p] \in [Cover(base[p]) -> Content]
  /\ dirty \in [Pages -> BOOLEAN]
  /\ older \subseteq Pages \X Pages
  /\ fatLock \in Threads \cup {NoThread}
  /\ mutex \in Threads \cup {NoThread}
  /\ flush \in [iter : 0 .. NumPages, page : Pages \cup {0}, stage : {"scan", "write", "written"}]
  /\ pc \in [Threads -> Stages]
  /\ call \in [Threads -> Calls]
  /\ page \in [Threads -> Pages]
  /\ crashes \in 0 .. MaxCrashes

(* No sector is held by two pages, or a write to the one would be undone   *)
(* when the other is flushed after it.                                     *)
NoAliasing ==
  \A p, q \in Pages : p # q => DOMAIN buf[p] \cap DOMAIN buf[q] = {}

(* A page whose dirty flag is clear can be dropped: the flash has what the *)
(* page has, except for the page a write has filled and not yet marked.    *)
Filling(p) == \E t \in Threads : pc[t] = "mark" /\ page[t] = p

CleanPagesMatchDisc ==
  \A p \in Pages : ~ dirty[p] /\ ~ Filling(p) =>
    \A s \in DOMAIN buf[p] : buf[p][s] = disc[s]

(* What a read would return.                                               *)
View == [s \in Sectors |->
          IF \E p \in Pages : Holds(p, s)
          THEN buf[CHOOSE p \in Pages : Holds(p, s) /\ \A q \in 1 .. p - 1 : ~ Holds(q, s)][s]
          ELSE disc[s]]

(* "When the sector is swapped out, the data will be written to the disc": *)
(* replacing a page does not change what a read returns.                   *)
SwapOutKeepsData ==
  [][\A t \in Threads : Load(t) => View' = View]_vars

(* A flush call returns only when nothing is left to lose: a power loss    *)
(* after it keeps every sector.                                            *)
FlushMakesDurable ==
  [][\A t \in Threads : FlushEnd(t) /\ call[t].op = "flush" => disc = View]_vars

(* Every call returns.                                                     *)
CallsReturn == \A t \in Threads : pc[t] # "idle" ~> pc[t] = "idle"

(* The cache implements the abstract store.                                *)
Store == INSTANCE WriteBackStore WITH content <- View, saved <- disc,
           Units <- {Cover(b) : b \in Sectors}
ImplementsStore == Store!Spec
===============================================================================
