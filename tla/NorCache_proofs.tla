---------------------------- MODULE NorCache_proofs ----------------------------
(***************************************************************************)
(* Proofs about NorCache, for any number of threads, pages and sectors.    *)
(***************************************************************************)
EXTENDS NorCache, TLAPS

(* A thread that executes a transfer has the file system's lock, and the   *)
(* thread that runs the flush loop has the flush mutex.                    *)
LocksHeld ==
  \A t \in Threads :
    /\ pc[t] \in {"lookup", "load", "copy", "mark"} => call[t] \in Transfers
    /\ call[t] \in Transfers => fatLock = t
    /\ pc[t] = "flush" => mutex = t
    /\ pc[t] \in {"enter", "flush"} => call[t] # None

(* The flush loop works on a page only while it has iterations left.       *)
FlushInRange ==
  flush.stage # "scan" => flush.page \in Pages /\ flush.iter < NumPages

(* A transfer copies to or from the page that has its next sector.         *)
OnItsPage ==
  \A t \in Threads : pc[t] \in {"copy", "mark"} => call[t].from \in Cover(base[page[t]])

TypeInv == TypeOK /\ LocksHeld /\ FlushInRange /\ OnItsPage

(* Arithmetic of the pages.                                                *)
LEMMA BaseIsNat == ASSUME NEW s \in Sectors PROVE BaseOf(s) \in Nat
<1>1. s \in Nat /\ SectorsPerPage \in Nat \ {0}
  BY NorCacheAssumption DEF Sectors
<1>2. s \div SectorsPerPage \in Nat
  BY <1>1
<1> DEFINE k == s \div SectorsPerPage
<1>3. k \in Nat => k * SectorsPerPage \in Nat
  BY <1>1
<1> QED
  BY <1>2, <1>3 DEF BaseOf

LEMMA SectorBelowPageEnd ==
  ASSUME NEW s \in Sectors, s < EndOfPartition
  PROVE  s < PageEnd(BaseOf(s)) /\ PageEnd(BaseOf(s)) \in Int
<1>1. s \in Nat /\ SectorsPerPage \in Nat \ {0} /\ EndOfPartition \in Int
  BY NorCacheAssumption DEF Sectors, EndOfPartition
<1> DEFINE k == s \div SectorsPerPage
<1>2. k \in Nat
  BY <1>1
<1>3. s < k * SectorsPerPage + SectorsPerPage
  BY <1>1, <1>2
<1>4. k * SectorsPerPage \in Nat
  BY <1>1, <1>2
<1> QED
  BY <1>1, <1>3, <1>4 DEF BaseOf, PageEnd

LEMMA FreeCoversNothing == Cover(Free) = {}
  BY BaseIsNat DEF Cover, Free

-------------------------------------------------------------------------------
LEMMA CallTypes ==
  /\ None \notin Transfers /\ FlushCall \notin Transfers /\ None # FlushCall
  /\ None \in Calls /\ FlushCall \in Calls /\ Transfers \subseteq Calls
  BY DEF None, FlushCall, Transfers, Calls

LEMMA TypeInvInit == Init => TypeInv
<1> SUFFICES ASSUME Init PROVE TypeInv
  OBVIOUS
<1>1. \A p \in Pages : buf[p] \in [Cover(base[p]) -> Content]
  BY FreeCoversNothing DEF Init, NoBuffer
<1>2. disc \in [Sectors -> Content]
  BY NorCacheAssumption DEF Init, Content
<1>3. Pages # {} /\ 1 \in Pages /\ 0 \in 0 .. NumPages /\ 0 \in 0 .. MaxCrashes
  BY NorCacheAssumption DEF Pages
<1>4. TypeOK
  BY <1>1, <1>2, <1>3, CallTypes DEF Init, TypeOK, NoFlush, Stages
<1> QED
  BY <1>4, CallTypes DEF Init, TypeInv, LocksHeld, FlushInRange, OnItsPage, NoFlush

(* What Proceed leaves behind: the lock is free and the call is over, or   *)
(* the call goes on with a sector of its range.                            *)
LEMMA ProceedCases ==
  ASSUME TypeInv, NEW t \in Threads, pc[t] \in {"copy", "mark"}, Proceed(t)
  PROVE  \/ /\ fatLock' = NoThread
            /\ pc' = [pc EXCEPT ![t] = "idle"]
            /\ call' = [call EXCEPT ![t] = None]
         \/ /\ fatLock' = fatLock
            /\ pc' = [pc EXCEPT ![t] = "lookup"]
            /\ \E c \in Transfers : call' = [call EXCEPT ![t] = c]
<1> DEFINE next == PageEnd(base[page[t]])
<1>1. call[t] \in Transfers
  BY DEF TypeInv, LocksHeld
<1>2. CASE call[t].to < next
  BY <1>2 DEF Proceed
<1>3. CASE ~ (call[t].to < next)
  <2>1. call[t].from \in Sectors /\ call[t].to \in Sectors
    BY <1>1 DEF Transfers
  <2>2. /\ call[t].from < EndOfPartition
        /\ base[page[t]] = BaseOf(call[t].from)
    BY DEF TypeInv, OnItsPage, Cover
  <2>3. next \in Int /\ call[t].from < next
    BY <2>1, <2>2, SectorBelowPageEnd
  <2>4. next \in Sectors
    BY <1>3, <2>1, <2>3, NorCacheAssumption DEF Sectors
  <2>5. [call[t] EXCEPT !.from = next] \in Transfers
    BY <1>1, <2>4 DEF Transfers
  <2> QED
    BY <1>3, <2>5 DEF Proceed
<1> QED
  BY <1>2, <1>3

(* What FlushReturn leaves behind.                                         *)
LEMMA FlushReturnLocks ==
  ASSUME TypeInv, NEW t \in Threads, pc[t] = "flush", FlushReturn(t), fatLock' = fatLock
  PROVE  LocksHeld' /\ \A u \in Threads :
           pc'[u] \in {"copy", "mark"} => pc'[u] = pc[u] /\ call'[u] = call[u]
<1>1. \A u \in Threads \ {t} : pc'[u] = pc[u] /\ call'[u] = call[u]
  BY DEF FlushReturn, TypeInv, TypeOK
<1>2. \A u \in Threads \ {t} : pc[u] # "flush"
  BY DEF TypeInv, LocksHeld
<1>3. CASE call[t].op = "flush"
  <2>1. pc'[t] = "idle" /\ call'[t] = None
    BY <1>3 DEF FlushReturn, TypeInv, TypeOK
  <2> QED
    BY <1>1, <1>2, <2>1, CallTypes DEF TypeInv, LocksHeld
<1>4. CASE call[t].op # "flush"
  <2>1. pc'[t] = "load" /\ call'[t] = call[t]
    BY <1>4 DEF FlushReturn, TypeInv, TypeOK
  <2>2. call[t] \in Transfers
    BY <1>4 DEF TypeInv, LocksHeld, TypeOK, Calls, FlushCall
  <2> QED
    BY <1>1, <1>2, <2>1, <2>2, CallTypes DEF TypeInv, LocksHeld
<1> QED
  BY <1>3, <1>4

LEMMA TransferKeeps == ASSUME TypeInv, NEW t \in Threads, Transfer(t) PROVE TypeInv'
<1>1. TypeOK'
  BY NorCacheAssumption, CallTypes DEF Transfer, TypeInv, TypeOK, Stages
<1>2. LocksHeld'
  BY NorCacheAssumption, CallTypes DEF Transfer, TypeInv, TypeOK, LocksHeld, Stages
<1>3. FlushInRange'
  BY NorCacheAssumption, CallTypes DEF Transfer, TypeInv, TypeOK, FlushInRange
<1>4. OnItsPage'
  BY NorCacheAssumption, CallTypes DEF Transfer, TypeInv, TypeOK, OnItsPage, LocksHeld
<1> QED
  BY <1>1, <1>2, <1>3, <1>4 DEF TypeInv

LEMMA FlushKeeps == ASSUME TypeInv, NEW t \in Threads, Flush(t) PROVE TypeInv'
<1>1. TypeOK'
  BY CallTypes DEF Flush, TypeInv, TypeOK, Stages
<1>2. LocksHeld'
  BY CallTypes DEF Flush, TypeInv, TypeOK, LocksHeld, Stages
<1>3. FlushInRange'
  BY CallTypes DEF Flush, TypeInv, TypeOK, FlushInRange
<1>4. OnItsPage'
  BY CallTypes DEF Flush, TypeInv, TypeOK, OnItsPage, LocksHeld
<1> QED
  BY <1>1, <1>2, <1>3, <1>4 DEF TypeInv

LEMMA HitKeeps == ASSUME TypeInv, NEW t \in Threads, Hit(t) PROVE TypeInv'
<1>a. older' \subseteq Pages \X Pages
  BY DEF Hit, TypeInv, TypeOK, Touch
<1>1. TypeOK'
  BY <1>a, CallTypes DEF Hit, Holds, TypeInv, TypeOK, Stages
<1>2. LocksHeld'
  BY CallTypes DEF Hit, Holds, TypeInv, TypeOK, LocksHeld, Stages
<1>3. FlushInRange'
  BY CallTypes DEF Hit, Holds, TypeInv, TypeOK, FlushInRange
<1>4. OnItsPage'
  BY CallTypes DEF Hit, Holds, TypeInv, TypeOK, OnItsPage, LocksHeld
<1> QED
  BY <1>1, <1>2, <1>3, <1>4 DEF TypeInv

LEMMA MissKeeps == ASSUME TypeInv, NEW t \in Threads, Miss(t) PROVE TypeInv'
<1>1. TypeOK'
  BY CallTypes DEF Miss, TypeInv, TypeOK, Stages
<1>2. LocksHeld'
  BY CallTypes DEF Miss, TypeInv, TypeOK, LocksHeld, Stages
<1>3. FlushInRange'
  BY CallTypes DEF Miss, TypeInv, TypeOK, FlushInRange
<1>4. OnItsPage'
  BY CallTypes DEF Miss, TypeInv, TypeOK, OnItsPage, LocksHeld
<1> QED
  BY <1>1, <1>2, <1>3, <1>4 DEF TypeInv

LEMMA LoadKeeps == ASSUME TypeInv, NEW t \in Threads, Load(t) PROVE TypeInv'
<1>a. call[t] \in Transfers /\ call[t].from \in Sectors /\ page[t] \in Pages
  BY NorCacheAssumption DEF Load, TypeInv, TypeOK, LocksHeld, Transfers, Sectors
<1>b. older' \subseteq Pages \X Pages
  BY <1>a DEF Load, TypeInv, TypeOK, Touch
<1>c. \A p \in Pages : buf'[p] \in [Cover(base'[p]) -> Content]
  <2> DEFINE b == BaseOf(call[t].from)
  <2>1. Cover(b) \subseteq Sectors
    BY DEF Cover
  <2>2. [s \in Cover(b) |-> disc[s]] \in [Cover(b) -> Content]
    BY <2>1 DEF TypeInv, TypeOK
  <2>3. buf' = [buf EXCEPT ![page[t]] = [s \in Cover(b) |-> disc[s]]]
        /\ base' = [base EXCEPT ![page[t]] = b]
    BY DEF Load
  <2>4. DOMAIN buf = Pages /\ DOMAIN base = Pages
        /\ \A p \in Pages : buf[p] \in [Cover(base[p]) -> Content]
    BY DEF TypeInv, TypeOK
  <2> QED
    BY <1>a, <2>2, <2>3, <2>4
<1>1. TypeOK'
  <2>1. base' \in [Pages -> {BaseOf(s) : s \in Sectors} \cup {Free}]
    BY <1>a DEF Load, TypeInv, TypeOK
  <2>2. pc' \in [Threads -> Stages]
    BY DEF Load, TypeInv, TypeOK, Stages
  <2>3. DOMAIN buf' = Pages
    BY DEF Load, TypeInv, TypeOK
  <2>4. UNCHANGED <<disc, dirty, fatLock, mutex, flush, call, page, crashes>>
    BY DEF Load
  <2> QED
    BY <1>b, <1>c, <2>1, <2>2, <2>3, <2>4 DEF TypeInv, TypeOK
<1>2. LocksHeld'
  BY CallTypes DEF Load, TypeInv, TypeOK, LocksHeld, Stages
<1>3. FlushInRange'
  BY CallTypes DEF Load, TypeInv, TypeOK, FlushInRange
<1>4. OnItsPage'
  BY <1>a, CallTypes DEF Load, TypeInv, TypeOK, OnItsPage, LocksHeld
<1> QED
  BY <1>1, <1>2, <1>3, <1>4 DEF TypeInv

LEMMA LoadFailKeeps == ASSUME TypeInv, NEW t \in Threads, LoadFail(t) PROVE TypeInv'
<1>a. [buf EXCEPT ![page[t]] = [s \in DOMAIN @ |-> Torn]][page[t]] \in [Cover(base[page[t]]) -> Content]
  BY DEF TypeInv, TypeOK, Content
<1>b. DOMAIN buf' = Pages /\ \A p \in Pages : buf'[p] \in [Cover(base[p]) -> Content]
  BY <1>a DEF LoadFail, TypeInv, TypeOK
<1>1. TypeOK'
  BY <1>b, CallTypes DEF LoadFail, TypeInv, TypeOK, Stages
<1>2. LocksHeld'
  BY NorCacheAssumption, CallTypes DEF LoadFail, TypeInv, TypeOK, LocksHeld, Stages
<1>3. FlushInRange'
  BY CallTypes DEF LoadFail, TypeInv, TypeOK, FlushInRange
<1>4. OnItsPage'
  BY CallTypes DEF LoadFail, TypeInv, TypeOK, OnItsPage, LocksHeld
<1> QED
  BY <1>1, <1>2, <1>3, <1>4 DEF TypeInv

LEMMA CopyOutKeeps == ASSUME TypeInv, NEW t \in Threads, CopyOut(t) PROVE TypeInv'
<1>a. pc[t] \in {"copy", "mark"} /\ Proceed(t)
  BY DEF CopyOut
<1>b. fatLock' \in Threads \cup {NoThread} /\ pc' \in [Threads -> Stages]
  BY <1>a, ProceedCases DEF TypeInv, TypeOK, Stages
<1>c. call' \in [Threads -> Calls]
  BY <1>a, ProceedCases, CallTypes DEF TypeInv, TypeOK
<1>1. TypeOK'
  BY <1>b, <1>c, CallTypes DEF CopyOut, TypeInv, TypeOK, Stages
<1>2. LocksHeld'
  BY ProceedCases, <1>a, NorCacheAssumption, CallTypes DEF CopyOut, TypeInv, TypeOK, LocksHeld, Stages
<1>3. FlushInRange'
  BY CallTypes DEF CopyOut, TypeInv, TypeOK, FlushInRange
<1>4. OnItsPage'
  BY ProceedCases, <1>a, CallTypes DEF CopyOut, TypeInv, TypeOK, OnItsPage, LocksHeld
<1> QED
  BY <1>1, <1>2, <1>3, <1>4 DEF TypeInv

LEMMA CopyInKeeps == ASSUME TypeInv, NEW t \in Threads, CopyIn(t) PROVE TypeInv'
<1>a. call[t].val \in Content
  BY DEF CopyIn, TypeInv, LocksHeld, Transfers, Content
<1>b. DOMAIN buf' = Pages /\ \A p \in Pages : buf'[p] \in [Cover(base[p]) -> Content]
  BY <1>a DEF CopyIn, TypeInv, TypeOK
<1>1. TypeOK'
  BY <1>a, <1>b, CallTypes DEF CopyIn, TypeInv, TypeOK, Stages
<1>2. LocksHeld'
  BY CallTypes DEF CopyIn, TypeInv, TypeOK, LocksHeld, Stages
<1>3. FlushInRange'
  BY CallTypes DEF CopyIn, TypeInv, TypeOK, FlushInRange
<1>4. OnItsPage'
  BY CallTypes DEF CopyIn, TypeInv, TypeOK, OnItsPage, LocksHeld
<1> QED
  BY <1>1, <1>2, <1>3, <1>4 DEF TypeInv

LEMMA MarkDirtyKeeps == ASSUME TypeInv, NEW t \in Threads, MarkDirty(t) PROVE TypeInv'
<1>a. pc[t] \in {"copy", "mark"} /\ Proceed(t)
  BY DEF MarkDirty
<1>b. fatLock' \in Threads \cup {NoThread} /\ pc' \in [Threads -> Stages]
  BY <1>a, ProceedCases DEF TypeInv, TypeOK, Stages
<1>c. call' \in [Threads -> Calls]
  BY <1>a, ProceedCases, CallTypes DEF TypeInv, TypeOK
<1>1. TypeOK'
  BY <1>b, <1>c, CallTypes DEF MarkDirty, TypeInv, TypeOK, Stages
<1>2. LocksHeld'
  BY ProceedCases, <1>a, NorCacheAssumption, CallTypes DEF MarkDirty, TypeInv, TypeOK, LocksHeld, Stages
<1>3. FlushInRange'
  BY CallTypes DEF MarkDirty, TypeInv, TypeOK, FlushInRange
<1>4. OnItsPage'
  BY ProceedCases, <1>a, CallTypes DEF MarkDirty, TypeInv, TypeOK, OnItsPage, LocksHeld
<1> QED
  BY <1>1, <1>2, <1>3, <1>4 DEF TypeInv

LEMMA FlushEnterKeeps == ASSUME TypeInv, NEW t \in Threads, FlushEnter(t) PROVE TypeInv'
<1>1. TypeOK'
  BY NorCacheAssumption, CallTypes DEF FlushEnter, NoFlush, TypeInv, TypeOK, Stages
<1>2. LocksHeld'
  BY NorCacheAssumption, CallTypes DEF FlushEnter, NoFlush, TypeInv, TypeOK, LocksHeld, Stages
<1>3. FlushInRange'
  BY NorCacheAssumption, CallTypes DEF FlushEnter, NoFlush, TypeInv, TypeOK, FlushInRange
<1>4. OnItsPage'
  BY NorCacheAssumption, CallTypes DEF FlushEnter, NoFlush, TypeInv, TypeOK, OnItsPage, LocksHeld
<1> QED
  BY <1>1, <1>2, <1>3, <1>4 DEF TypeInv

LEMMA FlushPickKeeps == ASSUME TypeInv, NEW t \in Threads, FlushPick(t) PROVE TypeInv'
<1>a. flush' \in [iter : 0 .. NumPages, page : Pages \cup {0}, stage : {"scan", "write", "written"}]
  BY DEF FlushPick, DirtyPages, TypeInv, TypeOK
<1>1. TypeOK'
  BY <1>a, CallTypes DEF FlushPick, DirtyPages, TypeInv, TypeOK, Stages
<1>2. LocksHeld'
  BY CallTypes DEF FlushPick, DirtyPages, TypeInv, TypeOK, LocksHeld, Stages
<1>3. FlushInRange'
  BY CallTypes DEF FlushPick, DirtyPages, TypeInv, TypeOK, FlushInRange
<1>4. OnItsPage'
  BY CallTypes DEF FlushPick, DirtyPages, TypeInv, TypeOK, OnItsPage, LocksHeld
<1> QED
  BY <1>1, <1>2, <1>3, <1>4 DEF TypeInv

LEMMA FlushWriteKeeps == ASSUME TypeInv, NEW t \in Threads, FlushWrite(t) PROVE TypeInv'
<1>a. disc' \in [Sectors -> Content]
  BY DEF FlushWrite, TypeInv, TypeOK, FlushInRange, Programmed, Holds
<1>1. TypeOK'
  BY <1>a, CallTypes DEF FlushWrite, TypeInv, TypeOK, Stages
<1>2. LocksHeld'
  BY CallTypes DEF FlushWrite, TypeInv, TypeOK, LocksHeld, Stages
<1>3. FlushInRange'
  BY CallTypes DEF FlushWrite, TypeInv, TypeOK, FlushInRange
<1>4. OnItsPage'
  BY CallTypes DEF FlushWrite, TypeInv, TypeOK, OnItsPage, LocksHeld
<1> QED
  BY <1>1, <1>2, <1>3, <1>4 DEF TypeInv

LEMMA FlushClearKeeps == ASSUME TypeInv, NEW t \in Threads, FlushClear(t) PROVE TypeInv'
<1>a. flush.iter + 1 \in 0 .. NumPages
  BY NorCacheAssumption DEF FlushClear, TypeInv, TypeOK, FlushInRange
<1>b. flush' \in [iter : 0 .. NumPages, page : Pages \cup {0}, stage : {"scan", "write", "written"}]
  BY <1>a DEF FlushClear, TypeInv, TypeOK
<1>c. dirty' \in [Pages -> BOOLEAN]
  BY DEF FlushClear, TypeInv, TypeOK
<1>1. TypeOK'
  BY <1>b, <1>c, CallTypes DEF FlushClear, TypeInv, TypeOK, Stages
<1>2. LocksHeld'
  BY CallTypes DEF FlushClear, TypeInv, TypeOK, LocksHeld, Stages
<1>3. FlushInRange'
  BY CallTypes DEF FlushClear, TypeInv, TypeOK, FlushInRange
<1>4. OnItsPage'
  BY CallTypes DEF FlushClear, TypeInv, TypeOK, OnItsPage, LocksHeld
<1> QED
  BY <1>1, <1>2, <1>3, <1>4 DEF TypeInv

LEMMA FlushFailKeeps == ASSUME TypeInv, NEW t \in Threads, FlushFail(t) PROVE TypeInv'
<1>a. pc[t] = "flush" /\ FlushReturn(t)
  BY DEF FlushFail
<1>b. disc' \in [Sectors -> Content]
  BY DEF FlushFail, TypeInv, TypeOK, FlushInRange, Interrupted, Content
<1>c. mutex' = NoThread /\ flush' = NoFlush
  BY <1>a DEF FlushReturn
<1>f. pc' \in [Threads -> Stages]
  <2>1. pc \in [Threads -> Stages] /\ pc' \in {[pc EXCEPT ![t] = "idle"], [pc EXCEPT ![t] = "load"]}
    BY <1>a DEF FlushReturn, TypeInv, TypeOK
  <2> QED
    BY <2>1 DEF Stages
<1>e. call' \in [Threads -> Calls]
  <2>1. call \in [Threads -> Calls] /\ call' \in {[call EXCEPT ![t] = None], call}
    BY <1>a DEF FlushReturn, TypeInv, TypeOK
  <2> QED
    BY <2>1, CallTypes
<1>d. NoFlush \in [iter : 0 .. NumPages, page : Pages \cup {0}, stage : {"scan", "write", "written"}]
  BY NorCacheAssumption DEF NoFlush
<1>1. TypeOK'
  <2>1. UNCHANGED <<base, buf, dirty, older, fatLock, page, crashes>>
    BY DEF FlushFail
  <2>2. mutex' \in Threads \cup {NoThread}
    BY <1>c
  <2>3. flush' \in [iter : 0 .. NumPages, page : Pages \cup {0}, stage : {"scan", "write", "written"}]
    BY <1>c, <1>d
  <2> QED
    BY <1>b, <1>e, <1>f, <2>1, <2>2, <2>3 DEF TypeInv, TypeOK
<1>2. LocksHeld'
  BY <1>a, FlushReturnLocks, CallTypes DEF FlushFail, NoFlush, TypeInv, TypeOK, LocksHeld, Stages
<1>3. FlushInRange'
  BY <1>c, CallTypes DEF FlushFail, NoFlush, TypeInv, TypeOK, FlushInRange
<1>4. OnItsPage'
  BY <1>a, FlushReturnLocks, CallTypes DEF FlushFail, NoFlush, TypeInv, TypeOK, OnItsPage, LocksHeld
<1> QED
  BY <1>1, <1>2, <1>3, <1>4 DEF TypeInv

LEMMA FlushEndKeeps == ASSUME TypeInv, NEW t \in Threads, FlushEnd(t) PROVE TypeInv'
<1>a. pc[t] = "flush" /\ FlushReturn(t)
  BY DEF FlushEnd
<1>b. disc' \in [Sectors -> Content]
  BY DEF FlushEnd, TypeInv, TypeOK, FlushInRange, Interrupted, Content
<1>c. mutex' = NoThread /\ flush' = NoFlush
  BY <1>a DEF FlushReturn
<1>f. pc' \in [Threads -> Stages]
  <2>1. pc \in [Threads -> Stages] /\ pc' \in {[pc EXCEPT ![t] = "idle"], [pc EXCEPT ![t] = "load"]}
    BY <1>a DEF FlushReturn, TypeInv, TypeOK
  <2> QED
    BY <2>1 DEF Stages
<1>e. call' \in [Threads -> Calls]
  <2>1. call \in [Threads -> Calls] /\ call' \in {[call EXCEPT ![t] = None], call}
    BY <1>a DEF FlushReturn, TypeInv, TypeOK
  <2> QED
    BY <2>1, CallTypes
<1>d. NoFlush \in [iter : 0 .. NumPages, page : Pages \cup {0}, stage : {"scan", "write", "written"}]
  BY NorCacheAssumption DEF NoFlush
<1>1. TypeOK'
  <2>1. UNCHANGED <<base, buf, dirty, older, fatLock, page, crashes>>
    BY DEF FlushEnd
  <2>2. mutex' \in Threads \cup {NoThread}
    BY <1>c
  <2>3. flush' \in [iter : 0 .. NumPages, page : Pages \cup {0}, stage : {"scan", "write", "written"}]
    BY <1>c, <1>d
  <2> QED
    BY <1>b, <1>e, <1>f, <2>1, <2>2, <2>3 DEF TypeInv, TypeOK
<1>2. LocksHeld'
  BY <1>a, FlushReturnLocks, CallTypes DEF FlushEnd, NoFlush, TypeInv, TypeOK, LocksHeld, Stages
<1>3. FlushInRange'
  BY <1>c, CallTypes DEF FlushEnd, NoFlush, TypeInv, TypeOK, FlushInRange
<1>4. OnItsPage'
  BY <1>a, FlushReturnLocks, CallTypes DEF FlushEnd, NoFlush, TypeInv, TypeOK, OnItsPage, LocksHeld
<1> QED
  BY <1>1, <1>2, <1>3, <1>4 DEF TypeInv

LEMMA CrashKeeps == ASSUME TypeInv, Crash PROVE TypeInv'
<1>1. disc' \in [Sectors -> Content]
  BY DEF Crash, TypeInv, TypeOK, FlushInRange, Programmed, Interrupted, Holds, Content
<1>2. \A p \in Pages : buf'[p] \in [Cover(base'[p]) -> Content]
  BY FreeCoversNothing DEF Crash, NoBuffer
<1>4. NoFlush \in [iter : 0 .. NumPages, page : Pages \cup {0}, stage : {"scan", "write", "written"}]
  BY NorCacheAssumption DEF NoFlush
<1>5. page' \in [Threads -> Pages] /\ crashes' \in 0 .. MaxCrashes
  BY NorCacheAssumption DEF Crash, TypeInv, TypeOK, Pages
<1>3. TypeOK'
  BY <1>1, <1>2, <1>4, <1>5, CallTypes DEF Crash, TypeOK, Stages
<1> QED
  BY <1>3, CallTypes DEF Crash, TypeInv, LocksHeld, FlushInRange, OnItsPage, NoFlush

LEMMA TypeInvNext == TypeInv /\ [Next]_vars => TypeInv'
<1> SUFFICES ASSUME TypeInv, [Next]_vars PROVE TypeInv'
  OBVIOUS
<1>1. CASE UNCHANGED vars
  BY <1>1 DEF vars, TypeInv, TypeOK, LocksHeld, FlushInRange, OnItsPage
<1>2. CASE Crash
  BY <1>2, CrashKeeps
<1>3. ASSUME NEW t \in Threads, Begin(t) PROVE TypeInv'
  BY <1>3, TransferKeeps, FlushKeeps DEF Begin
<1>4. ASSUME NEW t \in Threads, Continue(t) PROVE TypeInv'
  BY <1>4, HitKeeps, MissKeeps, LoadKeeps, LoadFailKeeps, CopyOutKeeps, CopyInKeeps, MarkDirtyKeeps,
     FlushEnterKeeps, FlushPickKeeps, FlushWriteKeeps, FlushClearKeeps, FlushFailKeeps, FlushEndKeeps
     DEF Continue
<1> QED
  BY <1>1, <1>2, <1>3, <1>4 DEF Next

(* Every variable keeps its type, whatever the number of threads and with  *)
(* failing transfers and power losses.                                     *)
THEOREM TypeCorrect == Spec => []TypeOK
<1>1. TypeInv => TypeOK
  BY DEF TypeInv
<1>2. Init => TypeInv
  BY TypeInvInit
<1>3. TypeInv /\ [Next]_vars => TypeInv'
  BY TypeInvNext
<1> QED
  BY <1>1, <1>2, <1>3, PTL DEF Spec

LEMMA TypeInvAlways == Spec => []TypeInv
<1>1. Init => TypeInv
  BY TypeInvInit
<1>2. TypeInv /\ [Next]_vars => TypeInv'
  BY TypeInvNext
<1> QED
  BY <1>1, <1>2, PTL DEF Spec

-------------------------------------------------------------------------------
(* No sector twice in the cache.  The proof needs that the file system     *)
(* leaves the last sector alone, the one the cache cannot hold.            *)
LastSectorUnused == EndOfPartition \notin UsedSectors

(* Two pages never start at the same sector; and the thread that is about  *)
(* to load a page has found it missing, and nobody else loads pages.       *)
Replacing(t) ==
  \/ pc[t] = "load"
  \/ pc[t] \in {"enter", "flush"} /\ call[t] \in Transfers

DistinctPages ==
  /\ \A p, q \in Pages : p # q /\ base[p] = base[q] => base[p] = Free
  /\ \A t \in Threads : call[t] \in Transfers => call[t].from <= call[t].to /\ call[t].to < EndOfPartition
  /\ \A t \in Threads : Replacing(t) =>
       /\ call[t].from \in Cover(BaseOf(call[t].from))
       /\ \A p \in Pages : base[p] # BaseOf(call[t].from)

LEMMA DistinctPagesInit == Init => DistinctPages
  BY CallTypes DEF Init, DistinctPages, Replacing

(* Below the end of the partition, every sector has a page to be in.       *)
LEMMA InItsPage ==
  ASSUME TypeInv, DistinctPages, NEW t \in Threads, call[t] \in Transfers
  PROVE  call[t].from \in Cover(BaseOf(call[t].from))
<1>1. call[t].from \in Sectors /\ call[t].to \in Sectors
  BY DEF Transfers
<1> QED
  BY <1>1, NorCacheAssumption DEF DistinctPages, Sectors, EndOfPartition, Cover

LEMMA DistinctPagesNext ==
  ASSUME LastSectorUnused, TypeInv, DistinctPages, [Next]_vars
  PROVE  DistinctPages'
<1>1. CASE UNCHANGED vars
  BY <1>1 DEF vars, DistinctPages, Replacing
<1>2. CASE Crash
  BY <1>2, CallTypes DEF Crash, DistinctPages, Replacing
<1>3. ASSUME NEW t \in Threads, Transfer(t) PROVE DistinctPages'
  <2>1. PICK c \in Transfers : /\ c.to - c.from \in 0 .. MaxTransfer - 1
                               /\ c.from .. c.to \subseteq UsedSectors
                               /\ call' = [call EXCEPT ![t] = c]
    BY <1>3 DEF Transfer
  <2>2. c.from \in Sectors /\ c.to \in Sectors
    BY DEF Transfers
  <2>3. c.from <= c.to /\ c.to < EndOfPartition
    BY <2>1, <2>2, NorCacheAssumption DEF LastSectorUnused, Sectors, EndOfPartition
  <2> QED
    BY <1>3, <2>1, <2>3 DEF Transfer, DistinctPages, Replacing, TypeInv, TypeOK
<1>4. ASSUME NEW t \in Threads, Flush(t) PROVE DistinctPages'
  BY <1>4, CallTypes DEF Flush, DistinctPages, Replacing, TypeInv, TypeOK
<1>5. ASSUME NEW t \in Threads, Miss(t) PROVE DistinctPages'
  <2>1. call[t] \in Transfers
    BY <1>5 DEF Miss, TypeInv, LocksHeld
  <2>2. call[t].from \in Cover(BaseOf(call[t].from))
    BY <2>1, InItsPage
  <2>3. \A p \in Pages : base[p] # BaseOf(call[t].from)
    BY <1>5, <2>2 DEF Miss, Holds, TypeInv, TypeOK
  <2> QED
    BY <1>5, <2>2, <2>3 DEF Miss, DistinctPages, Replacing, TypeInv, TypeOK
<1>6. ASSUME NEW t \in Threads, Load(t) PROVE DistinctPages'
  <2>1. \A u \in Threads : Replacing(u)' => u # t /\ Replacing(u)
    BY <1>6 DEF Load, Replacing, TypeInv, TypeOK
  <2>2. \A u \in Threads : Replacing(u) /\ Replacing(t) => u = t
    BY DEF Replacing, TypeInv, LocksHeld
  <2>3. pc[t] = "load" /\ Replacing(t)
    <3>1. pc[t] = "load"
      BY <1>6 DEF Load
    <3> QED
      BY <3>1 DEF Replacing
  <2>4. \A u \in Threads : ~ Replacing(u)'
    BY <2>1, <2>2, <2>3
  <2>5. \A p, q \in Pages : p # q /\ base'[p] = base'[q] => base'[p] = Free
    BY <1>6, <2>3 DEF Load, DistinctPages, TypeInv, TypeOK
  <2> QED
    BY <1>6, <2>4, <2>5 DEF Load, DistinctPages
<1>7. ASSUME NEW t \in Threads, pc[t] \in {"copy", "mark"}, Proceed(t), UNCHANGED base
      PROVE  DistinctPages'
  <2>1. \A u \in Threads \ {t} : pc'[u] = pc[u] /\ call'[u] = call[u]
    BY <1>7, ProceedCases DEF TypeInv, TypeOK
  <2>2. pc'[t] \in {"idle", "lookup"}
    BY <1>7, ProceedCases DEF TypeInv, TypeOK
  <2>3. \/ call'[t] = None
        \/ call'[t].from <= call'[t].to /\ call'[t].to < EndOfPartition
    <3>1. call[t] \in Transfers
      BY <1>7 DEF TypeInv, LocksHeld
    <3>2. call[t].to \in Int /\ call[t].from \in Sectors /\ call[t].to < EndOfPartition
      BY <3>1, NorCacheAssumption DEF Transfers, Sectors, DistinctPages
    <3>3. PageEnd(base[page[t]]) \in Int
      BY <1>7, <3>2, SectorBelowPageEnd DEF TypeInv, OnItsPage, Cover
    <3>4. CASE call[t].to < PageEnd(base[page[t]])
      <4>1. call' = [call EXCEPT ![t] = None]
        BY <1>7, <3>4 DEF Proceed
      <4>2. call'[t] = None
        BY <4>1 DEF TypeInv, TypeOK
      <4> QED
        BY <4>2
    <3>5. CASE ~ (call[t].to < PageEnd(base[page[t]]))
      <4>1. call'[t] = [call[t] EXCEPT !.from = PageEnd(base[page[t]])]
        BY <1>7, <3>5 DEF Proceed, TypeInv, TypeOK
      <4>2. call'[t].from = PageEnd(base[page[t]]) /\ call'[t].to = call[t].to
        BY <3>1, <4>1 DEF Transfers
      <4> QED
        BY <3>2, <3>3, <3>5, <4>2
    <3> QED
      BY <3>4, <3>5
  <2> QED
    BY <1>7, <2>1, <2>2, <2>3, CallTypes DEF DistinctPages, Replacing
<1>8. ASSUME NEW t \in Threads, pc[t] = "flush", FlushReturn(t), UNCHANGED base
      PROVE  DistinctPages'
  <2>1. \A u \in Threads \ {t} : pc'[u] = pc[u] /\ call'[u] = call[u]
    BY <1>8 DEF FlushReturn, TypeInv, TypeOK
  <2>2. \/ pc'[t] = "idle" /\ call'[t] = None
        \/ pc'[t] = "load" /\ call'[t] = call[t] /\ Replacing(t)
    BY <1>8 DEF FlushReturn, TypeInv, TypeOK, LocksHeld, Replacing, Calls, FlushCall
  <2> QED
    BY <1>8, <2>1, <2>2, CallTypes DEF DistinctPages, Replacing
<1>9. ASSUME NEW t \in Threads, LoadFail(t) PROVE DistinctPages'
  BY <1>9, CallTypes DEF LoadFail, DistinctPages, Replacing, TypeInv, TypeOK
<1>10. ASSUME NEW t \in Threads, Hit(t) \/ CopyIn(t) \/ FlushEnter(t) PROVE DistinctPages'
  BY <1>10 DEF Hit, CopyIn, FlushEnter, DistinctPages, Replacing, TypeInv, TypeOK
<1>11. ASSUME NEW t \in Threads, FlushPick(t) \/ FlushWrite(t) \/ FlushClear(t) PROVE DistinctPages'
  BY <1>11 DEF FlushPick, FlushWrite, FlushClear, DistinctPages, Replacing
<1>12. ASSUME NEW t \in Threads, CopyOut(t) \/ MarkDirty(t) PROVE DistinctPages'
  BY <1>7, <1>12 DEF CopyOut, MarkDirty
<1>13. ASSUME NEW t \in Threads, FlushFail(t) \/ FlushEnd(t) PROVE DistinctPages'
  BY <1>8, <1>13 DEF FlushFail, FlushEnd
<1> QED
  BY <1>1, <1>2, <1>3, <1>4, <1>5, <1>6, <1>9, <1>10, <1>11, <1>12, <1>13 DEF Next, Begin, Continue

(* If the last sector is left alone, no two pages of the cache hold the    *)
(* same sector, for any number of threads that use the drive.              *)
THEOREM NoSectorTwice ==
  ASSUME LastSectorUnused
  PROVE  Spec => []NoAliasing
<1>1. Init => DistinctPages
  BY DistinctPagesInit
<1>2. TypeInv /\ DistinctPages /\ [Next]_vars => DistinctPages'
  BY DistinctPagesNext
<1>3. TypeInv /\ DistinctPages => NoAliasing
  BY FreeCoversNothing DEF TypeInv, TypeOK, DistinctPages, NoAliasing, Cover
<1> QED
  BY <1>1, <1>2, <1>3, TypeInvAlways, PTL DEF Spec

-------------------------------------------------------------------------------
(* Clean pages match the flash, when a single thread drives the cache and  *)
(* the flash works.  It needs NoAliasing: programming one page must not    *)
(* change the sectors another one holds.                                   *)
SingleThread == \A t, u \in Threads : t = u

Match(p) == \A s \in DOMAIN buf[p] : buf[p][s] = disc[s]

CleanInv ==
  /\ CleanPagesMatchDisc
  /\ flush.stage # "scan" => \A t \in Threads : pc[t] = "flush"
  /\ flush.stage = "written" => Match(flush.page)

LEMMA CleanInvInit == Init => CleanInv
  BY DEF Init, CleanInv, CleanPagesMatchDisc, NoBuffer, NoFlush

LEMMA CleanInvNext ==
  ASSUME SingleThread, ~ Faults, TypeInv, NoAliasing, CleanInv, [Next]_vars
  PROVE  CleanInv'
<1>1. CASE UNCHANGED vars
  BY <1>1 DEF vars, CleanInv, CleanPagesMatchDisc, Filling, Match
<1>2. CASE Crash
  BY <1>2 DEF Crash, CleanInv, CleanPagesMatchDisc, NoBuffer, NoFlush
(* Steps that touch neither the pages nor the flash, outside the flush.    *)
<1>3. ASSUME NEW t \in Threads, pc[t] # "flush", pc[t] # "mark", pc'[t] # "mark",
             UNCHANGED <<disc, buf, dirty, flush>>,
             \E v \in Stages : pc' = [pc EXCEPT ![t] = v]
      PROVE  CleanInv'
  <2>1. flush.stage = "scan"
    BY <1>3 DEF CleanInv
  <2>2. \A p \in Pages : ~ Filling(p)
    BY <1>3 DEF Filling, SingleThread
  <2> QED
    BY <1>3, <2>1, <2>2 DEF CleanInv, CleanPagesMatchDisc
<1>4. ASSUME NEW t \in Threads, Transfer(t) \/ Flush(t) \/ Hit(t) \/ Miss(t) \/ CopyOut(t)
      PROVE  CleanInv'
  <2>1. pc[t] \in {"idle", "lookup", "copy"} /\ UNCHANGED <<disc, buf, dirty, flush>>
    BY <1>4 DEF Transfer, Flush, Hit, Miss, CopyOut
  <2>2. \E v \in Stages \ {"mark"} : pc' = [pc EXCEPT ![t] = v]
    BY <1>4, ProceedCases DEF Transfer, Flush, Hit, Miss, CopyOut, Stages
  <2>3. pc'[t] # "mark"
    BY <2>2 DEF TypeInv, TypeOK
  <2> QED
    BY <1>3, <2>1, <2>2, <2>3
<1>5. ASSUME NEW t \in Threads, FlushEnter(t) PROVE CleanInv'
  BY <1>5 DEF FlushEnter, NoFlush, CleanInv, CleanPagesMatchDisc, Filling, SingleThread, TypeInv, TypeOK
<1>6. ASSUME NEW t \in Threads, Load(t) PROVE CleanInv'
  <2>1. flush.stage = "scan" /\ flush' = flush
    BY <1>6 DEF Load, CleanInv
  <2>2. \A p \in Pages : ~ Filling(p)
    BY <1>6 DEF Load, Filling, SingleThread
  <2>3. \A p \in Pages : ~ dirty[p] => Match(p)'
    BY <1>6, <2>2 DEF Load, CleanInv, CleanPagesMatchDisc, Match, TypeInv, TypeOK
  <2> QED
    BY <1>6, <2>1, <2>3 DEF Load, CleanInv, CleanPagesMatchDisc, Match
<1>7. ASSUME NEW t \in Threads, CopyIn(t) PROVE CleanInv'
  <2>1. flush.stage = "scan" /\ flush' = flush
    BY <1>7 DEF CopyIn, CleanInv
  <2>2. Filling(page[t])' /\ \A p \in Pages : ~ Filling(p)
    BY <1>7 DEF CopyIn, Filling, SingleThread, TypeInv, TypeOK
  <2>3. \A p \in Pages \ {page[t]} : buf'[p] = buf[p]
    BY <1>7 DEF CopyIn, TypeInv, TypeOK
  <2> QED
    BY <1>7, <2>1, <2>2, <2>3 DEF CopyIn, CleanInv, CleanPagesMatchDisc
<1>8. ASSUME NEW t \in Threads, MarkDirty(t) PROVE CleanInv'
  <2>1. flush.stage = "scan" /\ flush' = flush
    BY <1>8 DEF MarkDirty, CleanInv
  <2>2. dirty'[page[t]] /\ \A p \in Pages \ {page[t]} : dirty'[p] = dirty[p] /\ ~ Filling(p)
    BY <1>8 DEF MarkDirty, Filling, SingleThread, TypeInv, TypeOK
  <2> QED
    BY <1>8, <2>1, <2>2 DEF MarkDirty, CleanInv, CleanPagesMatchDisc
<1>9. ASSUME NEW t \in Threads, FlushPick(t) PROVE CleanInv'
  BY <1>9 DEF FlushPick, CleanInv, CleanPagesMatchDisc, Filling, SingleThread, TypeInv, TypeOK
<1>10. ASSUME NEW t \in Threads, FlushWrite(t) PROVE CleanInv'
  <2>1. flush.page \in Pages
    BY <1>10 DEF FlushWrite, TypeInv, FlushInRange
  <2>2. \A p \in Pages \ {flush.page} : \A s \in DOMAIN buf[p] : s \in Sectors /\ disc'[s] = disc[s]
    <3>1. ASSUME NEW p \in Pages \ {flush.page}, NEW s \in DOMAIN buf[p]
          PROVE  s \in Sectors /\ s \notin DOMAIN buf[flush.page]
      <4>1. s \in Cover(base[p])
        BY DEF TypeInv, TypeOK
      <4>2. s \notin DOMAIN buf[flush.page]
        BY <2>1 DEF NoAliasing
      <4> QED
        BY <4>1, <4>2 DEF Cover
    <3> QED
      BY <1>10, <3>1 DEF FlushWrite, Programmed, Holds
  <2>3. \A s \in DOMAIN buf[flush.page] : disc'[s] = buf[flush.page][s]
    BY <1>10, <2>1 DEF FlushWrite, Programmed, Holds, TypeInv, TypeOK, Cover
  <2>4. \A p \in Pages : ~ Filling(p)
    BY <1>10 DEF FlushWrite, Filling, SingleThread
  <2>5. CleanPagesMatchDisc'
    BY <1>10, <2>2, <2>3, <2>4 DEF FlushWrite, CleanInv, CleanPagesMatchDisc
  <2>6. Match(flush.page)'
    BY <1>10, <2>3 DEF FlushWrite, Match, TypeInv, TypeOK
  <2> QED
    BY <1>10, <2>5, <2>6 DEF FlushWrite, CleanInv, Match, TypeInv, TypeOK
<1>11. ASSUME NEW t \in Threads, FlushClear(t) PROVE CleanInv'
  <2>1. Match(flush.page) /\ flush'.stage = "scan"
    BY <1>11 DEF FlushClear, CleanInv, TypeInv, TypeOK
  <2>2. \A p \in Pages : ~ Filling(p)
    BY <1>11 DEF FlushClear, Filling, SingleThread
  <2> QED
    BY <1>11, <2>1, <2>2 DEF FlushClear, CleanInv, CleanPagesMatchDisc, Match, TypeInv, TypeOK
<1>12. ASSUME NEW t \in Threads, FlushEnd(t) PROVE CleanInv'
  <2>1. \A p \in Pages : ~ Filling(p)
    BY <1>12 DEF FlushEnd, Filling, SingleThread
  <2> QED
    BY <1>12, <2>1 DEF FlushEnd, FlushReturn, NoFlush, CleanInv, CleanPagesMatchDisc
<1>13. ASSUME NEW t \in Threads PROVE ~ LoadFail(t) /\ ~ FlushFail(t)
  BY DEF LoadFail, FlushFail
<1> QED
  BY <1>1, <1>2, <1>4, <1>5, <1>6, <1>7, <1>8, <1>9, <1>10, <1>11, <1>12, <1>13 DEF Next, Begin, Continue

(* One thread, a working flash and an unused last sector: a page whose     *)
(* dirty flag is clear can be dropped without losing data.                 *)
THEOREM CleanPagesCanBeDropped ==
  ASSUME LastSectorUnused, SingleThread, ~ Faults
  PROVE  Spec => []CleanPagesMatchDisc
<1>1. Init => CleanInv
  BY CleanInvInit
<1>2. TypeInv /\ NoAliasing /\ CleanInv /\ [Next]_vars => CleanInv'
  BY CleanInvNext
<1>3. CleanInv => CleanPagesMatchDisc
  BY DEF CleanInv
<1>4. Spec => []NoAliasing
  BY NoSectorTwice
<1> QED
  BY <1>1, <1>2, <1>3, <1>4, TypeInvAlways, PTL DEF Spec

-------------------------------------------------------------------------------
(* Every call gets on: a step of its thread brings it nearer to its last   *)
(* sector, or, at the same sector, to the next stage; and no step of       *)
(* another thread sets it back.                                            *)

SectorsLeft(t) ==
  IF call[t] \in Transfers THEN EndOfPartition - call[t].from
  ELSE IF call[t] = FlushCall THEN 1 ELSE 0

(* The flush loop has three stages in each of its iterations.              *)
StagesLeft(t) ==
  CASE pc[t] = "lookup" -> 3 * NumPages + 6
    [] pc[t] = "enter"  -> 3 * NumPages + 5
    [] pc[t] = "flush"  -> 3 * (NumPages - flush.iter)
                             + (IF flush.stage = "scan" THEN 4 ELSE IF flush.stage = "write" THEN 3 ELSE 2)
    [] pc[t] = "load"   -> 3
    [] pc[t] = "copy"   -> 2
    [] pc[t] = "mark"   -> 1
    [] OTHER -> 0

Advances(t) ==
  \/ SectorsLeft(t)' < SectorsLeft(t)
  \/ SectorsLeft(t)' = SectorsLeft(t) /\ StagesLeft(t)' < StagesLeft(t)

LEMMA LeftBounded ==
  ASSUME TypeInv, DistinctPages, NEW t \in Threads
  PROVE  SectorsLeft(t) \in 0 .. TotalSectors /\ StagesLeft(t) \in 0 .. 3 * NumPages + 6
<1>1. SectorsLeft(t) \in 0 .. TotalSectors
  <2>1. CASE call[t] \in Transfers
    <3>1. call[t].from \in Sectors /\ call[t].to \in Sectors
          /\ call[t].from <= call[t].to /\ call[t].to < EndOfPartition
      BY <2>1 DEF DistinctPages, Transfers
    <3> QED BY <2>1, <3>1, NorCacheAssumption DEF SectorsLeft, Sectors, EndOfPartition
  <2>2. CASE call[t] \notin Transfers
    BY <2>2, NorCacheAssumption DEF SectorsLeft
  <2> QED BY <2>1, <2>2
<1>2. StagesLeft(t) \in 0 .. 3 * NumPages + 6
  <2>1. flush.iter \in 0 .. NumPages BY DEF TypeInv, TypeOK
  <2> QED BY <2>1, NorCacheAssumption DEF StagesLeft
<1> QED BY <1>1, <1>2

LEMMA ProceedAdvances ==
  ASSUME TypeInv, NEW t \in Threads, pc[t] \in {"copy", "mark"}, Proceed(t)
  PROVE  SectorsLeft(t)' < SectorsLeft(t)
<1> DEFINE next == PageEnd(base[page[t]])
<1>1. call[t] \in Transfers /\ call[t].from \in Sectors /\ call[t].from \in Cover(base[page[t]])
  BY DEF TypeInv, LocksHeld, OnItsPage, Transfers
<1>2. /\ next \in Int /\ call[t].from < next
      /\ call[t].from < EndOfPartition /\ call[t].from \in Int /\ EndOfPartition \in Int
  BY <1>1, SectorBelowPageEnd, NorCacheAssumption DEF Cover, Sectors, EndOfPartition
<1>3. SectorsLeft(t) = EndOfPartition - call[t].from BY <1>1 DEF SectorsLeft
<1>4. CASE call[t].to < next
  <2>1. call'[t] = None BY <1>4 DEF Proceed, TypeInv, TypeOK
  <2>2. SectorsLeft(t)' = 0 BY <2>1, CallTypes DEF SectorsLeft
  <2> QED BY <1>2, <1>3, <2>2
<1>5. CASE ~ (call[t].to < next)
  <2>1. call'[t] = [call[t] EXCEPT !.from = next] BY <1>5 DEF Proceed, TypeInv, TypeOK
  <2>2. call'[t].from = next BY <1>1, <2>1 DEF Transfers
  <2>3. call'[t] \in Transfers
    <3>1. pc' = [pc EXCEPT ![t] = "lookup"] BY <1>5 DEF Proceed
    <3>2. pc'[t] = "lookup" BY <3>1 DEF TypeInv, TypeOK
    <3>3. pc' # [pc EXCEPT ![t] = "idle"] BY <3>2 DEF TypeInv, TypeOK
    <3>4. PICK c \in Transfers : call' = [call EXCEPT ![t] = c] BY <3>3, ProceedCases
    <3> QED BY <3>4 DEF TypeInv, TypeOK
  <2>4. SectorsLeft(t)' = EndOfPartition - next BY <2>2, <2>3 DEF SectorsLeft
  <2> QED BY <1>2, <1>3, <2>4
<1> QED BY <1>4, <1>5

LEMMA ReturnAdvances ==
  ASSUME TypeInv, NEW t \in Threads, pc[t] = "flush", FlushReturn(t),
         flush.stage # "written"
  PROVE  Advances(t)
<1>1. call[t] # None /\ call[t] \in Calls BY DEF TypeInv, TypeOK, LocksHeld
<1>2. CASE call[t].op = "flush"
  <2>1. call[t] = FlushCall BY <1>1, <1>2 DEF Calls, None, Transfers
  <2>2. call'[t] = None BY <1>2 DEF FlushReturn, TypeInv, TypeOK
  <2> QED BY <2>1, <2>2, CallTypes DEF Advances, SectorsLeft
<1>3. CASE call[t].op # "flush"
  <2>1. call' = call /\ pc'[t] = "load" BY <1>3 DEF FlushReturn, TypeInv, TypeOK
  <2>2. SectorsLeft(t)' = SectorsLeft(t) BY <2>1 DEF SectorsLeft
  <2>3. flush.iter \in 0 .. NumPages /\ flush.stage \in {"scan", "write", "written"}
        /\ (flush.stage # "scan" => flush.iter < NumPages)
    BY DEF TypeInv, TypeOK, FlushInRange
  <2>4. StagesLeft(t)' = 3 BY <2>1 DEF StagesLeft
  <2>5. StagesLeft(t) > 3 BY <2>3, NorCacheAssumption DEF StagesLeft
  <2> QED BY <2>2, <2>4, <2>5 DEF Advances
<1> QED BY <1>2, <1>3

LEMMA ContinueAdvances ==
  ASSUME TypeInv, DistinctPages, NEW t \in Threads, Continue(t)
  PROVE  Advances(t)
<1>0. NumPages \in Nat \ {0} /\ flush.iter \in 0 .. NumPages BY NorCacheAssumption DEF TypeInv, TypeOK
<1>1. ASSUME call' = call, StagesLeft(t)' < StagesLeft(t) PROVE Advances(t)
  BY <1>1 DEF Advances, SectorsLeft
<1>2. CASE Hit(t)
  <2>1. pc[t] = "lookup" /\ pc'[t] = "copy" /\ call' = call BY <1>2 DEF Hit, TypeInv, TypeOK
  <2> QED BY <1>0, <1>1, <2>1 DEF StagesLeft
<1>3. CASE Miss(t)
  <2>1. pc[t] = "lookup" /\ pc'[t] \in {"enter", "load"} /\ call' = call BY <1>3 DEF Miss, TypeInv, TypeOK
  <2> QED BY <1>0, <1>1, <2>1 DEF StagesLeft
<1>4. CASE Load(t)
  <2>1. call[t] \in Transfers BY <1>4 DEF Load, TypeInv, LocksHeld
  <2>2. pc[t] = "load" /\ pc'[t] = "copy" /\ call' = call
    BY <1>4, <2>1, InItsPage DEF Load, TypeInv, TypeOK
  <2> QED BY <1>0, <1>1, <2>2 DEF StagesLeft
<1>5. CASE LoadFail(t)
  <2>1. call[t] \in Transfers /\ call[t].from \in Sectors BY <1>5 DEF LoadFail, TypeInv, LocksHeld, Transfers
  <2>2. call'[t] = None BY <1>5 DEF LoadFail, TypeInv, TypeOK
  <2>3. call[t].from \in Int /\ call[t].from < EndOfPartition /\ EndOfPartition \in Int
    BY <2>1, InItsPage, NorCacheAssumption DEF Cover, Sectors, EndOfPartition
  <2>4. SectorsLeft(t)' = 0 BY <2>2, CallTypes DEF SectorsLeft
  <2>5. SectorsLeft(t) = EndOfPartition - call[t].from BY <2>1 DEF SectorsLeft
  <2> QED BY <2>3, <2>4, <2>5 DEF Advances
<1>6. CASE CopyOut(t) \/ MarkDirty(t)
  BY <1>6, ProceedAdvances DEF CopyOut, MarkDirty, Advances
<1>7. CASE CopyIn(t)
  <2>1. pc[t] = "copy" /\ pc'[t] = "mark" /\ call' = call BY <1>7 DEF CopyIn, TypeInv, TypeOK
  <2> QED BY <1>0, <1>1, <2>1 DEF StagesLeft
<1>8. CASE FlushEnter(t)
  <2>1. pc[t] = "enter" /\ pc'[t] = "flush" /\ call' = call /\ flush' = NoFlush
    BY <1>8 DEF FlushEnter, TypeInv, TypeOK
  <2> QED BY <1>0, <1>1, <2>1 DEF StagesLeft, NoFlush
<1>9. CASE FlushPick(t)
  <2>1. /\ pc[t] = "flush" /\ pc' = pc /\ call' = call /\ flush.stage = "scan"
        /\ flush'.stage = "write" /\ flush'.iter = flush.iter
    BY <1>9 DEF FlushPick, TypeInv, TypeOK
  <2> QED BY <1>0, <1>1, <2>1 DEF StagesLeft
<1>10. CASE FlushWrite(t)
  <2>1. /\ pc[t] = "flush" /\ pc' = pc /\ call' = call /\ flush.stage = "write"
        /\ flush'.stage = "written" /\ flush'.iter = flush.iter
    BY <1>10 DEF FlushWrite, TypeInv, TypeOK
  <2>2. StagesLeft(t) = 3 * (NumPages - flush.iter) + 3 BY <2>1 DEF StagesLeft
  <2>3. pc'[t] = "flush" BY <2>1
  <2>4. StagesLeft(t)' = 3 * (NumPages - flush.iter) + 2 BY <2>1, <2>3 DEF StagesLeft
  <2>5. StagesLeft(t)' < StagesLeft(t) BY <1>0, <2>2, <2>4
  <2> QED BY <1>1, <2>1, <2>5
<1>11. CASE FlushClear(t)
  <2>1. /\ pc[t] = "flush" /\ pc' = pc /\ call' = call /\ flush.stage = "written"
        /\ flush'.stage = "scan" /\ flush'.iter = flush.iter + 1
    BY <1>11 DEF FlushClear, TypeInv, TypeOK
  <2> QED BY <1>0, <1>1, <2>1 DEF StagesLeft
<1>12. CASE FlushFail(t) \/ FlushEnd(t)
  BY <1>12, ReturnAdvances DEF FlushFail, FlushEnd
<1> QED BY <1>2, <1>3, <1>4, <1>5, <1>6, <1>7, <1>8, <1>9, <1>10, <1>11, <1>12 DEF Continue

(* Only the thread that runs the flush loop changes where the loop is.     *)
LEMMA OthersStay ==
  ASSUME TypeInv, NEW t \in Threads, Begin(t) \/ Continue(t), NEW u \in Threads \ {t}
  PROVE  SectorsLeft(u)' = SectorsLeft(u) /\ StagesLeft(u)' = StagesLeft(u)
<1>1. pc'[u] = pc[u] /\ call'[u] = call[u]
  BY DEF Begin, Continue, Transfer, Flush, Hit, Miss, Load, LoadFail, CopyOut, CopyIn, MarkDirty, Proceed,
         FlushEnter, FlushPick, FlushWrite, FlushClear, FlushFail, FlushEnd, FlushReturn, TypeInv, TypeOK
<1>2. flush' = flush \/ pc[u] # "flush"
  <2>1. ASSUME pc[t] = "flush" PROVE pc[u] # "flush" BY <2>1 DEF TypeInv, LocksHeld
  <2>2. ASSUME mutex = NoThread PROVE pc[u] # "flush"
    BY <2>2, NorCacheAssumption DEF TypeInv, LocksHeld
  <2> QED
    BY <2>1, <2>2 DEF Begin, Continue, Transfer, Flush, Hit, Miss, Load, LoadFail, CopyOut, CopyIn, MarkDirty,
         FlushEnter, FlushPick, FlushWrite, FlushClear, FlushFail, FlushEnd
<1>3. SectorsLeft(u)' = SectorsLeft(u) BY <1>1 DEF SectorsLeft
<1>4. StagesLeft(u)' = StagesLeft(u) BY <1>1, <1>2 DEF StagesLeft
<1> QED BY <1>3, <1>4

(* However the threads interleave and whatever fails, a call is over after *)
(* a bounded number of steps of its own thread, as long as the file system *)
(* leaves the last sector alone (readSectors and writeSectors loop on it). *)
THEOREM CallAdvances ==
  ASSUME LastSectorUnused
  PROVE  Spec =>
           /\ [](\A t \in Threads : /\ SectorsLeft(t) \in 0 .. TotalSectors
                                    /\ StagesLeft(t) \in 0 .. 3 * NumPages + 6)
           /\ [][\A t \in Threads :
                   /\ Continue(t) => Advances(t)
                   /\ Begin(t) \/ Continue(t) =>
                        \A u \in Threads \ {t} : /\ SectorsLeft(u)' = SectorsLeft(u)
                                                 /\ StagesLeft(u)' = StagesLeft(u)]_vars
<1> DEFINE Bounds == \A t \in Threads : /\ SectorsLeft(t) \in 0 .. TotalSectors
                                        /\ StagesLeft(t) \in 0 .. 3 * NumPages + 6
           Steps == \A t \in Threads :
                   /\ Continue(t) => Advances(t)
                   /\ Begin(t) \/ Continue(t) =>
                        \A u \in Threads \ {t} : /\ SectorsLeft(u)' = SectorsLeft(u)
                                                 /\ StagesLeft(u)' = StagesLeft(u)
<1>1. Init => DistinctPages BY DistinctPagesInit
<1>2. TypeInv /\ DistinctPages /\ [Next]_vars => DistinctPages' BY DistinctPagesNext
<1>3. TypeInv /\ DistinctPages => Bounds BY LeftBounded
<1>4. TypeInv /\ DistinctPages => Steps BY ContinueAdvances, OthersStay
<1>5. TypeInv /\ DistinctPages => [Steps]_vars BY <1>4
<1> HIDE DEF Bounds, Steps
<1>6. Spec => []Bounds /\ [][Steps]_vars
  BY <1>1, <1>2, <1>3, <1>5, TypeInvAlways, PTL DEF Spec
<1> QED BY <1>6 DEF Bounds, Steps

================================================================================
