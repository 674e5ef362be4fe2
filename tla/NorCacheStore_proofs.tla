------------------------- MODULE NorCacheStore_proofs -------------------------
(***************************************************************************)
(* NorCache implements WriteBackStore when a single thread drives it, for  *)
(* any number of pages, sectors and values: what its flush leaves clean,   *)
(* what a read returns before and after each step, and the step of the     *)
(* store that each of its steps is.                                        *)
(***************************************************************************)
EXTENDS NorCache_proofs, FiniteSetTheorems

(* A page that is not in use is clean; a thread has a call exactly while   *)
(* it is inside one; and the write that is to mark its page has put its    *)
(* value in every sector of its range that the page has.                   *)
InCall ==
  /\ \A p \in Pages : dirty[p] => base[p] # Free
  /\ \A t \in Threads : pc[t] = "idle" => call[t] = None
  /\ \A t \in Threads : pc[t] = "mark" =>
       /\ call[t].op = "write"
       /\ \A s \in DOMAIN buf[page[t]] :
            s \in call[t].from .. call[t].to => buf[page[t]][s] = call[t].val

(* The flush loop has at least an iteration left for every dirty page, the *)
(* page it works on is dirty, and the page to load is clean.               *)
EnoughIterations ==
  /\ \A t \in Threads : pc[t] = "flush" => Cardinality(DirtyPages) <= NumPages - flush.iter
  /\ flush.stage # "scan" => flush.page \in DirtyPages
  /\ \A t \in Threads : pc[t] = "load" => ~ dirty[page[t]]

StoreInv == TypeInv /\ DistinctPages /\ NoAliasing /\ CleanInv /\ InCall /\ EnoughIterations

-------------------------------------------------------------------------------
LEMMA InCallInit == Init => InCall
  BY DEF Init, InCall

LEMMA InCallNext ==
  ASSUME SingleThread, ~ Faults, TypeInv, InCall, [Next]_vars
  PROVE  InCall'
<1>1. CASE UNCHANGED vars
  BY <1>1 DEF vars, InCall
<1>2. CASE Crash
  BY <1>2 DEF Crash, InCall
(* Steps that leave the pages alone and lead to no mark.                   *)
<1>3. ASSUME NEW t \in Threads, UNCHANGED <<base, dirty>>,
             pc'[t] # "mark", pc'[t] = "idle" => call'[t] = None
      PROVE  InCall'
  BY <1>3 DEF InCall, SingleThread
<1>4. ASSUME NEW t \in Threads, Transfer(t) \/ Flush(t) \/ Hit(t) \/ Miss(t) PROVE InCall'
  BY <1>3, <1>4 DEF Transfer, Flush, Hit, Miss, TypeInv, TypeOK
<1>5. ASSUME NEW t \in Threads, FlushEnter(t) \/ FlushPick(t) \/ FlushWrite(t) PROVE InCall'
  BY <1>3, <1>5 DEF FlushEnter, FlushPick, FlushWrite, TypeInv, TypeOK
<1>6. ASSUME NEW t \in Threads, FlushEnd(t) PROVE InCall'
  BY <1>3, <1>6 DEF FlushEnd, FlushReturn, TypeInv, TypeOK
<1>7. ASSUME NEW t \in Threads, CopyOut(t) PROVE InCall'
  <2>1. pc'[t] \in {"idle", "lookup"} /\ (pc'[t] = "idle" => call'[t] = None)
    BY <1>7, ProceedCases DEF CopyOut, TypeInv, TypeOK
  <2> QED
    BY <1>3, <1>7, <2>1 DEF CopyOut
<1>8. ASSUME NEW t \in Threads, FlushClear(t) PROVE InCall'
  <2>1. pc'[t] = "flush" /\ \A p \in Pages : dirty'[p] => dirty[p]
    BY <1>8 DEF FlushClear, TypeInv, TypeOK
  <2> QED
    BY <1>8, <2>1 DEF FlushClear, InCall, SingleThread
<1>9. ASSUME NEW t \in Threads, Load(t) PROVE InCall'
  <2>1. pc'[t] \in {"copy", "lookup"}
    BY <1>9 DEF Load, TypeInv, TypeOK
  <2>2. call[t].from \in Sectors
    BY <1>9 DEF Load, TypeInv, LocksHeld, Transfers
  <2>3. base'[page[t]] # Free
    BY <1>9, <2>2, BaseIsNat DEF Load, Free, TypeInv, TypeOK
  <2>4. \A p \in Pages : dirty'[p] => base'[p] # Free
    BY <1>9, <2>3 DEF Load, InCall, TypeInv, TypeOK
  <2> QED
    BY <2>1, <2>4 DEF InCall, SingleThread
<1>10. ASSUME NEW t \in Threads, CopyIn(t) PROVE InCall'
  <2>1. pc'[t] = "mark" /\ call'[t].op = "write"
    BY <1>10 DEF CopyIn, TypeInv, TypeOK
  <2>2. \A s \in DOMAIN buf'[page[t]] :
          s \in call[t].from .. call[t].to => buf'[page[t]][s] = call[t].val
    BY <1>10 DEF CopyIn, TypeInv, TypeOK
  <2> QED
    BY <1>10, <2>1, <2>2 DEF CopyIn, InCall, SingleThread
<1>11. ASSUME NEW t \in Threads, MarkDirty(t) PROVE InCall'
  <2>1. pc'[t] \in {"idle", "lookup"} /\ (pc'[t] = "idle" => call'[t] = None)
    BY <1>11, ProceedCases DEF MarkDirty, TypeInv, TypeOK
  <2>2. base[page[t]] # Free
    BY <1>11, FreeCoversNothing DEF MarkDirty, TypeInv, OnItsPage
  <2>3. \A p \in Pages : dirty'[p] => base'[p] # Free
    BY <1>11, <2>2 DEF MarkDirty, InCall, TypeInv, TypeOK
  <2> QED
    BY <2>1, <2>3 DEF InCall, SingleThread
<1>12. ASSUME NEW t \in Threads PROVE ~ LoadFail(t) /\ ~ FlushFail(t)
  BY DEF LoadFail, FlushFail
<1> QED
  BY <1>1, <1>2, <1>4, <1>5, <1>6, <1>7, <1>8, <1>9, <1>10, <1>11, <1>12 DEF Next, Begin, Continue

-------------------------------------------------------------------------------
(* There are no more dirty pages than pages.                               *)
LEMMA DirtyPagesCounted ==
  /\ IsFiniteSet(DirtyPages)
  /\ Cardinality(DirtyPages) \in Nat
  /\ Cardinality(DirtyPages) <= NumPages
<1>1. IsFiniteSet(Pages) /\ Cardinality(Pages) = NumPages
  BY FS_Interval, NorCacheAssumption DEF Pages
<1>2. DirtyPages \in SUBSET Pages
  BY DEF DirtyPages
<1>3. IsFiniteSet(DirtyPages) /\ Cardinality(DirtyPages) <= Cardinality(Pages)
  BY <1>1, <1>2, FS_Subset
<1>4. Cardinality(DirtyPages) \in Nat
  BY <1>3, FS_CardinalityType
<1> QED
  BY <1>1, <1>3, <1>4

(* When the flush loop ends, all pages are clean: it ends early only when  *)
(* there is no dirty page, and late only after as many passes as there     *)
(* are pages.                                                              *)
LEMMA FlushEndsClean ==
  ASSUME TypeInv, EnoughIterations, NEW t \in Threads, FlushEnd(t)
  PROVE  DirtyPages = {}
<1>1. CASE flush.iter = NumPages
  <2>1. Cardinality(DirtyPages) = 0
    BY <1>1, DirtyPagesCounted, NorCacheAssumption DEF FlushEnd, EnoughIterations
  <2> QED
    BY <2>1, DirtyPagesCounted, FS_EmptySet
<1>2. CASE flush.iter # NumPages
  BY <1>2 DEF FlushEnd
<1> QED
  BY <1>1, <1>2

LEMMA EnoughIterationsInit == Init => EnoughIterations
  BY DEF Init, EnoughIterations, NoFlush

LEMMA EnoughIterationsNext ==
  ASSUME SingleThread, ~ Faults, TypeInv, CleanInv, InCall, EnoughIterations, [Next]_vars
  PROVE  EnoughIterations'
<1>1. CASE UNCHANGED vars
  BY <1>1 DEF vars, EnoughIterations, DirtyPages
<1>2. CASE Crash
  BY <1>2 DEF Crash, EnoughIterations, NoFlush
(* Steps of a thread outside the flush that lead neither into it nor to a  *)
(* load.                                                                   *)
<1>3. ASSUME NEW t \in Threads, pc[t] # "flush", flush' = flush,
             pc'[t] \notin {"flush", "load"}
      PROVE  EnoughIterations'
  <2>1. flush.stage = "scan"
    BY <1>3 DEF CleanInv
  <2> QED
    BY <1>3, <2>1 DEF EnoughIterations, SingleThread
<1>4. ASSUME NEW t \in Threads, Transfer(t) \/ Flush(t) \/ Hit(t) PROVE EnoughIterations'
  BY <1>3, <1>4 DEF Transfer, Flush, Hit, TypeInv, TypeOK
<1>5. ASSUME NEW t \in Threads, CopyIn(t) \/ Load(t) PROVE EnoughIterations'
  BY <1>3, <1>5 DEF CopyIn, Load, TypeInv, TypeOK
<1>6. ASSUME NEW t \in Threads, CopyOut(t) \/ MarkDirty(t) PROVE EnoughIterations'
  <2>1. pc'[t] \in {"idle", "lookup"}
    BY <1>6, ProceedCases DEF CopyOut, MarkDirty, TypeInv, TypeOK
  <2> QED
    BY <1>3, <1>6, <2>1 DEF CopyOut, MarkDirty
<1>7. ASSUME NEW t \in Threads, Miss(t) PROVE EnoughIterations'
  <2>1. pc[t] = "lookup" /\ flush' = flush /\ dirty' = dirty
    BY <1>7 DEF Miss
  <2>2. flush.stage = "scan"
    BY <2>1 DEF CleanInv
  <2>3. page'[t] \in Pages /\ pc'[t] \in {"enter", "load"}
        /\ (pc'[t] = "load" => base[page'[t]] = Free \/ ~ dirty[page'[t]])
    BY <1>7 DEF Miss, TypeInv, TypeOK
  <2>4. pc'[t] = "load" => ~ dirty[page'[t]]
    BY <2>3 DEF InCall
  <2> QED
    BY <2>1, <2>2, <2>3, <2>4 DEF EnoughIterations, SingleThread
<1>8. ASSUME NEW t \in Threads, FlushEnter(t) PROVE EnoughIterations'
  <2>1. flush' = NoFlush /\ DirtyPages' = DirtyPages /\ pc'[t] = "flush"
    BY <1>8 DEF FlushEnter, DirtyPages, TypeInv, TypeOK
  <2>2. Cardinality(DirtyPages') <= NumPages - flush'.iter
    BY <2>1, DirtyPagesCounted, NorCacheAssumption DEF NoFlush
  <2> QED
    BY <2>1, <2>2 DEF EnoughIterations, NoFlush, SingleThread
<1>9. ASSUME NEW t \in Threads, FlushPick(t) PROVE EnoughIterations'
  <2>1. /\ DirtyPages' = DirtyPages /\ pc' = pc /\ pc[t] = "flush"
        /\ flush'.iter = flush.iter /\ flush'.page \in DirtyPages
    BY <1>9 DEF FlushPick, DirtyPages, TypeInv, TypeOK
  <2> QED
    BY <2>1 DEF EnoughIterations, SingleThread
<1>10. ASSUME NEW t \in Threads, FlushWrite(t) PROVE EnoughIterations'
  <2>1. /\ DirtyPages' = DirtyPages /\ pc' = pc /\ pc[t] = "flush" /\ flush.stage = "write"
        /\ flush'.iter = flush.iter /\ flush'.page = flush.page
    BY <1>10 DEF FlushWrite, DirtyPages, TypeInv, TypeOK
  <2> QED
    BY <2>1 DEF EnoughIterations, SingleThread
<1>11. ASSUME NEW t \in Threads, FlushClear(t) PROVE EnoughIterations'
  <2>1. /\ pc' = pc /\ pc[t] = "flush" /\ flush.page \in DirtyPages
        /\ flush'.iter = flush.iter + 1 /\ flush'.stage = "scan" /\ flush.iter \in Nat
    BY <1>11 DEF FlushClear, EnoughIterations, TypeInv, TypeOK
  <2>2. DirtyPages' = DirtyPages \ {flush.page}
    BY <1>11, <2>1 DEF FlushClear, DirtyPages, TypeInv, TypeOK
  <2>3. Cardinality(DirtyPages') = Cardinality(DirtyPages) - 1
    BY <2>1, <2>2, DirtyPagesCounted, FS_RemoveElement
  <2>4. Cardinality(DirtyPages) <= NumPages - flush.iter
    BY <2>1 DEF EnoughIterations
  <2>5. Cardinality(DirtyPages') <= NumPages - flush'.iter
    BY <2>1, <2>3, <2>4, DirtyPagesCounted, NorCacheAssumption
  <2> QED
    BY <2>1, <2>5 DEF EnoughIterations, SingleThread
<1>12. ASSUME NEW t \in Threads, FlushEnd(t) PROVE EnoughIterations'
  <2>1. dirty' = dirty /\ flush' = NoFlush /\ page' = page /\ pc'[t] \in {"idle", "load"}
    BY <1>12 DEF FlushEnd, FlushReturn, TypeInv, TypeOK
  <2>2. ~ dirty[page[t]]
    BY <1>12, FlushEndsClean DEF DirtyPages, TypeInv, TypeOK
  <2> QED
    BY <2>1, <2>2 DEF EnoughIterations, NoFlush, SingleThread
<1>13. ASSUME NEW t \in Threads PROVE ~ LoadFail(t) /\ ~ FlushFail(t)
  BY DEF LoadFail, FlushFail
<1> QED
  BY <1>1, <1>2, <1>4, <1>5, <1>6, <1>7, <1>8, <1>9, <1>10, <1>11, <1>12, <1>13
     DEF Next, Begin, Continue

LEMMA StoreInvAlways ==
  ASSUME LastSectorUnused, SingleThread, ~ Faults
  PROVE  Spec => []StoreInv
<1>1. Init => DistinctPages /\ CleanInv /\ InCall /\ EnoughIterations
  BY DistinctPagesInit, CleanInvInit, InCallInit, EnoughIterationsInit
<1>2. TypeInv /\ DistinctPages /\ [Next]_vars => DistinctPages'
  BY DistinctPagesNext
<1>3. TypeInv /\ NoAliasing /\ CleanInv /\ [Next]_vars => CleanInv'
  BY CleanInvNext
<1>4. TypeInv /\ InCall /\ [Next]_vars => InCall'
  BY InCallNext
<1>5. TypeInv /\ CleanInv /\ InCall /\ EnoughIterations /\ [Next]_vars => EnoughIterations'
  BY EnoughIterationsNext
<1>6. Spec => []NoAliasing
  BY NoSectorTwice
<1> QED
  BY <1>1, <1>2, <1>3, <1>4, <1>5, <1>6, TypeInvAlways, PTL DEF Spec, StoreInv

-------------------------------------------------------------------------------
(* What a read returns, of the flash d and the page buffers b.             *)
ViewOf(d, b) ==
  [s \in Sectors |->
    IF \E p \in Pages : s \in DOMAIN b[p]
    THEN b[CHOOSE p \in Pages : s \in DOMAIN b[p] /\ \A q \in 1 .. p - 1 : s \notin DOMAIN b[q]][s]
    ELSE d[s]]

LEMMA ViewIsViewOf == View = ViewOf(disc, buf) /\ View' = ViewOf(disc', buf')
  BY DEF View, ViewOf, Holds

Disjoint(b) == \A p, q \in Pages : p # q => DOMAIN b[p] \cap DOMAIN b[q] = {}

(* While no sector is in two pages, a read returns what the page of the    *)
(* sector has, or what the flash has if no page has the sector.            *)
LEMMA ViewOfHeld ==
  ASSUME NEW d, NEW b, Disjoint(b), NEW p \in Pages, NEW s \in Sectors, s \in DOMAIN b[p]
  PROVE  ViewOf(d, b)[s] = b[p][s]
<1> DEFINE First(q) == s \in DOMAIN b[q] /\ \A r \in 1 .. q - 1 : s \notin DOMAIN b[r]
<1>1. \A q \in Pages : s \in DOMAIN b[q] => q = p
  BY DEF Disjoint
<1>2. First(p)
  <2>1. \A r \in 1 .. p - 1 : r \in Pages /\ r # p
    BY NorCacheAssumption DEF Pages
  <2> QED
    BY <1>1, <2>1
<1> DEFINE c == CHOOSE q \in Pages : First(q)
<1>3. c \in Pages /\ First(c)
  BY <1>2
<1>4. c = p
  BY <1>1, <1>3
<1>5. ViewOf(d, b)[s] = b[c][s]
  BY DEF ViewOf
<1> QED
  BY <1>4, <1>5

LEMMA ViewOfMissing ==
  ASSUME NEW d, NEW b, NEW s \in Sectors, \A p \in Pages : s \notin DOMAIN b[p]
  PROVE  ViewOf(d, b)[s] = d[s]
  BY DEF ViewOf

(* Two flashes with their pages show a reader the same, if they do so      *)
(* sector by sector.                                                       *)
LEMMA ViewOfExtensional ==
  ASSUME NEW d, NEW b, NEW f, f \in [Sectors -> Content],
         \A s \in Sectors : ViewOf(d, b)[s] = f[s]
  PROVE  ViewOf(d, b) = f
<1> DEFINE V == ViewOf(d, b)
<1>1. V = [s \in Sectors |-> V[s]]
  BY DEF ViewOf
<1>2. f = [s \in Sectors |-> f[s]]
  OBVIOUS
<1> QED
  BY <1>1, <1>2

LEMMA ViewType == TypeInv /\ NoAliasing => View \in [Sectors -> Content]
<1> SUFFICES ASSUME TypeInv, NoAliasing PROVE View \in [Sectors -> Content]
  OBVIOUS
<1>1. Disjoint(buf)
  BY DEF NoAliasing, Disjoint
<1>2. ASSUME NEW s \in Sectors PROVE ViewOf(disc, buf)[s] \in Content
  <2>1. CASE \E p \in Pages : s \in DOMAIN buf[p]
    <3>1. PICK p \in Pages : s \in DOMAIN buf[p]
      BY <2>1
    <3>2. ViewOf(disc, buf)[s] = buf[p][s]
      BY <1>1, <3>1, ViewOfHeld
    <3> QED
      BY <3>1, <3>2 DEF TypeInv, TypeOK
  <2>2. CASE \A p \in Pages : s \notin DOMAIN buf[p]
    BY <2>2, ViewOfMissing DEF TypeInv, TypeOK
  <2> QED
    BY <2>1, <2>2
<1> QED
  BY <1>2, ViewIsViewOf DEF ViewOf

(* Clean pages show a reader what the flash has.                           *)
LEMMA AllMatched ==
  ASSUME TypeInv, NoAliasing, \A p \in Pages : Match(p)
  PROVE  View = disc
<1>1. Disjoint(buf)
  BY DEF NoAliasing, Disjoint
<1>2. ASSUME NEW s \in Sectors PROVE ViewOf(disc, buf)[s] = disc[s]
  <2>1. CASE \E p \in Pages : s \in DOMAIN buf[p]
    <3>1. PICK p \in Pages : s \in DOMAIN buf[p]
      BY <2>1
    <3> QED
      BY <1>1, <3>1, ViewOfHeld DEF Match
  <2>2. CASE \A p \in Pages : s \notin DOMAIN buf[p]
    BY <2>2, ViewOfMissing
  <2> QED
    BY <2>1, <2>2
<1>3. disc \in [Sectors -> Content]
  BY DEF TypeInv, TypeOK
<1> QED
  BY <1>2, <1>3, ViewOfExtensional, ViewIsViewOf

-------------------------------------------------------------------------------
(* Replacing a page: what it had is on the flash, and what it gets comes   *)
(* from there.                                                             *)
LEMMA LoadKeepsView ==
  ASSUME SingleThread, StoreInv, StoreInv', NEW t \in Threads, Load(t)
  PROVE  View' = View
<1> DEFINE p == page[t]
<1>1. /\ disc' = disc /\ p \in Pages /\ pc[t] = "load"
      /\ buf' = [buf EXCEPT ![p] = [s \in Cover(BaseOf(call[t].from)) |-> disc[s]]]
      /\ DOMAIN buf = Pages
  BY DEF Load, StoreInv, TypeInv, TypeOK
<1>2. Disjoint(buf) /\ Disjoint(buf')
  BY DEF StoreInv, NoAliasing, Disjoint
<1>3. Match(p) /\ Match(p)'
  <2>1. ~ dirty[p] /\ ~ Filling(p)
    BY <1>1 DEF StoreInv, EnoughIterations, Filling, SingleThread
  <2>2. Match(p)
    BY <1>1, <2>1 DEF StoreInv, CleanInv, CleanPagesMatchDisc, Match
  <2>3. page' = page
    BY DEF Load
  <2>4. Match(p)'
    BY <1>1, <2>3 DEF Match
  <2> QED
    BY <2>2, <2>4
<1>4. p \in Pages
  BY <1>1
<1>5. page' = page
  BY DEF Load
<1>6. ASSUME NEW s \in Sectors PROVE ViewOf(disc', buf')[s] = ViewOf(disc, buf)[s]
  <2>1. CASE \E q \in Pages \ {p} : s \in DOMAIN buf[q]
    <3>1. PICK q \in Pages \ {p} : s \in DOMAIN buf[q]
      BY <2>1
    <3>2. buf'[q] = buf[q]
      BY <1>1, <3>1
    <3> QED
      BY <1>2, <3>1, <3>2, ViewOfHeld
  <2>2. CASE \A q \in Pages \ {p} : s \notin DOMAIN buf[q]
    <3>1. \A q \in Pages \ {p} : s \notin DOMAIN buf'[q]
      BY <1>1, <2>2
    <3>2. ViewOf(disc, buf)[s] = disc[s]
      <4>1. CASE s \in DOMAIN buf[p]
        BY <1>1, <1>2, <1>3, <4>1, ViewOfHeld DEF Match
      <4>2. CASE s \notin DOMAIN buf[p]
        BY <2>2, <4>2, ViewOfMissing
      <4> QED
        BY <4>1, <4>2
    <3>3. ViewOf(disc', buf')[s] = disc'[s]
      <4>1. CASE s \in DOMAIN buf'[p]
        <5>1. ViewOf(disc', buf')[s] = buf'[p][s]
          BY <1>2, <1>4, <4>1, ViewOfHeld
        <5> QED
          BY <1>3, <1>5, <4>1, <5>1 DEF Match
      <4>2. CASE s \notin DOMAIN buf'[p]
        <5>1. \A q \in Pages : s \notin DOMAIN buf'[q]
          BY <3>1, <4>2
        <5> QED
          BY <5>1, ViewOfMissing
      <4> QED
        BY <4>1, <4>2
    <3> QED
      BY <1>1, <3>2, <3>3
  <2> QED
    BY <2>1, <2>2
<1>7. ViewOf(disc, buf) \in [Sectors -> Content]
  BY ViewType, ViewIsViewOf DEF StoreInv
<1> QED
  BY <1>6, <1>7, ViewOfExtensional, ViewIsViewOf

(* "When the sector is swapped out, the data will be written to the disc": *)
(* with one thread and a working flash, replacing a page never changes     *)
(* what a read returns.                                                    *)
THEOREM SwapOutLosesNothing ==
  ASSUME LastSectorUnused, SingleThread, ~ Faults
  PROVE  Spec => SwapOutKeepsData
<1>1. StoreInv /\ StoreInv' /\ [Next]_vars => [\A t \in Threads : Load(t) => View' = View]_vars
  BY LoadKeepsView
<1> QED
  BY <1>1, StoreInvAlways, PTL DEF Spec, SwapOutKeepsData

(* When the flush loop ends, the flash has everything a read returns.      *)
LEMMA FlushEndIsDurable ==
  ASSUME SingleThread, StoreInv, NEW t \in Threads, FlushEnd(t)
  PROVE  View = disc
<1>1. \A p \in Pages : ~ dirty[p]
  BY FlushEndsClean DEF StoreInv, DirtyPages
<1>2. \A p \in Pages : ~ Filling(p)
  BY DEF FlushEnd, Filling, SingleThread
<1>3. \A p \in Pages : Match(p)
  BY <1>1, <1>2 DEF StoreInv, CleanInv, CleanPagesMatchDisc, Match
<1> QED
  BY <1>3, AllMatched DEF StoreInv

(* With one thread and a working flash, a flush call returns only when a   *)
(* power loss could not take anything away.                                *)
THEOREM FlushIsDurable ==
  ASSUME LastSectorUnused, SingleThread, ~ Faults
  PROVE  Spec => FlushMakesDurable
<1>1. StoreInv => \A t \in Threads : FlushEnd(t) /\ call[t].op = "flush" => disc = View
  BY FlushEndIsDurable
<1>2. StoreInv /\ [Next]_vars =>
        [\A t \in Threads : FlushEnd(t) /\ call[t].op = "flush" => disc = View]_vars
  BY <1>1
<1> QED
  BY <1>2, StoreInvAlways, PTL DEF Spec, FlushMakesDurable

-------------------------------------------------------------------------------
(* The refinement.  First the sectors a call moves in one step: those from *)
(* its next sector to the end of its range or of the page.                 *)
LEMMA SameQuotient ==
  ASSUME NEW n \in Nat \ {0}, NEW k \in Nat, NEW s \in Nat, k * n <= s, s < k * n + n
  PROVE  s \div n = k
  OBVIOUS

LEMMA PageRange ==
  ASSUME NEW a \in Sectors, a < EndOfPartition, NEW s \in Int,
         a <= s, s < PageEnd(BaseOf(a))
  PROVE  s \in Sectors /\ s \in Cover(BaseOf(a))
<1> DEFINE k == a \div SectorsPerPage
<1>1. a \in Nat /\ SectorsPerPage \in Nat \ {0} /\ EndOfPartition \in Int /\ TotalSectors \in Nat
  BY NorCacheAssumption DEF Sectors, EndOfPartition
<1>2. k \in Nat /\ k * SectorsPerPage <= a
  BY <1>1
<1>3. BaseOf(a) = k * SectorsPerPage /\ k * SectorsPerPage \in Nat
  BY <1>1, <1>2 DEF BaseOf
<1>4. s < k * SectorsPerPage + SectorsPerPage /\ s < EndOfPartition
  BY <1>1, <1>3 DEF PageEnd
<1>5. s \in Nat /\ k * SectorsPerPage <= s
  BY <1>1, <1>2, <1>3
<1>6. s \div SectorsPerPage = k
  BY <1>1, <1>2, <1>4, <1>5, SameQuotient
<1>7. BaseOf(s) = BaseOf(a)
  BY <1>6 DEF BaseOf
<1>8. s \in Sectors
  BY <1>1, <1>4, <1>5 DEF Sectors, EndOfPartition
<1> QED
  BY <1>4, <1>7, <1>8 DEF Cover

(* The last sector of the call's next step.                                *)
StepEnd(t) ==
  IF call[t].to < PageEnd(base[page[t]]) THEN call[t].to ELSE PageEnd(base[page[t]]) - 1

LEMMA StepRange ==
  ASSUME StoreInv, NEW t \in Threads, pc[t] \in {"copy", "mark"}
  PROVE  /\ call[t] \in Transfers
         /\ StepEnd(t) \in call[t].from .. call[t].to
         /\ \A s \in Sectors : s \in call[t].from .. StepEnd(t) <=>
              s \in DOMAIN buf[page[t]] /\ s \in call[t].from .. call[t].to
         /\ Proceed(t) => call' = [call EXCEPT ![t] =
              IF StepEnd(t) = call[t].to THEN None ELSE [@ EXCEPT !.from = StepEnd(t) + 1]]
<1> DEFINE a == call[t].from
           z == call[t].to
           b == base[page[t]]
           next == PageEnd(b)
<1>1. call[t] \in Transfers
  BY DEF StoreInv, TypeInv, LocksHeld
<1>2. a \in Sectors /\ z \in Sectors /\ a <= z
  BY <1>1 DEF StoreInv, DistinctPages, Transfers
<1>3. a \in Nat /\ z \in Nat
  BY <1>2, NorCacheAssumption DEF Sectors
<1>4. a < EndOfPartition /\ b = BaseOf(a)
  BY DEF StoreInv, TypeInv, OnItsPage, Cover
<1>5. next \in Int /\ a < next
  BY <1>2, <1>4, SectorBelowPageEnd
<1>6. StepEnd(t) \in a .. z
  BY <1>2, <1>3, <1>5 DEF StepEnd
<1>7. DOMAIN buf[page[t]] = Cover(b)
  BY DEF StoreInv, TypeInv, TypeOK
<1>8. ASSUME NEW s \in Sectors
      PROVE  s \in a .. StepEnd(t) <=> s \in Cover(b) /\ s \in a .. z
  <2>1. s \in Nat
    BY NorCacheAssumption DEF Sectors
  <2>2. s \in a .. StepEnd(t) => s < next
    BY <1>3, <1>5, <2>1 DEF StepEnd
  <2>3. s \in a .. StepEnd(t) => s \in a .. z
    BY <1>3, <1>6, <2>1
  <2>4. s \in a .. StepEnd(t) => s \in Cover(b)
    BY <1>2, <1>3, <1>4, <2>1, <2>2, PageRange
  <2>5. s \in Cover(b) => s < next
    <3> SUFFICES ASSUME s \in Cover(b) PROVE s < next
      OBVIOUS
    <3>1. s < EndOfPartition /\ BaseOf(s) = b
      BY DEF Cover
    <3> QED
      BY <3>1, SectorBelowPageEnd
  <2>6. s \in Cover(b) /\ s \in a .. z => s \in a .. StepEnd(t)
    BY <1>3, <1>5, <2>1, <2>5 DEF StepEnd
  <2> QED
    BY <2>3, <2>4, <2>6
<1>9. ASSUME Proceed(t)
      PROVE  call' = [call EXCEPT ![t] =
               IF StepEnd(t) = call[t].to THEN None ELSE [@ EXCEPT !.from = StepEnd(t) + 1]]
  <2>1. CASE z < next
    BY <1>9, <2>1 DEF Proceed, StepEnd
  <2>2. CASE ~ (z < next)
    <3>1. StepEnd(t) # z /\ StepEnd(t) + 1 = next
      BY <1>3, <1>5, <2>2 DEF StepEnd
    <3> QED
      BY <1>9, <2>2, <3>1 DEF Proceed
  <2> QED
    BY <2>1, <2>2
<1> QED
  BY <1>1, <1>6, <1>7, <1>8, <1>9

-------------------------------------------------------------------------------
(* The store's calls are those of the cache.                               *)
LEMMA StoreCalls ==
  /\ Store!None = None /\ Store!Flush = FlushCall /\ Store!Transfers = Transfers
  BY DEF Store!None, Store!Flush, Store!Transfers, None, FlushCall, Transfers

(* Steps that leave the pages and the flash alone show a reader the same.  *)
LEMMA ViewUnchanged == ASSUME UNCHANGED <<disc, buf>> PROVE View' = View
  BY ViewIsViewOf

LEMMA InitRefines == Init => Store!Init
<1> SUFFICES ASSUME Init PROVE Store!Init
  OBVIOUS
<1>1. PICK v \in Values : disc = [s \in Sectors |-> v]
  BY DEF Init
<1>2. View = disc
  BY <1>1 DEF Init, View, Holds, NoBuffer
<1> QED
  BY <1>1, <1>2, StoreCalls DEF Init, Store!Init

(* A call begins.                                                          *)
LEMMA CallRefines ==
  ASSUME StoreInv, NEW t \in Threads, Transfer(t) \/ Flush(t)
  PROVE  Store!Call(t)
<1>1. call[t] = None
  BY DEF Transfer, Flush, StoreInv, InCall
<1>2. \E c \in Transfers \cup {FlushCall} : call' = [call EXCEPT ![t] = c]
  BY DEF Transfer, Flush
<1>3. disc' = disc /\ View' = View
  BY ViewUnchanged DEF Transfer, Flush
<1> QED
  BY <1>1, <1>2, <1>3, StoreCalls DEF Store!Call

(* A write fills its page: what it moves is what a read returns from then. *)
LEMMA CopyInRefines ==
  ASSUME StoreInv, StoreInv', NEW t \in Threads, CopyIn(t)
  PROVE  Store!Put(t)
<1> DEFINE p == page[t]
           z == StepEnd(t)
           New == [s \in Sectors |-> IF s \in call[t].from .. z THEN call[t].val ELSE View[s]]
<1>1. /\ pc[t] = "copy" /\ call[t].op = "write" /\ p \in Pages
      /\ disc' = disc /\ call' = call
      /\ DOMAIN buf = Pages
  BY DEF CopyIn, StoreInv, TypeInv, TypeOK
<1>2. buf' = [buf EXCEPT ![p] =
                [s \in DOMAIN @ |-> IF s \in call[t].from .. call[t].to THEN call[t].val ELSE @[s]]]
  BY DEF CopyIn
<1>3. /\ z \in call[t].from .. call[t].to
      /\ \A s \in Sectors : s \in call[t].from .. z <=>
           s \in DOMAIN buf[p] /\ s \in call[t].from .. call[t].to
  BY <1>1, StepRange
<1>4. Disjoint(buf) /\ Disjoint(buf')
  BY DEF StoreInv, NoAliasing, Disjoint
<1>5. ASSUME NEW s \in Sectors PROVE ViewOf(disc', buf')[s] = New[s]
  <2>1. CASE s \in DOMAIN buf[p]
    <3>1. s \in DOMAIN buf'[p]
      BY <1>1, <1>2, <2>1
    <3>2. ViewOf(disc', buf')[s] = buf'[p][s]
      BY <1>1, <1>4, <3>1, ViewOfHeld
    <3>3. View[s] = buf[p][s]
      BY <1>1, <1>4, <2>1, ViewOfHeld, ViewIsViewOf
    <3>4. buf'[p][s] = IF s \in call[t].from .. call[t].to THEN call[t].val ELSE buf[p][s]
      BY <1>1, <1>2, <2>1
    <3> QED
      BY <1>3, <2>1, <3>2, <3>3, <3>4
  <2>2. CASE s \notin DOMAIN buf[p]
    <3>1. New[s] = View[s]
      BY <1>3, <2>2
    <3>2. CASE \E q \in Pages : s \in DOMAIN buf[q]
      <4>1. PICK q \in Pages : s \in DOMAIN buf[q]
        BY <3>2
      <4>2. buf'[q] = buf[q]
        BY <1>1, <1>2, <2>2, <4>1
      <4>3. ViewOf(disc', buf')[s] = buf'[q][s]
        BY <1>4, <4>1, <4>2, ViewOfHeld
      <4>4. View[s] = buf[q][s]
        BY <1>4, <4>1, ViewOfHeld, ViewIsViewOf
      <4> QED
        BY <3>1, <4>2, <4>3, <4>4
    <3>3. CASE \A q \in Pages : s \notin DOMAIN buf[q]
      <4>1. \A q \in Pages : s \notin DOMAIN buf'[q]
        BY <1>1, <1>2, <3>3
      <4>2. ViewOf(disc', buf')[s] = disc'[s]
        BY <4>1, ViewOfMissing
      <4>3. View[s] = disc[s]
        BY <3>3, ViewOfMissing, ViewIsViewOf
      <4> QED
        BY <1>1, <3>1, <4>2, <4>3
    <3> QED
      BY <3>2, <3>3
  <2> QED
    BY <2>1, <2>2
<1>6. New \in [Sectors -> Content]
  <2>1. call[t].val \in Content
    BY <1>1, StepRange DEF Transfers, Content
  <2>2. View \in [Sectors -> Content]
    BY ViewType DEF StoreInv
  <2> QED
    BY <2>1, <2>2
<1>7. View' = New
  <2> HIDE DEF New
  <2> QED
    BY <1>5, <1>6, ViewOfExtensional, ViewIsViewOf
<1> QED
  BY <1>1, <1>3, <1>7 DEF Store!Put

(* The call goes on behind the sectors it has moved, or returns.           *)
LEMMA ProceedRefines ==
  ASSUME StoreInv, NEW t \in Threads,
         (pc[t] = "copy" /\ call[t].op = "read") \/ pc[t] = "mark",
         Proceed(t), UNCHANGED <<disc, buf>>
  PROVE  Store!Advance(t)
<1>1. disc' = disc /\ View' = View
  BY ViewUnchanged
<1>2. /\ call[t] \in Transfers
      /\ StepEnd(t) \in call[t].from .. call[t].to
      /\ \A s \in Sectors : s \in call[t].from .. StepEnd(t) <=>
           s \in DOMAIN buf[page[t]] /\ s \in call[t].from .. call[t].to
      /\ call' = [call EXCEPT ![t] =
           IF StepEnd(t) = call[t].to THEN None ELSE [@ EXCEPT !.from = StepEnd(t) + 1]]
  BY StepRange
<1>3. call[t].op \in {"read", "write"}
  BY <1>2 DEF Transfers
<1>4. call[t].op = "write" => \A s \in call[t].from .. StepEnd(t) : View[s] = call[t].val
  <2> SUFFICES ASSUME call[t].op = "write", NEW s \in call[t].from .. StepEnd(t)
               PROVE  View[s] = call[t].val
    OBVIOUS
  <2>1. pc[t] = "mark" /\ page[t] \in Pages
    BY DEF StoreInv, TypeInv, TypeOK
  <2>2. s \in Sectors
    <3>1. call[t].from \in Sectors /\ call[t].to \in Sectors
      BY <1>2 DEF Transfers
    <3> QED
      BY <1>2, <3>1, NorCacheAssumption DEF Sectors
  <2>3. s \in DOMAIN buf[page[t]] /\ s \in call[t].from .. call[t].to
    BY <1>2, <2>2
  <2>4. buf[page[t]][s] = call[t].val
    BY <2>1, <2>3 DEF StoreInv, InCall
  <2>5. Disjoint(buf)
    BY DEF StoreInv, NoAliasing, Disjoint
  <2> QED
    BY <2>1, <2>2, <2>3, <2>4, <2>5, ViewOfHeld, ViewIsViewOf
<1> QED
  BY <1>1, <1>2, <1>3, <1>4, StoreCalls DEF Store!Advance

(* The page programmed: its sectors are destaged.                          *)
LEMMA FlushWriteRefines ==
  ASSUME StoreInv, NEW t \in Threads, FlushWrite(t)
  PROVE  Store!Destage
<1> DEFINE p == flush.page
<1>1. /\ p \in Pages /\ disc' = Programmed(p) /\ buf' = buf /\ call' = call
      /\ DOMAIN buf = Pages /\ DOMAIN buf[p] \subseteq Sectors
  BY DEF FlushWrite, StoreInv, TypeInv, FlushInRange, TypeOK, Cover
<1>2. Disjoint(buf)
  BY DEF StoreInv, NoAliasing, Disjoint
<1>3. disc' = [s \in Sectors |-> IF s \in DOMAIN buf[p] THEN View[s] ELSE disc[s]]
  BY <1>1, <1>2, ViewOfHeld, ViewIsViewOf DEF Programmed, Holds
<1>4. ASSUME NEW s \in Sectors PROVE ViewOf(disc', buf')[s] = View[s]
  <2>1. CASE \E q \in Pages : s \in DOMAIN buf[q]
    <3>1. PICK q \in Pages : s \in DOMAIN buf[q]
      BY <2>1
    <3>2. ViewOf(disc', buf)[s] = buf[q][s] /\ View[s] = buf[q][s]
      BY <1>2, <3>1, ViewOfHeld, ViewIsViewOf
    <3> QED
      BY <1>1, <3>2
  <2>2. CASE \A q \in Pages : s \notin DOMAIN buf[q]
    <3>1. ViewOf(disc', buf)[s] = disc'[s] /\ View[s] = disc[s]
      BY <2>2, ViewOfMissing, ViewIsViewOf
    <3>2. disc'[s] = disc[s]
      BY <1>1, <2>2, <1>3
    <3> QED
      BY <1>1, <3>1, <3>2
  <2> QED
    BY <2>1, <2>2
<1>5. View' = View
  BY <1>4, ViewType, ViewOfExtensional, ViewIsViewOf DEF StoreInv
<1> QED
  BY <1>1, <1>3, <1>5 DEF Store!Destage

(* The flush loop is over: a flush call returns, and everything is durable;*)
(* a transfer goes on to load its page, which the store does not see.      *)
LEMMA FlushEndRefines ==
  ASSUME SingleThread, StoreInv, NEW t \in Threads, FlushEnd(t)
  PROVE  Store!FlushDone(t) \/ UNCHANGED Store!vars
<1>1. disc' = disc /\ View' = View
  BY ViewUnchanged DEF FlushEnd
<1>2. disc = View
  BY FlushEndIsDurable
<1>3. CASE call[t].op = "flush"
  <2>1. call[t] = FlushCall
    <3>1. call[t] \in Calls
      BY DEF StoreInv, TypeInv, TypeOK
    <3> QED
      BY <1>3, <3>1 DEF Calls, Transfers, None, FlushCall
  <2>2. call' = [call EXCEPT ![t] = None]
    BY <1>3 DEF FlushEnd, FlushReturn
  <2> QED
    BY <1>1, <1>2, <2>1, <2>2, StoreCalls DEF Store!FlushDone
<1>4. CASE call[t].op # "flush"
  <2>1. call' = call
    BY <1>4 DEF FlushEnd, FlushReturn
  <2> QED
    BY <1>1, <2>1 DEF Store!vars
<1> QED
  BY <1>3, <1>4

(* A power loss: the only sectors of the flash it can change are those of  *)
(* the page being programmed, which are one unit.                          *)
LEMMA CrashRefines == ASSUME StoreInv, Crash PROVE Store!PowerLoss
<1> DEFINE p == flush.page
           u == DOMAIN buf[p]
           Lost(S, torn) ==
             [s \in Sectors |-> IF s \notin S THEN disc[s] ELSE IF torn THEN Torn ELSE View[s]]
<1>1. View' = disc'
  <2>1. \A q \in Pages : buf'[q] = NoBuffer
    BY DEF Crash
  <2>2. \A s \in Sectors : ViewOf(disc', buf')[s] = disc'[s]
    BY <2>1, ViewOfMissing DEF NoBuffer
  <2>3. disc' \in [Sectors -> Content]
    BY CrashKeeps DEF StoreInv, TypeInv, TypeOK
  <2> QED
    BY <2>2, <2>3, ViewOfExtensional, ViewIsViewOf
<1>2. Disjoint(buf)
  BY DEF StoreInv, NoAliasing, Disjoint
<1>3. disc = Lost({}, FALSE)
  BY DEF StoreInv, TypeInv, TypeOK
<1>4. ASSUME flush.stage = "write"
      PROVE  /\ u \in {Cover(b) : b \in Sectors} \cup {{}}
             /\ Programmed(p) = Lost(u, FALSE)
             /\ Interrupted(p) = Lost(u, TRUE)
  <2>1. p \in Pages
    BY <1>4 DEF StoreInv, TypeInv, FlushInRange
  <2>2. u = Cover(base[p]) /\ base[p] \in {BaseOf(s) : s \in Sectors} \cup {Free}
    BY <2>1 DEF StoreInv, TypeInv, TypeOK
  <2>3. ASSUME NEW s \in Sectors PROVE BaseOf(s) \in Sectors
    <3> DEFINE k == s \div SectorsPerPage
    <3>1. s \in Nat /\ SectorsPerPage \in Nat \ {0} /\ TotalSectors \in Nat /\ s < TotalSectors
      BY NorCacheAssumption DEF Sectors
    <3>2. k \in Nat /\ k * SectorsPerPage <= s
      BY <3>1
    <3>3. BaseOf(s) = k * SectorsPerPage /\ BaseOf(s) \in Nat
      BY BaseIsNat DEF BaseOf
    <3> QED
      BY <3>1, <3>2, <3>3 DEF Sectors
  <2>4. u \in {Cover(b) : b \in Sectors} \cup {{}}
    BY <2>2, <2>3, FreeCoversNothing
  <2>5. \A s \in Sectors : s \in u => View[s] = buf[p][s]
    BY <1>2, <2>1, ViewOfHeld, ViewIsViewOf
  <2> QED
    BY <2>4, <2>5 DEF Programmed, Interrupted, Holds
<1>5. \E S \in {Cover(b) : b \in Sectors} \cup {{}}, torn \in BOOLEAN : disc' = Lost(S, torn)
  <2>1. CASE disc' = disc
    <3>1. disc' = Lost({}, FALSE)
      BY <1>3, <2>1
    <3> HIDE DEF Lost
    <3> QED
      BY <3>1
  <2>2. CASE disc' # disc
    <3>1. flush.stage = "write" /\ disc' \in {Programmed(p), Interrupted(p)}
      BY <2>2 DEF Crash
    <3>2. CASE disc' = Programmed(p)
      <4>1. disc' = Lost(u, FALSE) /\ u \in {Cover(b) : b \in Sectors} \cup {{}}
        BY <1>4, <3>1, <3>2
      <4> HIDE DEF u, Lost
      <4> QED
        BY <4>1
    <3>3. CASE disc' = Interrupted(p)
      <4>1. disc' = Lost(u, TRUE) /\ u \in {Cover(b) : b \in Sectors} \cup {{}}
        BY <1>4, <3>1, <3>3
      <4> HIDE DEF u, Lost
      <4> QED
        BY <4>1
    <3> QED
      BY <3>1, <3>2, <3>3
  <2> QED
    BY <2>1, <2>2
<1>6. call' = [t \in Threads |-> Store!None]
  BY StoreCalls DEF Crash
<1> QED
  BY <1>1, <1>5, <1>6 DEF Store!PowerLoss

(* Looking a page up, choosing one and working on the flush are not seen.  *)
LEMMA HiddenSteps ==
  ASSUME NEW t \in Threads, Hit(t) \/ Miss(t) \/ FlushEnter(t) \/ FlushPick(t) \/ FlushClear(t)
  PROVE  UNCHANGED Store!vars
<1>1. UNCHANGED <<disc, buf, call>>
  BY DEF Hit, Miss, FlushEnter, FlushPick, FlushClear
<1> QED
  BY <1>1, ViewUnchanged DEF Store!vars

LEMMA NextRefines ==
  ASSUME SingleThread, ~ Faults, StoreInv, StoreInv', [Next]_vars
  PROVE  [Store!Next]_(Store!vars)
<1>1. CASE UNCHANGED vars
  BY <1>1, ViewUnchanged DEF vars, Store!vars
<1>2. CASE Crash
  BY <1>2, CrashRefines DEF Store!Next
<1>3. ASSUME NEW t \in Threads, Begin(t) PROVE Store!Next
  BY <1>3, CallRefines DEF Begin, Store!Next
<1>4. ASSUME NEW t \in Threads, Continue(t) PROVE [Store!Next]_(Store!vars)
  <2>1. CASE Hit(t) \/ Miss(t) \/ FlushEnter(t) \/ FlushPick(t) \/ FlushClear(t)
    BY <2>1, HiddenSteps
  <2>2. CASE Load(t)
    <3>1. View' = View /\ disc' = disc /\ call' = call
      BY <2>2, LoadKeepsView DEF Load
    <3> QED
      BY <3>1 DEF Store!vars
  <2>3. CASE CopyIn(t)
    BY <2>3, CopyInRefines DEF Store!Next
  <2>4. CASE CopyOut(t) \/ MarkDirty(t)
    <3>1. /\ (pc[t] = "copy" /\ call[t].op = "read") \/ pc[t] = "mark"
          /\ Proceed(t)
          /\ UNCHANGED <<disc, buf>>
      BY <2>4 DEF CopyOut, MarkDirty
    <3> QED
      BY <3>1, ProceedRefines DEF Store!Next
  <2>5. CASE FlushWrite(t)
    BY <2>5, FlushWriteRefines DEF Store!Next
  <2>6. CASE FlushEnd(t)
    BY <2>6, FlushEndRefines DEF Store!Next
  <2>7. ~ LoadFail(t) /\ ~ FlushFail(t)
    BY DEF LoadFail, FlushFail
  <2> QED
    BY <1>4, <2>1, <2>2, <2>3, <2>4, <2>5, <2>6, <2>7 DEF Continue
<1> QED
  BY <1>1, <1>2, <1>3, <1>4 DEF Next

(* The cache is a store: with one thread, a working flash and the last     *)
(* sector unused, reads, writes, flushes and power losses behave as those  *)
(* of one array of which a flush makes everything durable, whatever the    *)
(* number of pages and sectors and the length of the calls.                *)
THEOREM CacheIsAStore ==
  ASSUME LastSectorUnused, SingleThread, ~ Faults
  PROVE  Spec => ImplementsStore
<1>1. Init => Store!Init
  BY InitRefines
<1>2. StoreInv /\ StoreInv' /\ [Next]_vars => [Store!Next]_(Store!vars)
  BY NextRefines
<1> QED
  BY <1>1, <1>2, StoreInvAlways, PTL DEF Spec, ImplementsStore, Store!Spec

===============================================================================
