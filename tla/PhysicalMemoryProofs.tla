------------------------ MODULE PhysicalMemoryProofs -------------------------
(***************************************************************************)
(* The page allocator keeps its books and finds the first fit, for every   *)
(* memory map, page size and kernel size.                                  *)
(*                                                                         *)
(* Accounting and ScanMissesNothing are inductive together with InRange:   *)
(* the usable pages lie between FirstPage and managed_end, and a scan only *)
(* runs when there are some.  InRange is what makes a found run a run of   *)
(* usable pages.                                                           *)
(***************************************************************************)
EXTENDS PhysicalMemory, FiniteSetTheorems, TLAPS

InRange ==
  /\ \A p \in usable : FirstPage =< p /\ p < managed_end
  /\ usable # {} => managed_end =< MAX_PAGES
  /\ call # Idle => usable # {} /\ call.count # 0 /\ FirstPage =< call.page
IInv == TypeOK /\ Accounting /\ ScanMissesNothing /\ InRange

(* managed_start is a page number. *)
LEMMA FirstPageType == FirstPage \in Nat
<1> DEFINE n == KernelEnd + PAGE_SIZE - 1
<1>1. n \in Nat /\ PAGE_SIZE \in Nat \ {0}
  BY PmmAssumption
<1> HIDE DEF n
<1>2. n \div PAGE_SIZE \in Nat
  BY <1>1
<1> QED
  BY <1>2 DEF FirstPage, n

(* Sets of pages are finite. *)
LEMMA PagesFinite ==
  ASSUME NEW S \in SUBSET Pages
  PROVE  IsFiniteSet(S) /\ Cardinality(S) \in Nat
<1>1. IsFiniteSet(0 .. MAX_PAGES - 1)
  BY PmmAssumption, FS_Interval
<1>2. IsFiniteSet(S)
  BY <1>1, FS_Subset DEF Pages
<1> QED
  BY <1>2, FS_CardinalityType

(* pmm_initialize. *)
LEMMA InitIInv == Init => IInv
<1> SUFFICES ASSUME Init PROVE IInv
  OBVIOUS
<1> USE PmmAssumption, FirstPageType
<1>1. usable \subseteq Pages /\ \A p \in usable : FirstPage =< p
  BY DEF Init, PmmInitialize, UsablePages
<1>2. /\ bitmap = Pages \ usable /\ held = {} /\ call = [count |-> 0, page |-> 0] /\ result = -1
      /\ total_pages_count = Cardinality(usable) /\ used_pages_count = 0
      /\ managed_end \in 0 .. (MAX_PAGES + FirstPage) /\ IsManagedEnd(managed_end, usable)
  BY DEF Init, Idle, NULL
<1>3. Cardinality(usable) \in Nat /\ Cardinality({}) = 0
  BY <1>1, PagesFinite, FS_EmptySet
<1>4. TypeOK
  BY <1>1, <1>2, <1>3 DEF TypeOK, NULL
<1>5. Accounting
  BY <1>2, <1>3 DEF Accounting
<1>6. call = Idle
  BY <1>2 DEF Idle
<1>7. InRange
  <2>1. CASE usable = {}
    BY <1>6, <2>1 DEF InRange
  <2>2. CASE usable # {}
    <3>1. managed_end - 1 \in usable /\ \A p \in usable : p < managed_end
      BY <1>2, <2>2 DEF IsManagedEnd
    <3>2. managed_end - 1 \in Pages
      BY <1>1, <3>1
    <3>3. managed_end =< MAX_PAGES
      BY <1>2, <3>2 DEF Pages
    <3> QED
      BY <1>1, <1>6, <3>1, <3>3 DEF InRange
  <2> QED
    BY <2>1, <2>2
<1>8. ScanMissesNothing
  BY <1>6 DEF ScanMissesNothing
<1> QED
  BY <1>4, <1>5, <1>7, <1>8 DEF IInv

(* The start of a scan: no run begins below managed_start. *)
LEMMA AllocPagesIInv ==
  ASSUME IInv, NEW count \in 0 .. (MAX_PAGES + 1), AllocPages(count)
  PROVE  IInv'
<1> USE PmmAssumption, FirstPageType
<1>1. /\ bitmap' = bitmap /\ managed_end' = managed_end /\ usable' = usable /\ held' = held
      /\ total_pages_count' = total_pages_count /\ used_pages_count' = used_pages_count
      /\ call = Idle /\ count \in Nat
  BY DEF AllocPages
<1>2. CASE count = 0 \/ count > total_pages_count
  BY <1>1, <1>2 DEF AllocPages, IInv, TypeOK, Accounting, ScanMissesNothing, InRange
<1>3. CASE count # 0 /\ ~ (count > total_pages_count)
  <2>1. /\ result' = result /\ call' = [count |-> count, page |-> FirstPage]
    BY <1>3 DEF AllocPages
  <2>2. usable # {}
    <3>1. total_pages_count = Cardinality(usable) /\ total_pages_count \in Nat
      BY DEF IInv, Accounting, TypeOK
    <3>2. Cardinality(usable) # 0
      BY <1>1, <1>3, <3>1
    <3> QED
      BY <3>2, FS_EmptySet
  <2>3. TypeOK' /\ Accounting' /\ InRange'
    BY <1>1, <1>3, <2>1, <2>2 DEF IInv, TypeOK, Accounting, InRange
  <2>4. ScanMissesNothing'
    <3>1. ASSUME NEW f \in 0 .. (FirstPage - 1)
          PROVE  ~ FreeRun(bitmap, FirstPage, managed_end, f, count)
      BY DEF FreeRun
    <3> QED
      BY <1>1, <2>1, <3>1 DEF ScanMissesNothing
  <2> QED
    BY <2>3, <2>4 DEF IInv
<1> QED
  BY <1>2, <1>3

(* A run that is too short rules out every start up to the bit that ends   *)
(* it.                                                                     *)
LEMMA ScanRunIInv == IInv /\ ScanRun => IInv'
<1> SUFFICES ASSUME IInv, ScanRun PROVE IInv'
  OBVIOUS
<1> USE PmmAssumption, FirstPageType
<1>1. PICK run \in 0 .. (call.count - 1) :
        /\ IsRun(bitmap, managed_end, call.page, call.count, run)
        /\ call' = [call EXCEPT !.page = call.page + run + 1]
  BY DEF ScanRun
<1>2. /\ bitmap' = bitmap /\ managed_end' = managed_end /\ usable' = usable /\ held' = held
      /\ total_pages_count' = total_pages_count /\ used_pages_count' = used_pages_count
      /\ result' = result /\ call # Idle
  BY DEF ScanRun
<1>3. /\ call \in [count : Nat, page : Nat] /\ call.count \in Nat /\ call.page \in Nat
      /\ managed_end \in Nat
  BY DEF IInv, TypeOK
<1>4. /\ call' \in [count : Nat, page : Nat] /\ call'.count = call.count
      /\ call'.page = call.page + run + 1
  BY <1>1, <1>3
<1>5. TypeOK' /\ Accounting'
  BY <1>2, <1>4 DEF IInv, TypeOK, Accounting
<1>6. InRange'
  BY <1>1, <1>2, <1>3, <1>4 DEF IInv, InRange
<1>7. ASSUME NEW f \in 0 .. (call.page + run)
      PROVE  ~ FreeRun(bitmap, FirstPage, managed_end, f, call.count)
  <2>1. CASE f < call.page
    BY <1>2, <1>3, <2>1 DEF IInv, ScanMissesNothing
  <2>2. CASE ~ (f < call.page)
    <3>1. f \in Nat /\ run \in Nat /\ run < call.count /\ f =< call.page + run /\ call.page =< f
      BY <1>1, <1>3, <2>2
    <3>2. call.page + run \in Extent(f, call.count)
      BY <1>3, <3>1 DEF Extent
    <3>3. call.page + run >= managed_end \/ call.page + run \in bitmap
      BY <1>1, <1>3, <3>1 DEF IsRun
    <3> QED
      BY <1>3, <3>1, <3>2, <3>3 DEF FreeRun
  <2> QED
    BY <2>1, <2>2
<1>8. ScanMissesNothing'
  BY <1>1, <1>2, <1>3, <1>4, <1>7 DEF ScanMissesNothing
<1> QED
  BY <1>5, <1>6, <1>8 DEF IInv

(* What the scan has found when a run is long enough: pages of the map     *)
(* that nobody holds, and no earlier run.                                  *)
LEMMA FoundRun ==
  ASSUME IInv, ScanFound
  PROVE  /\ Extent(call.page, call.count) \subseteq usable \ held
         /\ call.page \in Pages
         /\ Cardinality(Extent(call.page, call.count)) = call.count
         /\ FirstFit(bitmap, FirstPage, managed_end, call.page, call.count)
<1> USE PmmAssumption, FirstPageType
<1>1. /\ call.count \in Nat \ {0} /\ call.page \in Nat /\ managed_end \in Nat /\ FirstPage =< call.page
      /\ managed_end =< MAX_PAGES /\ call # Idle
  BY DEF IInv, TypeOK, InRange, ScanFound
<1>2. FreeRun(bitmap, call.page, managed_end, call.page, call.count)
  BY DEF ScanFound, IsRun
<1>3. FreeRun(bitmap, FirstPage, managed_end, call.page, call.count)
  BY <1>1, <1>2 DEF FreeRun
<1>4. ASSUME NEW p \in Extent(call.page, call.count) PROVE p \in usable \ held
  <2>1. p \in Pages /\ p \notin bitmap
    BY <1>1, <1>3 DEF FreeRun, Extent, Pages
  <2> QED
    BY <2>1 DEF IInv, Accounting
<1>5. call.page \in Pages
  BY <1>1, <1>3 DEF FreeRun, Pages
<1>6. Cardinality(call.page .. (call.page + call.count - 1)) = call.count
  <2>1. call.page \in Int /\ call.page + call.count - 1 \in Int /\ ~ (call.page > call.page + call.count - 1)
    BY <1>1
  <2>2. (call.page + call.count - 1) - call.page + 1 = call.count
    BY <1>1
  <2> QED
    BY <2>1, <2>2, FS_Interval
<1>7. FirstFit(bitmap, FirstPage, managed_end, call.page, call.count)
  BY <1>1, <1>3 DEF FirstFit, IInv, ScanMissesNothing
<1> QED
  BY <1>4, <1>5, <1>6, <1>7 DEF Extent

(* A found run is counted page by page. *)
LEMMA ScanFoundIInv == IInv /\ ScanFound => IInv'
<1> SUFFICES ASSUME IInv, ScanFound PROVE IInv'
  OBVIOUS
<1> DEFINE run == Extent(call.page, call.count)
<1>1. /\ bitmap' = bitmap \cup run /\ held' = held \cup run
      /\ used_pages_count' = used_pages_count + call.count
      /\ result' = call.page /\ call' = Idle /\ managed_end' = managed_end
      /\ total_pages_count' = total_pages_count /\ usable' = usable
  BY DEF ScanFound
<1>2. run \subseteq usable \ held /\ call.page \in Pages /\ Cardinality(run) = call.count
  BY FoundRun
<1> HIDE DEF run
<1>3. /\ bitmap \subseteq Pages /\ usable \subseteq Pages /\ held \subseteq usable
      /\ bitmap = (Pages \ usable) \cup held /\ used_pages_count = Cardinality(held)
      /\ call.count \in Nat
  BY DEF IInv, TypeOK, Accounting
<1>4. Cardinality(held \cup run) = Cardinality(held) + Cardinality(run)
  <2>1. IsFiniteSet(held) /\ IsFiniteSet(run) /\ Cardinality(held) \in Nat /\ Cardinality(run) \in Nat
    BY <1>2, <1>3, PagesFinite
  <2>2. held \cap run = {}
    BY <1>2
  <2>3. Cardinality(held \cap run) = 0
    BY <2>2, FS_EmptySet
  <2> QED
    <3>1. Cardinality(held \cup run) = Cardinality(held) + Cardinality(run) - Cardinality(held \cap run)
      BY <2>1, FS_Union, Zenon
    <3> QED
      BY <2>1, <2>3, <3>1
<1>5. Accounting'
  <2>1. bitmap' = (Pages \ usable') \cup held'
    BY <1>1, <1>3
  <2>2. held' \subseteq usable'
    BY <1>1, <1>2, <1>3
  <2> QED
    BY <1>1, <1>2, <1>3, <1>4, <2>1, <2>2 DEF Accounting, IInv
<1>6. TypeOK'
  <2>1. bitmap' \subseteq Pages /\ held' \subseteq Pages
    BY <1>1, <1>2, <1>3
  <2> QED
    BY <1>1, <1>2, <1>3, <2>1 DEF TypeOK, IInv, Idle
<1>7. InRange' /\ ScanMissesNothing'
  BY <1>1 DEF InRange, ScanMissesNothing, IInv
<1> QED
  BY <1>5, <1>6, <1>7 DEF IInv

(* What is freed is what was held, whatever the block covers. *)
LEMMA FreePagesBlockIInv ==
  ASSUME IInv, NEW address \in 0 .. (MAX_PAGES * PAGE_SIZE), NEW count \in 0 .. (MAX_PAGES + 1),
         FreePagesBlock(address, count)
  PROVE  IInv'
<1> DEFINE block == Extent(address \div PAGE_SIZE, count)
<1>1. /\ managed_end' = managed_end /\ total_pages_count' = total_pages_count /\ call' = call
      /\ result' = result /\ usable' = usable /\ call = Idle
  BY DEF FreePagesBlock
<1>2. CASE Accepts(address, count)
  <2>1. /\ (bitmap \cap block) \subseteq held /\ bitmap' = bitmap \ block /\ held' = held \ block
        /\ used_pages_count' = used_pages_count - Cardinality(bitmap \cap block)
    BY <1>2 DEF FreePagesBlock
  <2> HIDE DEF block
  <2>2. /\ bitmap \subseteq Pages /\ usable \subseteq Pages /\ held \subseteq usable
        /\ bitmap = (Pages \ usable) \cup held /\ used_pages_count = Cardinality(held)
    BY DEF IInv, TypeOK, Accounting
  <2>3. bitmap \cap block = held \cap block
    BY <2>1, <2>2
  <2>4. /\ IsFiniteSet(held) /\ Cardinality(held) \in Nat
        /\ held \cap block \subseteq Pages /\ held \ block \subseteq Pages
    BY <2>2, PagesFinite
  <2>5. Cardinality(held \cap block) \in Nat /\ Cardinality(held \ block) \in Nat
    BY <2>4, PagesFinite
  <2>6. Cardinality(held \ block) = Cardinality(held) - Cardinality(held \cap block)
    BY <2>4, FS_Difference, Zenon
  <2>7. bitmap' = (Pages \ usable') \cup held'
    BY <1>1, <2>1, <2>2
  <2>8. used_pages_count' = Cardinality(held')
    BY <2>1, <2>2, <2>3, <2>6
  <2>9. Accounting'
    BY <1>1, <2>1, <2>2, <2>7, <2>8 DEF Accounting, IInv
  <2>10. TypeOK'
    <3>1. bitmap' \subseteq Pages /\ held' \subseteq Pages /\ used_pages_count' \in Int
      BY <2>1, <2>2, <2>5, <2>8
    <3> QED
      BY <1>1, <3>1 DEF TypeOK, IInv
  <2>11. InRange' /\ ScanMissesNothing'
    BY <1>1 DEF InRange, ScanMissesNothing, IInv
  <2> QED
    BY <2>9, <2>10, <2>11 DEF IInv
<1>3. CASE ~ Accepts(address, count)
  <2>1. bitmap' = bitmap /\ held' = held /\ used_pages_count' = used_pages_count
    BY <1>3 DEF FreePagesBlock
  <2> QED
    BY <1>1, <2>1 DEF IInv, TypeOK, Accounting, ScanMissesNothing, InRange
<1> QED
  BY <1>2, <1>3

(* A failed scan, and steps of nothing. *)
LEMMA OtherStepsIInv == IInv /\ (ScanFails \/ UNCHANGED vars) => IInv'
<1> SUFFICES ASSUME IInv, ScanFails \/ UNCHANGED vars PROVE IInv'
  OBVIOUS
<1>1. CASE ScanFails
  BY <1>1 DEF ScanFails, IInv, TypeOK, Accounting, ScanMissesNothing, InRange, Idle, NULL
<1>2. CASE UNCHANGED vars
  BY <1>2 DEF vars, IInv, TypeOK, Accounting, ScanMissesNothing, InRange
<1> QED
  BY <1>1, <1>2

LEMMA Inductive == Spec => []IInv
<1>1. IInv /\ [Next]_vars => IInv'
  BY AllocPagesIInv, ScanRunIInv, ScanFoundIInv, FreePagesBlockIInv, OtherStepsIInv DEF Next
<1> QED
  BY InitIInv, <1>1, PTL DEF Spec

-----------------------------------------------------------------------------
(* The bitmap, the counters and the pages handed out agree after any       *)
(* sequence of allocations and frees, for every memory map (pmm.c).        *)
THEOREM BooksAgree == Spec => [](TypeOK /\ Accounting)
<1>1. IInv => TypeOK /\ Accounting
  BY DEF IInv
<1> QED
  BY Inductive, <1>1, PTL

(* The loop of pmm_alloc_pages, which jumps behind each short run, never   *)
(* jumps over a run that is long enough.                                   *)
THEOREM NoRunIsSkipped == Spec => []ScanMissesNothing
<1>1. IInv => ScanMissesNothing
  BY DEF IInv
<1> QED
  BY Inductive, <1>1, PTL

(* pmm_alloc_pages returns the lowest run of free pages of the map, and    *)
(* fails, changing nothing, only when there is none.                       *)
THEOREM AllocatesFirstFit == Spec => FirstFitOrNothing
<1> DEFINE Step ==
      call # Idle /\ call' = Idle =>
       IF result' = NULL
       THEN /\ \A f \in Pages : ~ FreeRun(bitmap, FirstPage, managed_end, f, call.count)
            /\ UNCHANGED <<bitmap, held, used_pages_count>>
       ELSE /\ FirstFit(bitmap, FirstPage, managed_end, result', call.count)
            /\ Extent(result', call.count) \cap held = {}
            /\ Extent(result', call.count) \subseteq usable
<1>1. ASSUME IInv, [Next]_vars PROVE [Step]_vars
  <2> USE PmmAssumption, FirstPageType
  <2>1. CASE ScanFound
    <3>1. result' = call.page
      BY <2>1 DEF ScanFound
    <3>2. /\ Extent(call.page, call.count) \subseteq usable \ held /\ call.page \in Pages
          /\ FirstFit(bitmap, FirstPage, managed_end, call.page, call.count)
      BY <1>1, <2>1, FoundRun
    <3>3. result' # NULL
      BY <3>1, <3>2 DEF Pages, NULL
    <3>4. Extent(call.page, call.count) \cap held = {} /\ Extent(call.page, call.count) \subseteq usable
      BY <3>2
    <3> QED
      BY <3>1, <3>2, <3>3, <3>4
  <2>2. CASE ScanFails
    <3>1. /\ call # Idle /\ call.page >= managed_end /\ call.count \in Nat \ {0} /\ call.page \in Nat
          /\ managed_end \in Nat /\ result' = NULL /\ UNCHANGED <<bitmap, held, used_pages_count>>
      BY <1>1, <2>2 DEF ScanFails, IInv, TypeOK, InRange
    <3>2. ASSUME NEW f \in Pages PROVE ~ FreeRun(bitmap, FirstPage, managed_end, f, call.count)
      <4>1. CASE f < call.page
        BY <1>1, <3>1, <4>1 DEF IInv, ScanMissesNothing, Pages
      <4>2. CASE ~ (f < call.page)
        BY <3>1, <4>2 DEF FreeRun, Pages
      <4> QED
        BY <4>1, <4>2
    <3> QED
      BY <3>1, <3>2
  <2>3. CASE ScanRun
    <3>1. /\ call # Idle /\ call.count # 0 /\ call \in [count : Nat, page : Nat]
      BY <1>1, <2>3 DEF ScanRun, IInv, TypeOK, InRange
    <3>2. call'.count = call.count
      BY <2>3, <3>1 DEF ScanRun
    <3>3. call' # Idle
      BY <3>1, <3>2 DEF Idle
    <3> QED
      BY <3>3
  <2>4. ASSUME NEW count \in 0 .. (MAX_PAGES + 1), AllocPages(count) PROVE Step
    BY <2>4 DEF AllocPages
  <2>5. ASSUME NEW address, NEW count, FreePagesBlock(address, count) PROVE Step
    BY <2>5 DEF FreePagesBlock
  <2> HIDE DEF Step
  <2> QED
    BY <1>1, <2>1, <2>2, <2>3, <2>4, <2>5 DEF Next
<1> QED
  BY Inductive, <1>1, PTL DEF Spec, FirstFitOrNothing
=============================================================================
