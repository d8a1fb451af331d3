--------------------------- MODULE PhysicalMemory ---------------------------
(***************************************************************************)
(* The physical page allocator, kernel/mm/pmm.c.                           *)
(*                                                                         *)
(* The bitmap is the set of the pages whose bit is set.  Addresses are in  *)
(* bytes, so that regions and blocks can be unaligned.  One iteration of   *)
(* the scan in pmm_alloc_pages is one action.  used_pages_count is an      *)
(* integer here; that it never falls below zero, where the code would      *)
(* wrap, is part of Accounting.                                            *)
(***************************************************************************)
EXTENDS Extents, FiniteSets

CONSTANTS PAGE_SIZE,   \* bytes in a page
          MAX_PAGES,   \* PMM_MAX_PAGES: pages below the managed limit
          KernelEnd,   \* the address _kernel_end
          Fallback,    \* the limit used when the memory map lists nothing usable
          MemoryMaps   \* E820 maps: sets of usable regions <<base, length>>

ASSUME PmmAssumption ==
  /\ PAGE_SIZE \in Nat \ {0}
  /\ MAX_PAGES \in Nat /\ KernelEnd \in Nat /\ Fallback \in Nat
  /\ MemoryMaps \subseteq SUBSET (Nat \X Nat)

Pages == 0 .. MAX_PAGES - 1
NULL == -1

VARIABLES bitmap,             \* page_bitmap: the pages whose bit is set
          managed_end,        \* in pages
          total_pages_count, used_pages_count,
          call,               \* the allocation in progress: its request and loop variable
          result,             \* what the last allocation returned
          usable,             \* history: the pages the memory map gave
          held                \* history: the pages handed out and not freed

vars == <<bitmap, managed_end, total_pages_count, used_pages_count, call, result, usable, held>>

(* managed_start, as a page: the kernel's end rounded up. *)
FirstPage == (KernelEnd + PAGE_SIZE - 1) \div PAGE_SIZE

(* The pages mark_usable_region clears: whole pages of the region, from    *)
(* managed_start up to the managed limit.                                  *)
UsablePages(base, length) ==
  {p \in Pages : /\ FirstPage =< p
                 /\ base =< p * PAGE_SIZE
                 /\ (p + 1) * PAGE_SIZE =< base + length}

(* What pmm_initialize finds usable, with its fallback. *)
PmmInitialize(map) ==
  LET listed == UNION {UsablePages(r[1], r[2]) : r \in map}
  IN  IF listed # {} THEN listed
      ELSE UsablePages(FirstPage * PAGE_SIZE, Fallback - FirstPage * PAGE_SIZE)

(* One past the last of a set of pages; FirstPage when there is none. *)
IsManagedEnd(end, pages) ==
  IF pages = {} THEN end = FirstPage
  ELSE /\ end - 1 \in pages
       /\ \A p \in pages : p < end

Idle == [count |-> 0, page |-> 0]

Init ==
  /\ \E map \in MemoryMaps : usable = PmmInitialize(map)
  /\ bitmap = Pages \ usable
  /\ managed_end \in 0 .. (MAX_PAGES + FirstPage) /\ IsManagedEnd(managed_end, usable)
  /\ total_pages_count = Cardinality(usable)
  /\ used_pages_count = 0
  /\ call = Idle /\ result = NULL /\ held = {}

(* pmm_alloc_pages up to its loop: a request for nothing, or for more than *)
(* there ever was, is refused at once.                                     *)
AllocPages(count) ==
  /\ call = Idle
  /\ IF count = 0 \/ count > total_pages_count
     THEN result' = NULL /\ call' = call
     ELSE result' = result /\ call' = [count |-> count, page |-> FirstPage]
  /\ UNCHANGED <<bitmap, managed_end, total_pages_count, used_pages_count, usable, held>>

(* run is what the inner loop counts: clear bits from page on, at most as  *)
(* many as requested.                                                      *)
IsRun(used, end, page, count, run) ==
  /\ FreeRun(used, page, end, page, run)
  /\ run = count \/ page + run >= end \/ page + run \in used

(* Mutant: the scan jumps one page too far. *)
ScanRunSkipsTwo ==
  /\ call # Idle /\ call.page < managed_end
  /\ \E run \in 0 .. (call.count - 1) :
       /\ IsRun(bitmap, managed_end, call.page, call.count, run)
       /\ call' = [call EXCEPT !.page = @ + run + 2]
  /\ UNCHANGED <<bitmap, managed_end, total_pages_count, used_pages_count, result, usable, held>>

(* The run at page is too short: go on behind the set bit that ended it. *)
ScanRun ==
  /\ call # Idle /\ call.page < managed_end
  /\ \E run \in 0 .. (call.count - 1) :
       /\ IsRun(bitmap, managed_end, call.page, call.count, run)
       /\ call' = [call EXCEPT !.page = @ + run + 1]
  /\ UNCHANGED <<bitmap, managed_end, total_pages_count, used_pages_count, result, usable, held>>

(* The run at page is long enough: mark it and return it. *)
ScanFound ==
  /\ call # Idle /\ call.page < managed_end
  /\ IsRun(bitmap, managed_end, call.page, call.count, call.count)
  /\ bitmap' = bitmap \cup Extent(call.page, call.count)
  /\ used_pages_count' = used_pages_count + call.count
  /\ result' = call.page
  /\ held' = held \cup Extent(call.page, call.count)
  /\ call' = Idle
  /\ UNCHANGED <<managed_end, total_pages_count, usable>>

(* No run is long enough. *)
ScanFails ==
  /\ call # Idle /\ call.page >= managed_end
  /\ result' = NULL
  /\ call' = Idle
  /\ UNCHANGED <<bitmap, managed_end, total_pages_count, used_pages_count, usable, held>>

(* Blocks pmm_free_pages_block takes back, and what it clears.  A caller   *)
(* may give back less than it got, or the same block again, but no page    *)
(* that was never handed out.                                              *)
Accepts(address, count) ==
  /\ count # 0
  /\ FirstPage * PAGE_SIZE =< address /\ address % PAGE_SIZE = 0
  /\ address + count * PAGE_SIZE =< managed_end * PAGE_SIZE

(* Mutant: pages that were free already are taken off the count too. *)
FreeUncounted(address, count) ==
  LET block == Extent(address \div PAGE_SIZE, count)
  IN  /\ call = Idle
      /\ Accepts(address, count) => (bitmap \cap block) \subseteq held
      /\ IF Accepts(address, count)
         THEN /\ bitmap' = bitmap \ block
              /\ used_pages_count' = used_pages_count - count
              /\ held' = held \ block
         ELSE UNCHANGED <<bitmap, used_pages_count, held>>
      /\ UNCHANGED <<managed_end, total_pages_count, call, result, usable>>

FreePagesBlock(address, count) ==
  LET block == Extent(address \div PAGE_SIZE, count)
  IN  /\ call = Idle
      /\ Accepts(address, count) => (bitmap \cap block) \subseteq held
      /\ IF Accepts(address, count)
         THEN /\ bitmap' = bitmap \ block
              /\ used_pages_count' = used_pages_count - Cardinality(bitmap \cap block)
              /\ held' = held \ block
         ELSE UNCHANGED <<bitmap, used_pages_count, held>>
      /\ UNCHANGED <<managed_end, total_pages_count, call, result, usable>>

Next ==
  \/ \E count \in 0 .. (MAX_PAGES + 1) : AllocPages(count)
  \/ ScanRun \/ ScanFound \/ ScanFails
  \/ \E address \in 0 .. (MAX_PAGES * PAGE_SIZE), count \in 0 .. (MAX_PAGES + 1) :
       FreePagesBlock(address, count)

Spec == Init /\ [][Next]_vars

-----------------------------------------------------------------------------
(* Types of the allocator's variables (pmm.c:12-16). *)
TypeOK ==
  /\ bitmap \subseteq Pages /\ usable \subseteq Pages /\ held \subseteq Pages
  /\ managed_end \in Nat
  /\ total_pages_count \in Nat /\ used_pages_count \in Int
  /\ call \in [count : Nat, page : Nat]
  /\ result \in Pages \cup {NULL}

(* The bitmap and the two counters always tell the same story: a usable    *)
(* page is marked exactly while somebody holds it, pages outside the       *)
(* memory map are never given out, and used_pages_count is the number of   *)
(* pages held, whatever was freed twice, in part or with a bad address.    *)
Accounting ==
  /\ held \subseteq usable
  /\ bitmap = (Pages \ usable) \cup held
  /\ total_pages_count = Cardinality(usable)
  /\ used_pages_count = Cardinality(held)

(* While the loop runs, no run of the requested length starts below its    *)
(* variable: what it skips after a short run cannot hold one.              *)
ScanMissesNothing ==
  call # Idle =>
    \A f \in 0 .. (call.page - 1) : ~ FreeRun(bitmap, FirstPage, managed_end, f, call.count)

(* An allocation that fails leaves everything as it is and fails only when *)
(* no run of free pages is long enough; one that succeeds returns the      *)
(* lowest run, of pages nobody held.                                       *)
FirstFitOrNothing ==
  [][call # Idle /\ call' = Idle =>
       IF result' = NULL
       THEN /\ \A f \in Pages : ~ FreeRun(bitmap, FirstPage, managed_end, f, call.count)
            /\ UNCHANGED <<bitmap, held, used_pages_count>>
       ELSE /\ FirstFit(bitmap, FirstPage, managed_end, result', call.count)
            /\ Extent(result', call.count) \cap held = {}
            /\ Extent(result', call.count) \subseteq usable]_vars
=============================================================================
