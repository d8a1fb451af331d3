-------------------------------- MODULE Heap --------------------------------
(***************************************************************************)
(* The kernel heap, kernel/mm/heap.c, on the pages of the physical memory  *)
(* manager (whose first fit PhysicalMemory shows to be one).               *)
(*                                                                         *)
(* blocks is the list from heap_head on, in list order, which is the order *)
(* of addresses only inside a region.  split_block does not set the        *)
(* page_count of the block it makes, so that field holds whatever was in   *)
(* memory there: any value of Garbage.  Other kernel code takes and gives  *)
(* back pages at any time.                                                 *)
(***************************************************************************)
EXTENDS Extents, FiniteSets, SequencesExt, FiniteSetsExt

CONSTANTS PAGE_SIZE, HEADER, MIN_SPLIT, GRAIN, ALIGNED_HEADER,   \* in one unit
          PageCount,    \* pages 1 .. PageCount are usable
          Requests,     \* sizes callers ask for
          Garbage,      \* values found in an uninitialised page_count
          MaxLive       \* bound: allocations live at one time

Pages == 1 .. PageCount

VARIABLES blocks,       \* the list: address, size, page_count and free flag
          heap_total, heap_used,
          double_free_count,
          taken,        \* the pages marked in the physical memory manager
          owned,        \* history: what kmalloc returned and nobody freed
          pages         \* history: pages the heap got and did not give back

vars == <<blocks, heap_total, heap_used, double_free_count, taken, owned, pages>>

AlignUp(value, alignment) == ((value + alignment - 1) \div alignment) * alignment
BlockEnd(b) == b.addr + HEADER + b.size
IndexOf(bs, addr) == CHOOSE i \in DOMAIN bs : bs[i].addr = addr

(* block_from_pages: one free block over the whole region, at the tail. *)
AddRegion(bs, first, n) ==
  Append(bs, [addr |-> first * PAGE_SIZE, size |-> n * PAGE_SIZE - HEADER,
              page_count |-> n, free |-> TRUE])

(* find_free_block: the first in list order; 0 when there is none. *)
FindFreeBlock(bs, size) ==
  SelectInSeq(bs, LAMBDA b : b.free /\ b.size >= size)

SplitBlock(bs, i, size, garbage) ==
  IF bs[i].size < size + HEADER + MIN_SPLIT THEN bs
  ELSE InsertAt([bs EXCEPT ![i].size = size], i + 1,
                [addr |-> bs[i].addr + HEADER + size, size |-> bs[i].size - size - HEADER,
                 page_count |-> garbage, free |-> TRUE])

(* Mutant: free blocks are joined across regions that are not neighbours. *)
CoalesceNextUnchecked(bs, i) ==
  IF i < Len(bs) /\ bs[i + 1].free
  THEN RemoveAt([bs EXCEPT ![i].size = @ + HEADER + bs[i + 1].size], i + 1)
  ELSE bs

CoalesceNext(bs, i) ==
  IF i < Len(bs) /\ bs[i + 1].free /\ BlockEnd(bs[i]) = bs[i + 1].addr
  THEN RemoveAt([bs EXCEPT ![i].size = @ + HEADER + bs[i + 1].size], i + 1)
  ELSE bs

(* release_whole_region_if_possible takes the block for a whole region. *)
LooksWhole(b) ==
  b.free /\ b.page_count # 0 /\ b.size = b.page_count * PAGE_SIZE - HEADER

(* The pages pmm_free_pages_block gives back: none when the block does not *)
(* start a page.                                                           *)
PagesReleased(b) ==
  IF b.addr % PAGE_SIZE = 0 THEN Extent(b.addr \div PAGE_SIZE, b.page_count) ELSE {}

(* heap_initialize, after anything else took its pages; without a page the *)
(* heap starts empty.                                                      *)
Init ==
  /\ \E others \in SUBSET Pages :
       IF others = Pages
       THEN taken = Pages /\ blocks = <<>> /\ pages = {} /\ heap_total = 0
       ELSE LET first == Min(Pages \ others)
            IN  /\ taken = others \cup {first} /\ pages = {first}
                /\ blocks = AddRegion(<<>>, first, 1) /\ heap_total = PAGE_SIZE - HEADER
  /\ heap_used = 0 /\ double_free_count = 0 /\ owned = {}

(* The rest of kmalloc, once a block was found: split it, mark it, return  *)
(* it.  The pointer is raw, or for kmalloc_aligned the first aligned       *)
(* address behind the small header.                                        *)
Hand(bs, i, need, size, alignment, total) ==
  \E garbage \in Garbage :
    LET split == SplitBlock(bs, i, need, garbage)
        raw == bs[i].addr + HEADER
        ptr == IF alignment = 0 THEN raw ELSE AlignUp(raw + ALIGNED_HEADER, alignment)
    IN  /\ blocks' = [split EXCEPT ![i].free = FALSE]
        /\ heap_total' = total - HEADER * (Len(split) - Len(bs))
        /\ heap_used' = heap_used + split[i].size
        /\ owned' = owned \cup {[ptr |-> ptr, raw |-> raw, size |-> size]}

(* kmalloc (alignment 0) and kmalloc_aligned. *)
Kmalloc(size, alignment) ==
  LET asked == IF alignment = 0 THEN size ELSE size + alignment + ALIGNED_HEADER
      need == AlignUp(asked, GRAIN)
      i == FindFreeBlock(blocks, need)
      n == (need + HEADER + PAGE_SIZE - 1) \div PAGE_SIZE
  IN  /\ Cardinality(owned) < MaxLive
      /\ UNCHANGED double_free_count
      /\ \/ /\ i # 0
            /\ Hand(blocks, i, need, size, alignment, heap_total)
            /\ UNCHANGED <<taken, pages>>
         \/ /\ i = 0
            /\ \E first \in Pages :
                 /\ FirstFit(taken, 1, PageCount + 1, first, n)
                 /\ taken' = taken \cup Extent(first, n)
                 /\ pages' = pages \cup Extent(first, n)
                 /\ Hand(AddRegion(blocks, first, n), Len(blocks) + 1, need, size, alignment,
                         heap_total + n * PAGE_SIZE - HEADER)

(* kfree: join with the next block and then with the previous one, and try *)
(* to release what results: the previous block when that is free, even if  *)
(* the two did not join.                                                   *)
Kfree(o) ==
  LET i == IndexOf(blocks, o.raw - HEADER)
      bs1 == CoalesceNext([blocks EXCEPT ![i].free = TRUE], i)
      joinPrev == i > 1 /\ blocks[i - 1].free
      j == IF joinPrev THEN i - 1 ELSE i
      bs2 == IF joinPrev THEN CoalesceNext(bs1, j) ELSE bs1
      total == heap_total + HEADER * (Len(blocks) - Len(bs2))
      whole == LooksWhole(bs2[j])
  IN  /\ blocks' = IF whole THEN RemoveAt(bs2, j) ELSE bs2
      /\ heap_total' = IF whole THEN total - bs2[j].size ELSE total
      /\ heap_used' = heap_used - blocks[i].size
      /\ taken' = IF whole THEN taken \ PagesReleased(bs2[j]) ELSE taken
      /\ pages' = IF whole THEN pages \ PagesReleased(bs2[j]) ELSE pages
      /\ owned' = owned \ {o}
      /\ UNCHANGED double_free_count

(* kfree of a block that is free already: counted once, nothing else. *)
KfreeAgain ==
  /\ double_free_count = 0 /\ \E i \in DOMAIN blocks : blocks[i].free
  /\ double_free_count' = 1
  /\ UNCHANGED <<blocks, heap_total, heap_used, taken, owned, pages>>

(* Paging and the user programs use the same pages. *)
OthersTakePage ==
  /\ \E p \in Pages : FirstFit(taken, 1, PageCount + 1, p, 1) /\ taken' = taken \cup {p}
  /\ UNCHANGED <<blocks, heap_total, heap_used, double_free_count, owned, pages>>
OthersGivePage ==
  /\ \E p \in taken \ pages : taken' = taken \ {p}
  /\ UNCHANGED <<blocks, heap_total, heap_used, double_free_count, owned, pages>>

Next ==
  \/ \E size \in Requests, alignment \in {0, PAGE_SIZE} : Kmalloc(size, alignment)
  \/ \E o \in owned : Kfree(o)
  \/ KfreeAgain \/ OthersTakePage \/ OthersGivePage

Spec == Init /\ [][Next]_vars

-----------------------------------------------------------------------------
Bytes(b) == b.addr .. (BlockEnd(b) - 1)

(* Blocks with their headers never overlap, and every one lies in pages    *)
(* the heap holds, which the page allocator has marked: no sequence of     *)
(* splits, joins and releases, whatever an uninitialised page_count says,  *)
(* leaves a block on memory that can be handed out a second time.          *)
BlocksDisjoint ==
  /\ pages \subseteq taken
  /\ \A i, j \in DOMAIN blocks : i # j => Bytes(blocks[i]) \cap Bytes(blocks[j]) = {}
  /\ \A i \in DOMAIN blocks : {a \div PAGE_SIZE : a \in Bytes(blocks[i])} \subseteq pages

(* What kmalloc returned stays its caller's alone: also an aligned piece   *)
(* with its small header lies inside the payload of one block in use, no   *)
(* two callers share one, and the blocks are disjoint.                     *)
OwnersKeepTheirs ==
  /\ BlocksDisjoint
  /\ \A o \in owned : \E i \in DOMAIN blocks :
       /\ ~ blocks[i].free /\ blocks[i].addr + HEADER = o.raw
       /\ o.ptr = o.raw \/ o.ptr - ALIGNED_HEADER >= o.raw
       /\ o.ptr + o.size =< BlockEnd(blocks[i])
  /\ Cardinality(owned) = Cardinality({i \in DOMAIN blocks : ~ blocks[i].free})
=============================================================================
