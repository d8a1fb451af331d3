------------------------------ MODULE MCMemory -------------------------------
(***************************************************************************)
(* The memory of the kernel, one part at a time: the page allocator, the   *)
(* heap, the address space and the processes of a user program.  The parts *)
(* share no variable (each has its own view of the pages that are taken),  *)
(* so one of them, chosen at the start, takes steps, and the others stay   *)
(* in an initial state.                                                    *)
(***************************************************************************)
EXTENDS PhysicalMemory

VARIABLES part,
          blocks, heap_total, heap_used, double_free_count, taken, owned, pages,
          used, pte, kernel_directory, process_directory, space, current_space, overwritten,
          pc, stack, images, mapped, processes, next_pid, current_process_index,
          returned, boot, leaked, exits
heap == <<blocks, heap_total, heap_used, double_free_count, taken, owned, pages>>
user == <<used, pte, kernel_directory, process_directory, space, current_space, overwritten,
          pc, stack, images, mapped, processes, next_pid, current_process_index,
          returned, boot, leaked, exits>>

(* Six pages of two bytes above a kernel that ends in the middle of page 0: *)
(* maps with holes, unaligned and overlapping regions, and none at all.     *)
Maps == { {},
          {<<0, 12>>},
          {<<0, 5>>, <<7, 5>>},
          {<<3, 3>>, <<5, 5>>, <<8, 9>>},
          {<<0, 2>>} }

(* Three pages in units of 128 bytes: blocks that fill a page to the last   *)
(* byte, blocks that leave a splittable rest, aligned ones, regions of two  *)
(* and three pages; an unset page_count that says none, one or two.         *)
Kheap == INSTANCE Heap WITH
  PAGE_SIZE <- 32, HEADER <- 6, MIN_SPLIT <- 8, GRAIN <- 2, ALIGNED_HEADER <- 2,
  PageCount <- 3, Requests <- {10, 26}, Garbage <- {0, 1, 2}, MaxLive <- 3

(* Frames for a program of two image pages and a stack, and one more: from  *)
(* none to all of the six frames a program needs are there.                 *)
User == INSTANCE UserPrograms WITH
  result <- returned,
  ENTRIES <- 4, TABLES <- 3, KERNEL_TABLES <- 2, IMAGE_PAGES <- 2, BASE <- 4,
  PROCESS_COUNT <- 2, FD_COUNT <- 1, Verdicts <- {-10, -33}, ExitCodes <- {0, 7},
  FileSize <- <<2>>, PAGE_BYTES <- 2, MaxPid <- 3

MemoryInit ==
  /\ part \in {"pages", "heap", "programs"}
  /\ Init /\ (part # "pages" => usable = PmmInitialize({}))
  /\ Kheap!Init /\ (part # "heap" => taken = {1})
  /\ User!Init /\ (part # "programs" => boot = {})

MemoryNext ==
  \/ part = "pages" /\ Next /\ UNCHANGED <<part, heap, user>>
  \/ part = "heap" /\ Kheap!Next /\ UNCHANGED <<part, vars, user>>
  \/ part = "programs" /\ User!Next /\ UNCHANGED <<part, vars, heap>>

MemorySpec == MemoryInit /\ [][MemoryNext]_<<part, vars, heap, user>>

-----------------------------------------------------------------------------
(* heap.c: what kmalloc returned stays its caller's alone until it is      *)
(* freed, in blocks that do not overlap and lie in pages the heap has.     *)
OwnersKeepTheirs == part = "heap" => Kheap!OwnersKeepTheirs

(* paging.c: no program changes the kernel's identity map, and CR3 never   *)
(* holds a directory that was freed.                                       *)
MapsStayGood == part = "programs" => User!MapsStayGood
(* usermode.c: between two programs only the frames of the boot and of     *)
(* usermode_run_test are taken.                                            *)
FramesReturned == part = "programs" => User!FramesReturned
(* usermode.c: a running program sees its image and its stack at their     *)
(* addresses, and nothing the kernel clears falls on them.                 *)
ProgramSeesItsOwn == part = "programs" => User!ProgramSeesItsOwn
(* usermode.c: wait answers with the exit code of that very program, or    *)
(* that it runs, or that its slot is gone.                                 *)
WaitTellsTruth == part = "programs" => User!WaitTellsTruth
(* syscall.c: every byte of a buffer that is accepted is mapped in the     *)
(* current address space.                                                  *)
ValidBufferIsMapped == part = "programs" => User!ValidBufferIsMapped
=============================================================================
