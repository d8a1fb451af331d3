--------------------------- MODULE AddressSpaces ----------------------------
(***************************************************************************)
(* Page directories, page tables and the frames behind them,               *)
(* kernel/mm/paging.c, for the kernel's address space and that of the one  *)
(* program that can exist at a time.                                       *)
(*                                                                         *)
(* A page table is named by its frame, the kernel's static tables by       *)
(* negative numbers.  Frame and virtual page numbers below Identity are    *)
(* mapped one to one by the kernel's tables.  struct address_space is four *)
(* bytes larger than the one frame it is given: its last owned_tables slot *)
(* is the first word of the next frame, and clearing it writes there.      *)
(* (What other owners keep in that word is taken not to be the address of  *)
(* a frame, so that freeing it has no effect.)                             *)
(***************************************************************************)
EXTENDS Integers, FiniteSets, FiniteSetsExt, TLC

CONSTANTS ENTRIES,      \* entries of a page table
          TABLES,       \* entries of a directory
          KERNEL_TABLES \* PAGE_TABLE_COUNT: the directory entries of the identity map

Identity == KERNEL_TABLES * ENTRIES
Frames == 1 .. Identity - 1      \* managed by the page allocator
Index == 0 .. TABLES - 1
VirtualPages == 0 .. TABLES * ENTRIES - 1
ABSENT == 0
NONE == -1
NoSpace == [frame |-> 0, directory |-> 0, owned |-> [d \in Index |-> 0]]

VARIABLES used,          \* frames marked in the page allocator
          pte,           \* the page tables that exist: entry -> frame or NONE
          kernel_directory, process_directory,
          space,         \* the program's struct address_space
          current_space, \* "kernel" or "process": what CR3 holds
          overwritten    \* history: frames of others that clearing owned_tables wrote to

paging == <<used, pte, kernel_directory, process_directory, space, current_space, overwritten>>

(* pmm_alloc_page: the lowest free frame; 0 when there is none. *)
AllocFrame(u) == IF u = Frames THEN 0 ELSE Min(Frames \ u)
Plus(u, f) == IF f = 0 THEN u ELSE u \cup {f}

(* paging_initialize. *)
PagingInit ==
  /\ pte = [t \in {-(d + 1) : d \in 0 .. KERNEL_TABLES - 1} |->
              [e \in 0 .. ENTRIES - 1 |-> (-t - 1) * ENTRIES + e]]
  /\ kernel_directory = [d \in Index |-> IF d < KERNEL_TABLES THEN -(d + 1) ELSE ABSENT]
  /\ process_directory = kernel_directory
  /\ space = NoSpace /\ current_space = "kernel" /\ overwritten = {}

(* The frame that the slot of a struct address_space in f that does not    *)
(* fit falls on, unless that frame is free: then it becomes the directory. *)
Spill(f, u) == {f + 1} \ (Frames \ u)

(* paging_create_address_space, given the frames in use; NoSpace when it   *)
(* fails, with the frame it had taken given back.                          *)
CreateSpace(u) ==
  LET f == AllocFrame(u)
      d == AllocFrame(u \cup {f})
  IN  IF f = 0 \/ d = 0 THEN NoSpace ELSE [NoSpace EXCEPT !.frame = f, !.directory = d]

(* The frames paging_destroy_address_space frees. *)
SpaceFrames(s) == ({s.frame, s.directory} \cup {s.owned[d] : d \in Index}) \ {0}

(* Mutant: the kernel's table is used in place of a copy. *)
EnsureTableShared(dir, s, u, d) ==
  IF dir[d] = ABSENT THEN AllocFrame(u) ELSE dir[d]

(* ensure_table in the program's space: the table that will be written, a  *)
(* new frame when there is none or when it is still the kernel's; 0 when   *)
(* no frame is left.                                                       *)
EnsureTable(dir, s, u, d) ==
  IF dir[d] = ABSENT \/ s.owned[d] = 0 THEN AllocFrame(u) ELSE dir[d]

(* Mutant: the private table starts empty, not as a copy of the kernel's. *)
MapPageBlank(v, frame) ==
  LET d == v \div ENTRIES
      t == EnsureTable(process_directory, space, used, d)
      old == IF process_directory[d] < 0 THEN [e \in 0 .. ENTRIES - 1 |-> NONE]
             ELSE pte[process_directory[d]]
  IN  /\ t # 0
      /\ used' = IF t \in Frames THEN used \cup {t} ELSE used
      /\ pte' = (t :> [old EXCEPT ![v % ENTRIES] = frame]) @@ pte
      /\ process_directory' = [process_directory EXCEPT ![d] = t]
      /\ space' = [space EXCEPT !.owned[d] = IF t \in Frames THEN t ELSE @]

(* paging_map_page_in_space for the program's space, when a table can be   *)
(* had: a new one starts as a copy of the one it replaces.                 *)
MapPage(v, frame) ==
  LET d == v \div ENTRIES
      t == EnsureTable(process_directory, space, used, d)
      old == IF process_directory[d] = ABSENT THEN [e \in 0 .. ENTRIES - 1 |-> NONE]
             ELSE pte[process_directory[d]]
  IN  /\ t # 0
      /\ used' = IF t \in Frames THEN used \cup {t} ELSE used
      /\ pte' = (t :> [old EXCEPT ![v % ENTRIES] = frame]) @@ pte
      /\ process_directory' = [process_directory EXCEPT ![d] = t]
      /\ space' = [space EXCEPT !.owned[d] = IF t \in Frames THEN t ELSE @]
CannotMap(v) == EnsureTable(process_directory, space, used, v \div ENTRIES) = 0

(* paging_get_physical_in_space: the frame of a virtual page, or NONE. *)
FrameOf(dir, v) ==
  LET d == v \div ENTRIES
  IN  IF dir[d] = ABSENT \/ dir[d] \notin DOMAIN pte THEN NONE ELSE pte[dir[d]][v % ENTRIES]
CurrentDirectory == IF current_space = "kernel" THEN kernel_directory ELSE process_directory

(* Unmapping the pages of a program, destroying its space and freeing      *)
(* frames; CR3 holds the kernel's space again.  Clearing the slots writes  *)
(* to the same frame as creating them did.                                 *)
Destroy(others) ==
  /\ used' = used \ (SpaceFrames(space) \cup others)
  /\ pte' = [t \in DOMAIN pte \ SpaceFrames(space) |-> pte[t]]
  /\ process_directory' = kernel_directory
  /\ space' = NoSpace /\ current_space' = "kernel"
  /\ UNCHANGED <<kernel_directory, overwritten>>

-----------------------------------------------------------------------------
(* The maps the processor may use are always good: the kernel's own is the *)
(* identity whatever programs map, whose pages go into private copies of   *)
(* its tables; and what CR3 points to is never freed, for the directory    *)
(* and the private tables of the space are marked in the page allocator.   *)
MapsStayGood ==
  /\ \A v \in 0 .. Identity - 1 : FrameOf(kernel_directory, v) = v
  /\ current_space = "process" => space # NoSpace
  /\ SpaceFrames(space) \subseteq used
=============================================================================
