------------------------------- MODULE DiskFS -------------------------------
(***************************************************************************)
(* The diskfs file system of kernel/fs/diskfs/diskfs.c: its in-memory      *)
(* metadata, the operations that change files, the order in which each of  *)
(* them writes its sectors, the mount, and what power loss and failing     *)
(* transfers do in between.  The sectors are those of SectorStore, the     *)
(* specification the sector cache is shown to implement.                   *)
(*                                                                         *)
(* All callers run in task 0, so at most one operation is in progress.     *)
(* The code is split where it transfers sectors: one action is the code    *)
(* between two points at which power can be lost with a different disk.    *)
(***************************************************************************)
EXTENDS Integers, Sequences, FiniteSets, Extents

CONSTANTS
  TOTAL_SECTORS,       \* DISKFS_TOTAL_SECTORS
  DATA_START,          \* superblock.data_start
  MAX_INODES,          \* DISKFS_MAX_INODES
  INODES_PER_SECTOR,   \* DISKFS_SECTOR_SIZE / DISKFS_INODE_SIZE
  SECTOR_SIZE,         \* DISKFS_SECTOR_SIZE, in bytes
  MAX_FILE_SIZE,       \* DISKFS_MAX_FILE_SIZE
  READ_BUFFER_SIZE,    \* DISKFS_READ_BUFFER_SIZE
  Names,               \* the names that fit into an inode
  LongNames,           \* path components path_part refuses as too long
  Paths,               \* the paths the operations are called with
  Buffers,             \* the buffers handed to diskfs_write_file
  Sizes,               \* the sizes handed to diskfs_truncate_file
  InitCount,           \* the image mkfs.py made: inode_count,
  InitInodes,          \* its inode table
  InitData,            \* and its data sectors
  MaxOps,              \* bound: operations started
  MaxCrashes,          \* bound: power losses
  MaxErrors            \* bound: failing transfers

FREE == 0              \* the type of an unused inode
FILE == 1              \* DISKFS_TYPE_FILE
DIR == 2               \* DISKFS_TYPE_DIR
ROOT == 0              \* DISKFS_ROOT_INODE

(***************************************************************************)
(* The layout mkfs.py writes.                                              *)
(***************************************************************************)
InodeIds == 0 .. (MAX_INODES - 1)
SUPER == 0
JOURNAL == 1
BITMAP == 2
InodeSector(i) == 3 + (i \div INODES_PER_SECTOR)
InodeSectors == {InodeSector(i) : i \in InodeIds}
Sectors == 0 .. (TOTAL_SECTORS - 1)
MetaSectors == 0 .. (DATA_START - 1)
DataSectors == DATA_START .. (TOTAL_SECTORS - 1)
InodesOf(s) == {i \in InodeIds : InodeSector(i) = s}

(* The name is all a directory entry needs; "" is the zeroed name. *)
ZeroInode ==
  [type |-> FREE, parent |-> 0, name |-> "", size |-> 0,
   first_sector |-> 0, sector_count |-> 0]

(* A file always lies in the data area. *)
InDataArea(inode) ==
  /\ inode.sector_count > 0
  /\ inode.first_sector >= DATA_START
  /\ inode.first_sector + inode.sector_count =< TOTAL_SECTORS

Inode ==
  {inode \in [type : {FREE, FILE, DIR}, parent : InodeIds, name : Names \cup {""}, size : Nat,
              first_sector : Nat, sector_count : Nat] :
     inode.type = FILE => InDataArea(inode)}

Superblock == [inode_count : 0 .. MAX_INODES, journal_state : {0, 1}]

ASSUME LayoutAssumption ==
  /\ MAX_INODES \in Nat \ {0}
  /\ SECTOR_SIZE \in Nat \ {0}
  /\ INODES_PER_SECTOR \in Nat \ {0}
  /\ TOTAL_SECTORS \in Nat
  /\ DATA_START \in Nat
  /\ DATA_START =< TOTAL_SECTORS
  /\ \A i \in InodeIds : InodeSector(i) \in 3 .. (DATA_START - 1)

ASSUME CallAssumption ==
  /\ Names \subseteq STRING /\ "" \notin Names
  /\ \A p \in Paths : p \in Seq(Names \cup LongNames)
  /\ \A b \in Buffers : b \in Seq(Nat)
  /\ Sizes \subseteq Nat

(* mkfs.py packs the files one after the other; the rest is zero. *)
ASSUME ImageAssumption ==
  /\ InitCount \in 1 .. MAX_INODES
  /\ InitInodes \in [InodeIds -> Inode]
  /\ \A i \in InodeIds : i >= InitCount => InitInodes[i].type = FREE
  /\ \A i, j \in InodeIds :
       InitInodes[i].type = FILE /\ InitInodes[j].type = FILE /\ i # j =>
         Extent(InitInodes[i].first_sector, InitInodes[i].sector_count)
           \cap Extent(InitInodes[j].first_sector, InitInodes[j].sector_count) = {}

VARIABLES
  disk, view, dirty,   \* the sector store
  superblock, inodes, bitmap, available,      \* the variables of diskfs.c
  listed,              \* file_indices and file_names, as a set of entries
  pc,                  \* the step of the operation in progress
  written,             \* how many sectors the step has given to the cache
  todo, flush_ok,      \* the flush in progress: dirty sectors left, and ok
  op,                  \* the local variables of the operation
  request, ret,        \* the call in progress; what the last one returned
  files,               \* history: what every path read as between two calls
  io_failed,           \* history: a transfer failed since the mount
  suspect,             \* history: mounted an image that was not clean
  budget               \* counts towards MaxOps, MaxCrashes and MaxErrors

INSTANCE SectorStore

memVars == <<superblock, inodes, bitmap, available, listed>>
ioVars == <<written, todo, flush_ok>>
callVars == <<op, request, ret>>
histVars == <<files, io_failed, suspect>>
vars == <<disk, view, dirty, memVars, pc, ioVars, callVars, histVars, budget>>

------------------------------------------------------------------------------
LiveFiles(ino, count) == {i \in InodeIds : i < count /\ ino[i].type = FILE}

ExtentOf(ino, i) == Extent(ino[i].first_sector, ino[i].sector_count)

(***************************************************************************)
(* Names.  A path is the sequence of its components.                       *)
(***************************************************************************)

(* path_part stops at the first component that is too long, and its        *)
(* callers take that for the end of the path.                              *)
Parts(path) ==
  LET long == {k \in 1 .. Len(path) : path[k] \in LongNames}
  IN  IF long = {} THEN path
      ELSE SubSeq(path, 1, (CHOOSE k \in long : \A j \in long : k =< j) - 1)

AnyType == {FILE, DIR}
(* Mutant: the directory is not compared. *)
FindChildAnywhere(ino, count, parent, name, types) ==
  LET match == {i \in InodeIds : /\ i < count
                                 /\ ino[i].type \in types
                                 /\ ino[i].name = name}
  IN  IF match = {} THEN -1 ELSE CHOOSE i \in match : \A j \in match : i =< j

(* find_child: the lowest matching inode, or -1. *)
FindChild(ino, count, parent, name, types) ==
  LET match == {i \in InodeIds : /\ i < count
                                 /\ ino[i].type \in types
                                 /\ ino[i].parent = parent
                                 /\ ino[i].name = name}
  IN  IF match = {} THEN -1 ELSE CHOOSE i \in match : \A j \in match : i =< j

(* find_path: walk the components from the root. *)
FindPath(ino, count, path) ==
  LET parts == Parts(path)
      walk[k \in 0 .. Len(parts)] ==
        IF k = 0 THEN ROOT
        ELSE IF walk[k - 1] < 0 THEN -1
        ELSE FindChild(ino, count, walk[k - 1], parts[k], AnyType)
  IN  walk[Len(parts)]

(* ensure_parent_dir: the same walk over directories only, without the     *)
(* last component; -1 for a path without components.                       *)
ParentDir(ino, count, path) ==
  LET parts == Parts(path)
      walk[k \in 0 .. (Len(parts) - 1)] ==
        IF k = 0 THEN ROOT
        ELSE IF walk[k - 1] < 0 THEN -1
        ELSE FindChild(ino, count, walk[k - 1], parts[k], {DIR})
  IN  IF parts = <<>> THEN -1 ELSE walk[Len(parts) - 1]

Leaf(path) == Parts(path)[Len(Parts(path))]

(* inode_name_valid *)
NameValid(name) == name \in Names

FindFile(ino, count, path) ==
  LET i == FindPath(ino, count, path)
  IN  IF i \in LiveFiles(ino, count) THEN i ELSE -1

(***************************************************************************)
(* File contents.                                                          *)
(***************************************************************************)
SectorsForSize(size) ==
  LET n == (size + SECTOR_SIZE - 1) \div SECTOR_SIZE
  IN  IF n = 0 THEN 1 ELSE n

(* write_file_data: sector s (from 0) of a buffer, padded with zeros. *)
Chunk(buffer, s) ==
  [b \in 1 .. SECTOR_SIZE |->
     LET at == s * SECTOR_SIZE + b IN IF at =< Len(buffer) THEN buffer[at] ELSE 0]

(* diskfs_read_index: the first n bytes of file i, read from img. *)
ReadIndex(ino, img, i, n) ==
  [b \in 1 .. n |->
     img[ino[i].first_sector + ((b - 1) \div SECTOR_SIZE)][((b - 1) % SECTOR_SIZE) + 1]]

NoFile == <<-1>>       \* what a path that names no file reads as

(* What a program reads that opens the path and reads to the end.          *)
(* diskfs_read_file reads the same, if it fits into READ_BUFFER_SIZE.      *)
ReadPath(ino, count, img, path) ==
  LET i == FindFile(ino, count, path)
  IN  IF i < 0 THEN NoFile ELSE ReadIndex(ino, img, i, ino[i].size)

AllFiles(ino, count, img) == [p \in Paths |-> ReadPath(ino, count, img, p)]

(* rebuild_file_list: index, directory and name of every file. *)
Listing(ino, count) ==
  {<<i, IF ino[ino[i].parent].type = DIR THEN ino[i].parent ELSE ROOT, ino[i].name>> :
     i \in LiveFiles(ino, count)}

(***************************************************************************)
(* Steps shared by the operations.                                         *)
(***************************************************************************)
NoRequest == [call |-> "none", path |-> <<>>, to |-> <<>>, buffer |-> <<>>]

NoOp == [kind |-> "none", index |-> -1, parent |-> -1, leaf |-> "",
         buffer |-> <<>>, fresh |-> FALSE, ok |-> TRUE]

(* The operation returns without having touched anything. *)
Refuse(value) ==
  /\ ret' = value
  /\ UNCHANGED <<disk, view, dirty, memVars, pc, ioVars, op, request, histVars>>
(* begin_transaction: the marker is set in memory and is next written. *)
Begin(locals, req) ==
  /\ op' = locals
  /\ request' = req
  /\ superblock' = [superblock EXCEPT !.journal_state = 1]
  /\ pc' = "begin"
  /\ UNCHANGED <<disk, view, dirty, inodes, bitmap, available, listed, ioVars, ret, histVars>>

StartOp ==
  /\ pc = "idle"
  /\ budget.ops < MaxOps
  /\ budget' = [budget EXCEPT !.ops = @ + 1]

Locals(kind, index, parent, leaf, buffer) ==
  [kind |-> kind, index |-> index, parent |-> parent, leaf |-> leaf,
   buffer |-> buffer, fresh |-> FALSE, ok |-> TRUE]

Find(path) == FindFile(inodes, superblock.inode_count, path)

(* diskfs_write_file up to begin_transaction. *)
EnterWriteFile(path, buffer, req) ==
  LET parent == ParentDir(inodes, superblock.inode_count, path)
      leaf == Leaf(path)
  IN  IF \/ ~ available
         \/ Len(buffer) > MAX_FILE_SIZE
         \/ parent \notin InodeIds
         \/ ~ NameValid(leaf)
      THEN Refuse(FALSE)
      ELSE Begin(Locals("write",
                        FindChild(inodes, superblock.inode_count, parent, leaf, {FILE}),
                        parent, leaf, buffer), req)

(***************************************************************************)
(* The calls.  Each is the code up to its first transfer.                  *)
(***************************************************************************)
WriteFile(path, buffer) ==
  /\ StartOp
  /\ EnterWriteFile(path, buffer,
       [call |-> "write", path |-> path, to |-> path, buffer |-> buffer])

DeleteFile(path) ==
  /\ StartOp
  /\ IF Find(path) < 0
     THEN Refuse(FALSE)
     ELSE Begin(Locals("delete", Find(path), -1, "", <<>>),
                [call |-> "delete", path |-> path, to |-> path, buffer |-> <<>>])

RenameFile(old, new) ==
  /\ StartOp
  /\ LET count == superblock.inode_count
         parent == ParentDir(inodes, count, new)
     IN  IF \/ Find(old) < 0
            \/ parent \notin InodeIds
            \/ ~ NameValid(Leaf(new))
            \/ FindChild(inodes, count, parent, Leaf(new), AnyType) >= 0
         THEN Refuse(FALSE)
         ELSE Begin(Locals("rename", Find(old), parent, Leaf(new), <<>>),
                    [call |-> "rename", path |-> old, to |-> new, buffer |-> <<>>])

(* The first size bytes of a buffer, filled up with zeros. *)
Resize(buffer, size) ==
  [b \in 1 .. size |-> IF b =< Len(buffer) THEN buffer[b] ELSE 0]

(* diskfs_truncate_file reads the file, of which readable bytes arrive     *)
(* (all of them unless a transfer fails), and rewrites it.                 *)
Truncate(path, size, readable) ==
  LET i == Find(path)
      old == ReadIndex(inodes, view, i, readable)
      req == [call |-> "write", path |-> path, to |-> path,
              buffer |-> IF i < 0 \/ size = 0 THEN <<>> ELSE Resize(old, size)]
  IN  IF size > MAX_FILE_SIZE \/ (i < 0 /\ size # 0) THEN Refuse(FALSE)
      ELSE IF i >= 0 /\ size = inodes[i].size THEN Refuse(TRUE)
      ELSE IF /\ i >= 0 /\ size # 0
              /\ inodes[i].size > READ_BUFFER_SIZE \/ size > READ_BUFFER_SIZE
      THEN Refuse(FALSE)
      ELSE EnterWriteFile(path, req.buffer, req)

TruncateFile(path, size) ==
  /\ StartOp
  /\ Truncate(path, size, IF Find(path) < 0 \/ ~ available THEN 0 ELSE inodes[Find(path)].size)

(* The same with a failing read_sector: the result of diskfs_read_index is *)
(* ignored and the rest of the buffer stays zero.                          *)
TruncateFileReadFails(path, size) ==
  /\ pc = "idle"
  /\ available
  /\ Find(path) >= 0
  /\ size \notin {0, inodes[Find(path)].size}
  /\ size =< READ_BUFFER_SIZE /\ inodes[Find(path)].size =< READ_BUFFER_SIZE
  /\ budget.ops < MaxOps
  /\ budget.errors < MaxErrors
  /\ budget' = [budget EXCEPT !.ops = @ + 1, !.errors = @ + 1]
  /\ \E s \in 0 .. (SectorsForSize(inodes[Find(path)].size) - 1) :
       /\ s * SECTOR_SIZE < inodes[Find(path)].size
       /\ Truncate(path, size, s * SECTOR_SIZE)

------------------------------------------------------------------------------
(***************************************************************************)
(* Between begin_transaction and the first write: the metadata changes in  *)
(* memory.                                                                 *)
(***************************************************************************)
Enter(step) == pc' = step /\ written' = 0

(* The operation goes on to write its sectors. *)
Proceed(step) ==
  /\ Enter(step)
  /\ UNCHANGED <<disk, view, dirty, available, listed, todo, flush_ok,
                 request, ret, histVars, budget>>

(* (void) commit_transaction(); return false; *)
GiveUp(count) ==
  /\ superblock' = [inode_count |-> count, journal_state |-> 0]
  /\ op' = [op EXCEPT !.ok = FALSE]
  /\ Proceed("commit")
  /\ UNCHANGED <<inodes, bitmap>>
(* Mutant: the scan goes one sector past the end. *)
IsFirstFitPastEnd(f, n) == FirstFit(bitmap, DATA_START, TOTAL_SECTORS + 1, f, n)

IsFirstFit(f, n) == FirstFit(bitmap, DATA_START, TOTAL_SECTORS, f, n)

NoRoom(n) ==
  \A f \in DataSectors : ~ FreeRun(bitmap, DATA_START, TOTAL_SECTORS, f, n)
(* An inode with another extent and size. *)
Resized(inode, first, n, size) ==
  [type |-> inode.type, parent |-> inode.parent, name |-> inode.name,
   size |-> size, first_sector |-> first, sector_count |-> n]

(* Mutant: the old extent is freed before the new one is allocated. *)
GrowFreesFirst ==
  /\ pc = "mutate" /\ op.kind = "write" /\ op.index >= 0
  /\ LET i == op.index
         n == SectorsForSize(Len(op.buffer))
         free == bitmap \ ExtentOf(inodes, i)
     IN  /\ n > inodes[i].sector_count
         /\ \E f \in DataSectors :
              /\ FirstFit(free, DATA_START, TOTAL_SECTORS, f, n)
              /\ bitmap' = free \cup Extent(f, n)
              /\ inodes' = [inodes EXCEPT ![i] = Resized(@, f, n, Len(op.buffer))]
  /\ Proceed("data")
  /\ UNCHANGED <<superblock, op>>

(* An existing file needs more sectors: a new extent, then the old freed. *)
Grow ==
  /\ pc = "mutate" /\ op.kind = "write" /\ op.index >= 0
  /\ LET i == op.index
         n == SectorsForSize(Len(op.buffer))
     IN  /\ n > inodes[i].sector_count
         /\ \/ \E f \in DataSectors :
                 /\ IsFirstFit(f, n)
                 /\ bitmap' = (bitmap \cup Extent(f, n)) \ ExtentOf(inodes, i)
                 /\ inodes' = [inodes EXCEPT ![i] = Resized(@, f, n, Len(op.buffer))]
                 /\ Proceed("data")
                 /\ UNCHANGED <<superblock, op>>
            \/ NoRoom(n) /\ GiveUp(superblock.inode_count)
(* Mutant: as many sectors are freed behind the file as it had. *)
OverwriteFreesBehind ==
  /\ pc = "mutate" /\ op.kind = "write" /\ op.index >= 0
  /\ LET i == op.index
         n == SectorsForSize(Len(op.buffer))
     IN  /\ n =< inodes[i].sector_count
         /\ bitmap' = bitmap \ Extent(inodes[i].first_sector + n, inodes[i].sector_count)
         /\ inodes' = [inodes EXCEPT ![i] =
                         Resized(@, inodes[i].first_sector, n, Len(op.buffer))]
  /\ Proceed("data")
  /\ UNCHANGED <<superblock, op>>

(* An existing file needs fewer sectors, or as many: it stays in place. *)
Overwrite ==
  /\ pc = "mutate" /\ op.kind = "write" /\ op.index >= 0
  /\ LET i == op.index
         n == SectorsForSize(Len(op.buffer))
     IN  /\ n =< inodes[i].sector_count
         /\ bitmap' = bitmap \ Extent(inodes[i].first_sector + n, inodes[i].sector_count - n)
         /\ inodes' = [inodes EXCEPT ![i] =
                         Resized(@, inodes[i].first_sector, n, Len(op.buffer))]
  /\ Proceed("data")
  /\ UNCHANGED <<superblock, op>>

(* alloc_inode: the first unused inode; the count grows to include it,     *)
(* and stays so when there is no room for the data.                        *)
UnusedInodes ==
  {i \in InodeIds \ {ROOT} : i >= superblock.inode_count \/ inodes[i].type = FREE}

AllocInode(i) == i \in UnusedInodes /\ \A j \in UnusedInodes : i =< j

CountWith(i) == IF i >= superblock.inode_count THEN i + 1 ELSE superblock.inode_count

Create ==
  /\ pc = "mutate" /\ op.kind = "write" /\ op.index < 0
  /\ LET n == SectorsForSize(Len(op.buffer))
     IN  \/ UnusedInodes = {} /\ GiveUp(superblock.inode_count)
         \/ \E i \in InodeIds :
              /\ AllocInode(i)
              /\ \/ NoRoom(n) /\ GiveUp(CountWith(i))
                 \/ \E f \in DataSectors :
                      /\ IsFirstFit(f, n)
                      /\ bitmap' = bitmap \cup Extent(f, n)
                      /\ inodes' = [inodes EXCEPT ![i] =
                           [type |-> FILE, parent |-> op.parent, name |-> op.leaf,
                            size |-> Len(op.buffer), first_sector |-> f, sector_count |-> n]]
                      /\ superblock' = [superblock EXCEPT !.inode_count = CountWith(i)]
                      /\ op' = [op EXCEPT !.index = i, !.fresh = TRUE]
                      /\ Proceed("data")
Unlink ==
  /\ pc = "mutate" /\ op.kind = "delete"
  /\ bitmap' = bitmap \ ExtentOf(inodes, op.index)
  /\ inodes' = [inodes EXCEPT ![op.index] = ZeroInode]
  /\ Proceed("inode")
  /\ UNCHANGED <<superblock, op>>

(* An inode under another name. *)
Renamed(inode, parent, name) ==
  [type |-> inode.type, parent |-> parent, name |-> name, size |-> inode.size,
   first_sector |-> inode.first_sector, sector_count |-> inode.sector_count]

Relink ==
  /\ pc = "mutate" /\ op.kind = "rename"
  /\ inodes' = [inodes EXCEPT ![op.index] = Renamed(@, op.parent, op.leaf)]
  /\ Proceed("inode")
  /\ UNCHANGED <<superblock, bitmap, op>>

------------------------------------------------------------------------------
(***************************************************************************)
(* The steps that write sectors: write_journal, write_file_data,           *)
(* write_inode, write_superblock and write_bitmap.  Each gives its sectors *)
(* to the cache one by one and then calls diskfs_flush.                    *)
(***************************************************************************)
IOSteps == {"begin", "data", "inode", "super", "bitmap", "commit", "recover"}

StepLength ==
  CASE pc \in {"begin", "commit", "recover"} -> 2
    [] pc = "data" -> SectorsForSize(Len(op.buffer))
    [] pc \in {"inode", "super", "bitmap"} -> 1

(* The k-th sector of the step, from 0. *)
StepSector(k) ==
  CASE pc \in {"begin", "commit", "recover"} -> IF k = 0 THEN JOURNAL ELSE SUPER
    [] pc = "data" -> inodes[op.index].first_sector + k
    [] pc = "inode" -> InodeSector(op.index)
    [] pc = "super" -> SUPER
    [] pc = "bitmap" -> BITMAP

StepContent(s) ==
  CASE s = SUPER -> superblock
    [] s = JOURNAL -> superblock.journal_state
    [] s = BITMAP -> bitmap
    [] s \in InodeSectors -> [view[s] EXCEPT ![op.index] = inodes[op.index]]
    [] s \in DataSectors -> Chunk(op.buffer, s - inodes[op.index].first_sector)

Writing == pc \in IOSteps /\ written < StepLength
Flushing == pc \in IOSteps /\ written = StepLength

(* write_sector; after the last one of the step, diskfs_flush starts. *)
WriteSector ==
  /\ Writing
  /\ Put(StepSector(written), StepContent(StepSector(written)))
  /\ written' = written + 1
  /\ todo' = IF written + 1 = StepLength THEN dirty' ELSE {}
  /\ flush_ok' = TRUE
  /\ UNCHANGED <<memVars, pc, callVars, histVars, budget>>

(* A cache miss in write_sector first writes a dirty victim back. *)
Evict(s) ==
  /\ Writing
  /\ Writeback(s)
  /\ UNCHANGED <<memVars, pc, ioVars, callVars, histVars, budget>>

(* Between two operations a read does the same (diskfs_read_index), with   *)
(* what a failed operation left in the cache.                              *)
EvictByRead(s) ==
  /\ pc = "idle"
  /\ available
  /\ Writeback(s)
  /\ UNCHANGED <<memVars, pc, ioVars, callVars, histVars, budget>>

FlushSector(s) ==
  /\ Flushing
  /\ s \in todo
  /\ Writeback(s)
  /\ todo' = todo \ {s}
  /\ UNCHANGED <<memVars, pc, written, flush_ok, callVars, histVars, budget>>

SpendError ==
  /\ budget.errors < MaxErrors
  /\ budget' = [budget EXCEPT !.errors = @ + 1]

FlushSectorFails(s) ==
  /\ Flushing
  /\ s \in todo
  /\ SpendError
  /\ WritebackFails(s)
  /\ todo' = todo \ {s}
  /\ flush_ok' = FALSE
  /\ UNCHANGED <<memVars, pc, written, callVars, histVars>>

EvictByReadFails(s) ==
  /\ pc = "idle"
  /\ available
  /\ SpendError
  /\ WritebackFails(s)
  /\ UNCHANGED <<memVars, pc, ioVars, callVars, histVars>>

(* The call returns. *)
Return(value) ==
  /\ Enter("idle")
  /\ op' = NoOp
  /\ request' = NoRequest
  /\ ret' = value

(* A step failed: the operation returns false where it stands, except that *)
(* diskfs_initialize ignores the result of write_journal.                  *)
AbandonStep ==
  /\ Return(FALSE)
  /\ listed' = IF pc = "recover" THEN Listing(inodes, superblock.inode_count) ELSE listed
  /\ io_failed' = TRUE
  /\ UNCHANGED <<superblock, inodes, bitmap, available, files, suspect>>

(* A raw_read_sector, or the transfer of a dirty victim, fails. *)
WriteSectorFails ==
  /\ Writing
  /\ SpendError
  /\ \/ UNCHANGED <<disk, view, dirty>>
     \/ \E s \in dirty : WritebackFails(s)
  /\ AbandonStep
  /\ UNCHANGED <<todo, flush_ok>>
(* Mutant: the operation does not return when its commit fails. *)
FlushFailedBeforeCommit ==
  /\ Flushing
  /\ todo = {}
  /\ ~ flush_ok
  /\ pc # "commit"
  /\ AbandonStep
  /\ UNCHANGED <<disk, view, dirty, todo, flush_ok, budget>>

FlushFailed ==
  /\ Flushing
  /\ todo = {}
  /\ ~ flush_ok
  /\ AbandonStep
  /\ UNCHANGED <<disk, view, dirty, todo, flush_ok, budget>>
(* Mutant: the bitmap is not written after a create. *)
StepAfterNoBitmap ==
  CASE pc = "begin" -> "mutate"
    [] pc = "data" -> "inode"
    [] pc = "inode" -> IF op.kind = "rename" THEN "commit"
                       ELSE IF op.fresh THEN "super" ELSE "bitmap"
    [] pc \in {"super", "bitmap"} -> "commit"

StepAfter ==
  CASE pc = "begin" -> "mutate"
    [] pc = "data" -> "inode"
    [] pc = "inode" -> IF op.kind = "rename" THEN "commit"
                       ELSE IF op.fresh THEN "super" ELSE "bitmap"
    [] pc = "super" -> "bitmap"
    [] pc = "bitmap" -> "commit"
(* Mutant: the result of diskfs_flush is ignored. *)
StepDoneUnchecked ==
  /\ Flushing
  /\ todo = {}
  /\ pc \notin {"commit", "recover"}
  /\ Enter(StepAfter)
  /\ IF StepAfter = "commit"
     THEN /\ superblock' = [superblock EXCEPT !.journal_state = 0]
          /\ listed' = Listing(inodes, superblock.inode_count)
     ELSE UNCHANGED <<superblock, listed>>
  /\ UNCHANGED <<disk, view, dirty, inodes, bitmap, available,
                 todo, flush_ok, callVars, histVars, budget>>

(* A step of the operation is done; rebuild_file_list precedes the commit. *)
StepDone ==
  /\ Flushing
  /\ todo = {}
  /\ flush_ok
  /\ pc \notin {"commit", "recover"}
  /\ Enter(StepAfter)
  /\ IF StepAfter = "commit"
     THEN /\ superblock' = [superblock EXCEPT !.journal_state = 0]
          /\ listed' = Listing(inodes, superblock.inode_count)
     ELSE UNCHANGED <<superblock, listed>>
  /\ UNCHANGED <<disk, view, dirty, inodes, bitmap, available,
                 todo, flush_ok, callVars, histVars, budget>>

(* The last step of an operation, or of the mount, is done. *)
CallDone ==
  /\ Flushing
  /\ todo = {}
  /\ flush_ok
  /\ pc \in {"commit", "recover"}
  /\ Return(op.ok)
  /\ files' = AllFiles(inodes, superblock.inode_count, view)
  /\ listed' = IF pc = "recover" THEN Listing(inodes, superblock.inode_count) ELSE listed
  /\ UNCHANGED <<disk, view, dirty, superblock, inodes, bitmap, available,
                 todo, flush_ok, io_failed, suspect, budget>>

------------------------------------------------------------------------------
(***************************************************************************)
(* Power loss and diskfs_initialize.                                       *)
(***************************************************************************)
ZeroSuperblock == [inode_count |-> 0, journal_state |-> 0]
ZeroInodes == [i \in InodeIds |-> ZeroInode]

(* The machine stops, at any point; the next thing that happens to the     *)
(* file system is the mount.                                               *)
Crash ==
  /\ budget.crashes < MaxCrashes
  /\ budget' = [budget EXCEPT !.crashes = @ + 1]
  /\ PowerLoss
  /\ superblock' = ZeroSuperblock
  /\ inodes' = ZeroInodes
  /\ bitmap' = {}
  /\ available' = FALSE
  /\ listed' = {}
  /\ Enter("mount")
  /\ todo' = {}
  /\ flush_ok' = TRUE
  /\ op' = NoOp
  /\ request' = NoRequest
  /\ ret' = FALSE
  /\ UNCHANGED histVars

(* The inode table of an image, of which the sectors in read arrived. *)
InodesOn(img, read) ==
  [i \in InodeIds |-> IF InodeSector(i) \in read THEN img[InodeSector(i)][i] ELSE ZeroInode]

InodesIn(img) == [i \in InodeIds |-> img[InodeSector(i)][i]]

(* diskfs_validate. *)
Validate(ino, count) ==
  /\ ino[ROOT].type = DIR
  /\ \A i \in InodeIds : i < count /\ ino[i].type # FREE =>
       /\ i # ROOT => NameValid(ino[i].name) /\ ino[i].parent < count
       /\ ino[i].type = FILE =>
            /\ ino[i].first_sector >= DATA_START
            /\ ino[i].first_sector + ino[i].sector_count =< TOTAL_SECTORS
            /\ ino[i].sector_count = SectorsForSize(ino[i].size)

(* The image is trusted when the last operation on it ended cleanly. *)
NotTrusted == suspect \/ io_failed \/ disk[SUPER].journal_state # 0
(* Mutant: the marker is cleared in memory only. *)
MountKeepsMarker ==
  /\ pc = "mount"
  /\ LET ino == InodesIn(disk)
         count == disk[SUPER].inode_count
         valid == Validate(ino, count)
     IN  /\ inodes' = ino
         /\ bitmap' = disk[BITMAP]
         /\ available' = valid
         /\ superblock' = IF valid THEN [disk[SUPER] EXCEPT !.journal_state = 0]
                                   ELSE disk[SUPER]
         /\ Enter("idle")
         /\ listed' = IF valid THEN Listing(ino, count) ELSE {}
         /\ files' = AllFiles(ino, count, disk)
  /\ suspect' = NotTrusted
  /\ io_failed' = FALSE
  /\ UNCHANGED <<disk, view, dirty, todo, flush_ok, op, request, ret, budget>>

(* All sectors are read.  A marker left by an interrupted operation is     *)
(* reported and cleared; the sectors it stood for are taken as they are.   *)
Mount ==
  /\ pc = "mount"
  /\ LET ino == InodesIn(disk)
         count == disk[SUPER].inode_count
         valid == Validate(ino, count)
         marked == disk[SUPER].journal_state # 0
     IN  /\ inodes' = ino
         /\ bitmap' = disk[BITMAP]
         /\ available' = valid
         /\ superblock' = IF valid THEN [disk[SUPER] EXCEPT !.journal_state = 0]
                                   ELSE disk[SUPER]
         /\ Enter(IF valid /\ marked THEN "recover" ELSE "idle")
         /\ listed' = IF valid /\ ~ marked THEN Listing(ino, count) ELSE {}
         /\ files' = AllFiles(ino, count, disk)
  /\ suspect' = NotTrusted
  /\ io_failed' = FALSE
  /\ UNCHANGED <<disk, view, dirty, todo, flush_ok, op, request, ret, budget>>
(* Mutant: a file system that was not read is available. *)
MountFailsUnnoticed ==
  /\ pc = "mount"
  /\ SpendError
  /\ superblock' = disk[SUPER] /\ bitmap' = {} /\ inodes' = ZeroInodes
  /\ available' = TRUE
  /\ Enter("idle")
  /\ suspect' = NotTrusted
  /\ io_failed' = TRUE
  /\ UNCHANGED files
  /\ UNCHANGED <<disk, view, dirty, listed, todo, flush_ok, op, request, ret>>

(* A sector cannot be read: the mount stops there, unavailable. *)
MountFails ==
  /\ pc = "mount"
  /\ SpendError
  /\ \/ superblock' = ZeroSuperblock /\ bitmap' = {} /\ inodes' = ZeroInodes
     \/ superblock' = disk[SUPER] /\ bitmap' = {} /\ inodes' = ZeroInodes
     \/ \E s \in InodeSectors :
          /\ superblock' = disk[SUPER]
          /\ bitmap' = disk[BITMAP]
          /\ inodes' = InodesOn(disk, {t \in InodeSectors : t < s})
  /\ Enter("idle")
  /\ suspect' = NotTrusted
  /\ io_failed' = TRUE
  /\ UNCHANGED files
  /\ UNCHANGED <<disk, view, dirty, available, listed, todo, flush_ok, op, request, ret>>

(* The image mkfs.py made, before the first boot. *)
InitBitmap ==
  MetaSectors \cup UNION {ExtentOf(InitInodes, i) : i \in LiveFiles(InitInodes, InitCount)}

InitDisk ==
  [s \in Sectors |->
     CASE s = SUPER -> [inode_count |-> InitCount, journal_state |-> 0]
       [] s = JOURNAL -> 0
       [] s = BITMAP -> InitBitmap
       [] s \in InodeSectors -> [i \in InodesOf(s) |-> InitInodes[i]]
       [] s \in DataSectors -> InitData[s]]

Init ==
  /\ disk = InitDisk
  /\ StoreInit
  /\ superblock = ZeroSuperblock
  /\ inodes = ZeroInodes
  /\ bitmap = {}
  /\ available = FALSE
  /\ listed = {}
  /\ pc = "mount"
  /\ written = 0
  /\ todo = {}
  /\ flush_ok = TRUE
  /\ op = NoOp
  /\ request = NoRequest
  /\ ret = FALSE
  /\ files = AllFiles(InitInodes, InitCount, InitDisk)
  /\ io_failed = FALSE
  /\ suspect = FALSE
  /\ budget = [ops |-> 0, crashes |-> 0, errors |-> 0]

Calls ==
  \/ \E p \in Paths, b \in Buffers : WriteFile(p, b)
  \/ \E p \in Paths : DeleteFile(p)
  \/ \E p, q \in Paths : RenameFile(p, q)
  \/ \E p \in Paths, n \in Sizes : TruncateFile(p, n) \/ TruncateFileReadFails(p, n)

Mutation == Grow \/ Overwrite \/ Create \/ Unlink \/ Relink

Transfers ==
  \/ WriteSector
  \/ \E s \in Sectors : Evict(s) \/ FlushSector(s) \/ FlushSectorFails(s)
  \/ \E s \in Sectors : EvictByRead(s) \/ EvictByReadFails(s)
  \/ WriteSectorFails \/ FlushFailed \/ StepDone \/ CallDone

Next == Calls \/ Mutation \/ Transfers \/ Crash \/ Mount \/ MountFails

Spec == Init /\ [][Next]_vars

(* The processor keeps executing the operation it has started. *)
FairSpec ==
  /\ Spec
  /\ WF_vars(Mutation \/ WriteSector \/ (\E s \in Sectors : FlushSector(s))
             \/ FlushFailed \/ StepDone \/ CallDone \/ Mount)

------------------------------------------------------------------------------
(***************************************************************************)
(* Properties.                                                             *)
(***************************************************************************)
Steps == IOSteps \cup {"mount", "idle", "mutate"}

TypeOK ==
  /\ DOMAIN disk = Sectors /\ DOMAIN view = Sectors
  /\ dirty \subseteq Sectors
  /\ disk[SUPER] \in Superblock /\ view[SUPER] \in Superblock
  /\ disk[BITMAP] \subseteq Sectors /\ view[BITMAP] \subseteq Sectors
  /\ \A s \in InodeSectors :
       disk[s] \in [InodesOf(s) -> Inode] /\ view[s] \in [InodesOf(s) -> Inode]
  /\ superblock \in Superblock
  /\ inodes \in [InodeIds -> Inode]
  /\ bitmap \subseteq Sectors
  /\ available \in BOOLEAN /\ ret \in BOOLEAN
  /\ pc \in Steps
  /\ written \in Nat
  /\ Flushing => todo \subseteq dirty
  /\ flush_ok \in BOOLEAN /\ io_failed \in BOOLEAN /\ suspect \in BOOLEAN

(* What diskfs_fsck calls clean: every file lies in the data area, no two  *)
(* files share a sector, and the bitmap marks the metadata and the files   *)
(* and nothing else.                                                       *)
FsckClean(ino, count, bits) ==
  /\ \A i \in LiveFiles(ino, count) :
       /\ ino[i].first_sector >= DATA_START
       /\ ino[i].first_sector + ino[i].sector_count =< TOTAL_SECTORS
  /\ \A i, j \in LiveFiles(ino, count) :
       i # j => ExtentOf(ino, i) \cap ExtentOf(ino, j) = {}
  /\ bits = MetaSectors \cup UNION {ExtentOf(ino, i) : i \in LiveFiles(ino, count)}
(* Mutant: the bitmap is not compared. *)
FsckSkipsBitmap(ino, count, bits) ==
  LET scan[n \in 0 .. count] ==
        IF n = 0 THEN [seen |-> MetaSectors, errors |-> 0]
        ELSE LET before == scan[n - 1]
             IN  IF ino[n - 1].type # FILE THEN before
                 ELSE [seen |-> before.seen \cup ExtentOf(ino, n - 1),
                       errors |-> before.errors
                                  + Cardinality(before.seen \cap ExtentOf(ino, n - 1))]
  IN  scan[count].errors

(* diskfs_fsck: the errors it counts in one pass over the inodes. *)
Fsck(ino, count, bits) ==
  LET scan[n \in 0 .. count] ==
        IF n = 0 THEN [seen |-> MetaSectors, errors |-> 0]
        ELSE LET before == scan[n - 1]
                 f == ino[n - 1]
             IN  IF f.type # FILE THEN before
                 ELSE IF \/ f.first_sector < DATA_START
                         \/ f.first_sector + f.sector_count > TOTAL_SECTORS
                 THEN [before EXCEPT !.errors = @ + 1]
                 ELSE [seen |-> before.seen \cup ExtentOf(ino, n - 1),
                       errors |-> before.errors
                                  + Cardinality(before.seen \cap ExtentOf(ino, n - 1))]
      total == scan[count]
  IN  total.errors + (IF bits = total.seen THEN 0 ELSE 1)

(* The one-pass count of diskfs_fsck is zero exactly when the metadata is  *)
(* clean, whatever the crashes before left behind.                         *)
FsckDecides ==
  available =>
    LET count == superblock.inode_count
    IN  (Fsck(inodes, count, bitmap) = 0) <=> FsckClean(inodes, count, bitmap)

(* On an image that was clean when mounted, the metadata in memory stays   *)
(* clean through every operation, also those that fail for lack of space   *)
(* or because a transfer fails half-way.                                   *)
MemoryClean ==
  available /\ ~ suspect => FsckClean(inodes, superblock.inode_count, bitmap)

(* The marker covers every change: no inode, bitmap bit or inode count     *)
(* reaches the disk unless the disk already says that an operation is in   *)
(* progress.  This also holds for what earlier failures left in the cache. *)
MarkerCoversChanges ==
  [][\/ disk[SUPER].journal_state = 1
     \/ /\ \A s \in InodeSectors \cup {BITMAP} : disk'[s] = disk[s]
        /\ disk'[SUPER].inode_count = disk[SUPER].inode_count]_vars

(* An image without the marker is clean: power may be lost at any point    *)
(* and a mount that finds no marker finds consistent metadata.  It assumes *)
(* that no transfer failed: after a failure the next operation clears the  *)
(* marker although sectors of the failed one may be missing.               *)
CleanMarkerMeansClean ==
  ~ suspect /\ ~ io_failed /\ disk[SUPER].journal_state = 0 =>
    FsckClean(InodesIn(disk), disk[SUPER].inode_count, disk[BITMAP])

(* Between two calls, if no transfer failed, everything is durable: the    *)
(* cache holds nothing back and the disk holds the metadata in memory,     *)
(* without the marker.  On an image that was clean when mounted the list   *)
(* the GUI and the shell show is the list of the files.                    *)
DurableWhenIdle ==
  pc = "idle" /\ available /\ ~ io_failed =>
    /\ dirty = {}
    /\ disk[SUPER] = superblock /\ superblock.journal_state = 0
    /\ disk[BITMAP] = bitmap
    /\ InodesIn(disk) = inodes
    /\ ~ suspect => listed = Listing(inodes, superblock.inode_count)

(* What path would read as if power were lost now. *)
AfterCrash(path) == ReadPath(InodesIn(disk), disk[SUPER].inode_count, disk, path)

Trusted == ~ suspect /\ ~ io_failed /\ pc # "mount"

SamePath(p, q) == Parts(p) = Parts(q)

(* Power loss during an operation never harms a file the operation does    *)
(* not name: after it, the file reads as it did before the operation.      *)
OthersSurviveCrash ==
  Trusted =>
    \A p \in Paths :
      ~ SamePath(p, request.path) /\ ~ SamePath(p, request.to) =>
        AfterCrash(p) = files[p]

(* The request overwrites sectors the file already occupies. *)
InPlace ==
  /\ request.call = "write"
  /\ files[request.path] # NoFile
  /\ SectorsForSize(Len(request.buffer)) =< SectorsForSize(Len(files[request.path]))

(* An operation that does not overwrite a file in place is atomic with     *)
(* respect to power loss: afterwards the paths it names read all as before *)
(* or all as after the operation.                                          *)
ChangeIsAtomic ==
  Trusted /\ request # NoRequest /\ ~ InPlace =>
    \/ AfterCrash(request.path) = files[request.path] /\ AfterCrash(request.to) = files[request.to]
    \/ /\ request.call = "write" /\ AfterCrash(request.path) = request.buffer
    \/ /\ request.call = "delete" /\ AfterCrash(request.path) = NoFile
    \/ /\ request.call = "rename" /\ AfterCrash(request.path) = NoFile
       /\ AfterCrash(request.to) = files[request.path]

(* Every call returns, and every mount ends, even when transfers fail. *)
EveryCallReturns == pc # "idle" ~> pc = "idle"

Abstract == INSTANCE FileStore

(* Without crashes and failing transfers, what the paths read as between   *)
(* two calls changes exactly as the abstract file store says.              *)
ImplementsFileStore == Abstract!FileStoreSpec

(* A mount that accepts an image found no two files sharing a sector.      *)
MountRejectsOverlap ==
  [][pc = "mount" /\ available' =>
       \A i, j \in LiveFiles(inodes', superblock'.inode_count) :
         i # j => ExtentOf(inodes', i) \cap ExtentOf(inodes', j) = {}]_vars

(* A mount that cleared the marker of an interrupted operation left a file *)
(* system that diskfs_fsck calls clean.                                    *)
RecoveredIsClean ==
  [][pc = "recover" /\ pc' = "idle" =>
       Fsck(inodes', superblock'.inode_count, bitmap') = 0]_vars

(* A write to a path with a component that is too long is refused. *)
LongNamesRefused ==
  request.call = "write" => \A k \in 1 .. Len(request.path) : request.path[k] \notin LongNames

(* A write that returned TRUE can be read back under its path. *)
WriteReadsBack ==
  [][request.call = "write" /\ request' = NoRequest /\ ret' =>
       files'[request.path] = request.buffer]_vars
==============================================================================
