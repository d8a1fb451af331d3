--------------------------- MODULE DiskFSMutations ---------------------------
(***************************************************************************)
(* The calls of DiskFS, and the changes they make to the metadata in       *)
(* memory, keep its invariant.                                             *)
(***************************************************************************)
EXTENDS DiskFSInvariant

(***************************************************************************)
(* Calls.                                                                  *)
(***************************************************************************)

(* A step that leaves all but the result and the counters alone. *)
LEMMA QuietKeepsIInv ==
  ASSUME IInv, ret' \in BOOLEAN,
         UNCHANGED <<disk, view, dirty, memVars, pc, ioVars, op, io_failed, suspect>>
  PROVE  IInv'
<1>1. Flushing' = Flushing
  BY DEF memVars, ioVars, Flushing, StepLength
<1>2. TypeOK'
  BY <1>1 DEF IInv, TypeOK, memVars, ioVars
<1>3. OpInv'
  BY DEF IInv, OpInv, memVars
<1>4. StoreInv'
  BY <1>1 DEF IInv, StoreInv, memVars, ioVars
<1>5. MemInv'
  BY DEF IInv, MemInv, memVars
<1>6. DiskInv'
  <2>1. Trust' = Trust
    BY DEF Trust
  <2>2. StepInv' = StepInv
    BY DEF StepInv, memVars, ioVars
  <2> QED
    BY <2>1, <2>2 DEF IInv, DiskInv, memVars
<1> QED
  BY <1>2, <1>3, <1>4, <1>5, <1>6 DEF IInv

LEMMA RefuseKeepsIInv ==
  ASSUME IInv, NEW value \in BOOLEAN, Refuse(value)
  PROVE  IInv'
BY QuietKeepsIInv DEF Refuse, histVars

(* begin_transaction, with the local variables an operation starts with. *)
LEMMA BeginKeepsIInv ==
  ASSUME IInv, pc = "idle", NEW req, NEW locals, OpType(locals), Begin(locals, req),
         locals.kind \in {"write", "delete", "rename"},
         locals.index \in LiveFiles(inodes, superblock.inode_count)
           \/ (locals.kind = "write" /\ locals.index = -1),
         locals.kind \in {"write", "rename"} => locals.parent \in InodeIds
  PROVE  IInv'
<1>1. /\ superblock \in Superblock
      /\ superblock' = [superblock EXCEPT !.journal_state = 1]
      /\ pc' = "begin" /\ op' = locals /\ written' = written /\ written = 0
      /\ UNCHANGED <<disk, view, dirty, inodes, bitmap, available, todo, flush_ok, ret,
                     io_failed, suspect>>
  BY DEF IInv, TypeOK, StoreInv, Begin, ioVars, histVars, IOSteps
<1>2. /\ superblock' \in Superblock
      /\ superblock'.inode_count = superblock.inode_count
      /\ superblock'.journal_state = 1
  BY <1>1 DEF Superblock
<1>3. ~ Flushing'
  BY <1>1 DEF Flushing, StepLength
<1>4. TypeOK'
  BY <1>1, <1>2, <1>3 DEF IInv, TypeOK, Steps, IOSteps
<1>5. OpInv'
  BY <1>1, <1>2 DEF OpInv
<1>6. StoreInv'
  BY <1>1, <1>3 DEF IInv, StoreInv, IOSteps
<1>7. MemInv'
  BY <1>1, <1>2 DEF IInv, MemInv
<1>8. DiskInv'
  <2>1. Trust' = Trust
    BY <1>1 DEF Trust
  <2>2. ASSUME Trust
        PROVE  /\ Synced(disk', inodes', superblock', bitmap', pc', op')
               /\ Synced(view', inodes', superblock', bitmap', pc', op')
               /\ dirty = {}
    <3>1. /\ Synced(disk, inodes, superblock, bitmap, "idle", op)
          /\ Synced(view, inodes, superblock, bitmap, "idle", op)
          /\ dirty = {}
      BY <2>2 DEF IInv, DiskInv, StepInv
    <3> QED
      BY <1>1, <1>2, <3>1 DEF Synced
  <2>3. Trust => StepInv'
    BY <1>1, <2>2 DEF StepInv
  <2> QED
    BY <1>1, <2>1, <2>2, <2>3 DEF DiskInv
<1> QED
  BY <1>4, <1>5, <1>6, <1>7, <1>8 DEF IInv

LEMMA EnterWriteFileKeepsIInv ==
  ASSUME IInv, pc = "idle", NEW path, NEW buffer, Len(buffer) \in Nat, NEW req,
         EnterWriteFile(path, buffer, req)
  PROVE  IInv'
<1> DEFINE count == superblock.inode_count
           parent == ParentDir(inodes, count, path)
           leaf == Leaf(path)
           child == FindChild(inodes, count, parent, leaf, {FILE})
           locals == Locals("write", child, parent, leaf, buffer)
<1> HIDE DEF count, parent, leaf, child
<1>1. CASE Refuse(FALSE)
  BY <1>1, RefuseKeepsIInv, Zenon
<1>2. CASE parent \in InodeIds /\ leaf \in Names /\ Begin(locals, req)
  <2>1. child = -1 \/ child \in LiveFiles(inodes, count)
    <3>1. child = -1 \/ (child \in InodeIds /\ child < count /\ inodes[child].type \in {FILE})
      BY FindChildRange DEF child
    <3> QED
      BY <3>1 DEF LiveFiles
  <2>2. child \in InodeIds \cup {-1}
    BY <2>1 DEF LiveFiles
  <2>3. /\ OpType(locals) /\ locals.kind = "write"
        /\ locals.index = child /\ locals.parent = parent
    BY <1>2, <2>2, Zenon DEF OpType, Locals
  <2> HIDE DEF locals
  <2> QED
    BY <1>2, <2>1, <2>3, BeginKeepsIInv DEF count
<1> QED
  BY <1>1, <1>2, Zenon DEF EnterWriteFile, NameValid, count, parent, leaf, child

LEMMA TruncateKeepsIInv ==
  ASSUME IInv, pc = "idle", NEW path, NEW size \in Nat, NEW readable,
         Truncate(path, size, readable)
  PROVE  IInv'
<1> DEFINE i == Find(path)
           old == ReadIndex(inodes, view, i, readable)
           buffer == IF i < 0 \/ size = 0 THEN <<>> ELSE Resize(old, size)
           req == [call |-> "write", path |-> path, to |-> path, buffer |-> buffer]
<1>1. CASE Refuse(FALSE) \/ Refuse(TRUE)
  BY <1>1, RefuseKeepsIInv, Zenon
<1>2. CASE EnterWriteFile(path, req.buffer, req)
  <2>1. Len(Resize(old, size)) = size
    BY DEF Resize
  <2>2. Len(buffer) \in Nat /\ req.buffer = buffer
    BY <2>1
  <2> HIDE DEF buffer, req
  <2> QED
    BY <1>2, <2>2, EnterWriteFileKeepsIInv
<1> QED
  BY <1>1, <1>2, Zenon DEF Truncate

LEMMA CallsKeepIInv ==
  ASSUME IInv, Calls
  PROVE  IInv'
<1> DEFINE count == superblock.inode_count
<1>1. ASSUME NEW p \in Paths, NEW b \in Buffers, WriteFile(p, b) PROVE IInv'
  <2>1. b \in Seq(Nat)
    BY CallAssumption, Zenon
  <2>2. Len(b) \in Nat
    BY <2>1
  <2> QED
    BY <1>1, <2>2, EnterWriteFileKeepsIInv DEF WriteFile, StartOp
<1>2. \A p : Find(p) \in LiveFiles(inodes, count) \cup {-1}
  BY FindFileRange DEF Find
<1>3. \A p : Find(p) \in InodeIds \cup {-1}
  BY <1>2 DEF LiveFiles
<1>4. ASSUME NEW p \in Paths, DeleteFile(p) PROVE IInv'
  <2> DEFINE locals == Locals("delete", Find(p), -1, "", <<>>)
             req == [call |-> "delete", path |-> p, to |-> p, buffer |-> <<>>]
  <2>1. CASE Refuse(FALSE)
    BY <2>1, RefuseKeepsIInv, Zenon
  <2>2. CASE ~ (Find(p) < 0) /\ Begin(locals, req)
    <3>1. Find(p) \in LiveFiles(inodes, count)
      <4>1. ~ (Find(p) < 0)
        BY <2>2, Zenon
      <4> QED
        BY <1>2, <4>1
    <3>2. Len(<<>>) \in Nat
      OBVIOUS
    <3>3. OpType(locals) /\ locals.kind = "delete" /\ locals.index = Find(p)
      BY <1>3, <3>2 DEF OpType, Locals
    <3> HIDE DEF locals, req
    <3> QED
      BY <1>4, <2>2, <3>1, <3>3, BeginKeepsIInv, Zenon DEF DeleteFile, StartOp
  <2> QED
    BY <1>4, <2>1, <2>2, Zenon DEF DeleteFile
<1>5. ASSUME NEW p \in Paths, NEW q \in Paths, RenameFile(p, q) PROVE IInv'
  <2> DEFINE parent == ParentDir(inodes, count, q)
             locals == Locals("rename", Find(p), parent, Leaf(q), <<>>)
             req == [call |-> "rename", path |-> p, to |-> q, buffer |-> <<>>]
  <2> HIDE DEF parent
  <2>1. CASE Refuse(FALSE)
    BY <2>1, RefuseKeepsIInv, Zenon
  <2>2. CASE /\ ~ (Find(p) < 0) /\ parent \in InodeIds /\ Leaf(q) \in Names
             /\ Begin(locals, req)
    <3>1. Find(p) \in LiveFiles(inodes, count)
      BY <1>2, <2>2
    <3>2. Len(<<>>) \in Nat
      OBVIOUS
    <3>3. /\ OpType(locals) /\ locals.kind = "rename" /\ locals.index = Find(p)
          /\ locals.parent = parent
      BY <1>3, <2>2, <3>2, Zenon DEF OpType, Locals
    <3> HIDE DEF locals, req
    <3> QED
      BY <1>5, <2>2, <3>1, <3>3, BeginKeepsIInv DEF RenameFile, StartOp
  <2> QED
    BY <1>5, <2>1, <2>2, Zenon DEF RenameFile, NameValid, parent
<1>6. ASSUME NEW p \in Paths, NEW n \in Sizes, TruncateFile(p, n) PROVE IInv'
  BY <1>6, TruncateKeepsIInv, CallAssumption, Zenon DEF TruncateFile, StartOp
<1>7. ASSUME NEW p \in Paths, NEW n \in Sizes, TruncateFileReadFails(p, n) PROVE IInv'
  BY <1>7, TruncateKeepsIInv, CallAssumption, Zenon DEF TruncateFileReadFails
<1> QED
  BY <1>1, <1>4, <1>5, <1>6, <1>7 DEF Calls

------------------------------------------------------------------------------
(***************************************************************************)
(* The changes in memory.                                                  *)
(***************************************************************************)

(* What the five mutations have in common: at most the inode of the        *)
(* operation changes, and clean metadata stays clean.                      *)
MutationStep(k) ==
  /\ pc = "mutate" /\ pc' = k /\ k \in {"data", "inode", "commit"} /\ written' = 0
  /\ UNCHANGED <<disk, view, dirty, available, ret, flush_ok, io_failed, suspect>>
  /\ superblock' \in Superblock
  /\ superblock'.journal_state = (IF k = "commit" THEN 0 ELSE superblock.journal_state)
  /\ inodes' \in [InodeIds -> Inode]
  /\ bitmap' \subseteq Sectors
  /\ OpInv'
  /\ Good(inodes, superblock.inode_count, bitmap) =>
       Good(inodes', superblock'.inode_count, bitmap')
  /\ \A i \in InodeIds : i # op'.index \/ k = "commit" => inodes'[i] = inodes[i]
  /\ k = "commit" \/ (k = "inode" /\ op'.kind = "rename") => bitmap' = bitmap

LEMMA MutationStepKeepsIInv ==
  ASSUME IInv, NEW k, MutationStep(k)
  PROVE  IInv'
<1>1. StepLength' # 0
  <2>1. Len(op'.buffer) \in Nat
    BY Zenon DEF MutationStep, OpInv, OpType
  <2>2. SectorsForSize(Len(op'.buffer)) # 0
    BY <2>1, SectorsForSizeType
  <2> QED
    BY <2>2 DEF MutationStep, StepLength
<1>2. ~ Flushing'
  BY <1>1 DEF Flushing, MutationStep
<1>3. TypeOK'
  BY <1>2 DEF IInv, TypeOK, MutationStep, Steps, IOSteps
<1>4. OpInv'
  BY DEF MutationStep
<1>5. StoreInv'
  BY <1>2 DEF IInv, StoreInv, MutationStep
<1>6. MemInv'
  BY DEF IInv, MemInv, MutationStep
<1>7. DiskInv'
  <2>1. Trust' = Trust
    BY DEF Trust, MutationStep
  <2>2. ASSUME Trust
        PROVE  /\ Synced(disk', inodes', superblock', bitmap', pc', op')
               /\ Synced(view', inodes', superblock', bitmap', pc', op')
               /\ dirty = {}
    <3>1. /\ Synced(disk, inodes, superblock, bitmap, "mutate", op)
          /\ Synced(view, inodes, superblock, bitmap, "mutate", op)
          /\ dirty = {}
      BY <2>2 DEF IInv, DiskInv, StepInv, MutationStep
    <3>2. ASSUME NEW img, Synced(img, inodes, superblock, bitmap, "mutate", op)
          PROVE  Synced(img, inodes', superblock', bitmap', pc', op')
      BY <3>2 DEF Synced, MutationStep
    <3> QED
      BY <3>1, <3>2 DEF MutationStep
  <2>3. Trust => StepInv'
    BY <2>2 DEF StepInv, MutationStep
  <2> QED
    BY <2>1, <2>2, <2>3 DEF DiskInv, MutationStep
<1> QED
  BY <1>3, <1>4, <1>5, <1>6, <1>7 DEF IInv

(* What every mutation starts from. *)
LEMMA MutateFacts ==
  ASSUME IInv, pc = "mutate"
  PROVE  /\ superblock \in Superblock /\ superblock.inode_count \in 0 .. MAX_INODES
         /\ superblock.inode_count \in Nat
         /\ inodes \in [InodeIds -> Inode] /\ bitmap \subseteq Sectors
         /\ OpType(op)
         /\ op.kind \in {"write", "delete", "rename"}
         /\ op.index \in LiveFiles(inodes, superblock.inode_count)
              \/ (op.kind = "write" /\ op.index = -1)
         /\ op.kind \in {"write", "rename"} => op.parent \in InodeIds
<1>1. superblock \in Superblock
  BY DEF IInv, TypeOK
<1>2. superblock.inode_count \in 0 .. MAX_INODES /\ superblock.inode_count \in Nat
  BY <1>1, LayoutAssumption DEF Superblock
<1> QED
  BY <1>1, <1>2 DEF IInv, TypeOK, OpInv

(* An operation that gives up keeps its inode and its bits. *)
LEMMA GiveUpKeepsIInv ==
  ASSUME IInv, pc = "mutate", NEW count \in 0 .. MAX_INODES,
         superblock.inode_count =< count, GiveUp(count)
  PROVE  IInv'
<1>1. /\ superblock' = [inode_count |-> count, journal_state |-> 0]
      /\ op' = [op EXCEPT !.ok = FALSE]
      /\ pc' = "commit" /\ written' = 0
      /\ UNCHANGED <<disk, view, dirty, available, ret, flush_ok, io_failed, suspect,
                     inodes, bitmap>>
  BY DEF GiveUp, Proceed, Enter, histVars
<1>2. superblock' \in Superblock /\ superblock'.journal_state = 0
      /\ superblock'.inode_count = count
  BY <1>1 DEF Superblock
<1>3. OpInv'
  <2>1. OpType(op')
    BY <1>1, MutateFacts, Zenon DEF OpType
  <2> QED
    BY <1>1, <2>1 DEF OpInv
<1>4. Good(inodes, superblock.inode_count, bitmap) => Good(inodes, count, bitmap)
  BY MutateFacts, RaiseKeepsGood, LayoutAssumption
<1>5. MutationStep("commit")
  BY <1>1, <1>2, <1>3, <1>4, MutateFacts DEF MutationStep
<1> QED
  BY <1>5, MutationStepKeepsIInv

LEMMA ZeroInodeType == ZeroInode \in Inode /\ ZeroInode.type = FREE /\ FREE # FILE
<1>1. 0 \in InodeIds
  BY LayoutAssumption DEF InodeIds
<1>2. ZeroInode \in [type : {FREE, FILE, DIR}, parent : InodeIds, name : Names \cup {""},
                    size : Nat, first_sector : Nat, sector_count : Nat]
  BY <1>1 DEF ZeroInode
<1>3. ZeroInode.type = FREE /\ FREE # FILE
  BY DEF ZeroInode, FREE, FILE
<1> QED
  BY <1>2, <1>3, Zenon DEF Inode

(* A file in another extent is a file in the data area. *)
LEMMA ResizedType ==
  ASSUME NEW inode \in Inode, inode.type = FILE, NEW f \in Nat, NEW n \in Nat \ {0},
         NEW size \in Nat, f >= DATA_START, f + n =< TOTAL_SECTORS
  PROVE  /\ Resized(inode, f, n, size) \in Inode
         /\ Resized(inode, f, n, size).type = FILE
         /\ Resized(inode, f, n, size).first_sector = f
         /\ Resized(inode, f, n, size).sector_count = n
<1> DEFINE x == Resized(inode, f, n, size)
<1>1. /\ x.type = inode.type /\ x.first_sector = f /\ x.sector_count = n
  BY DEF Resized
<1>2. inode \in [type : {FREE, FILE, DIR}, parent : InodeIds, name : Names \cup {""},
                size : Nat, first_sector : Nat, sector_count : Nat]
  BY Zenon DEF Inode
<1>3. x \in [type : {FREE, FILE, DIR}, parent : InodeIds, name : Names \cup {""},
            size : Nat, first_sector : Nat, sector_count : Nat]
  BY <1>2, Zenon DEF Resized
<1>4. InDataArea(x)
  BY <1>1 DEF InDataArea
<1> HIDE DEF x
<1>5. x \in Inode
  BY <1>3, <1>4, Zenon DEF Inode
<1> QED
  BY <1>1, <1>5 DEF x

(* A free run lies in the data area, where no bit is set. *)
LEMMA FirstFitFacts ==
  ASSUME NEW f \in DataSectors, NEW n \in Nat \ {0}, IsFirstFit(f, n)
  PROVE  /\ f \in Nat /\ f >= DATA_START /\ f + n =< TOTAL_SECTORS
         /\ Extent(f, n) \subseteq Sectors
         /\ Extent(f, n) \cap bitmap = {}
<1>1. /\ f \in Nat /\ f >= DATA_START /\ f + n =< TOTAL_SECTORS
      /\ \A s \in Extent(f, n) : s \notin bitmap
  BY LayoutAssumption DEF DataSectors, IsFirstFit, FirstFit, FreeRun
<1>2. Extent(f, n) \subseteq Sectors
  BY <1>1, LayoutAssumption DEF Extent, Sectors
<1> QED
  BY <1>1, <1>2

(* On clean metadata the sectors of a file are marked. *)
LEMMA FileMarked ==
  ASSUME NEW ino, NEW count, NEW bits, Good(ino, count, bits),
         NEW i \in LiveFiles(ino, count)
  PROVE  ExtentOf(ino, i) \subseteq bits
<1>1. \A s : s \in bits <=> Covered(ino, count, s)
  BY BitsPointwise DEF Good, FsckClean
<1> QED
  BY <1>1 DEF Covered

LEMMA GrowKeepsIInv ==
  ASSUME IInv, Grow
  PROVE  IInv'
<1> DEFINE i == op.index
           count == superblock.inode_count
           n == SectorsForSize(Len(op.buffer))
<1>1. pc = "mutate" /\ op.kind = "write" /\ op.index >= 0
  BY DEF Grow
<1>2. i \in LiveFiles(inodes, count) /\ i \in InodeIds /\ inodes[i] \in Inode
      /\ inodes[i].type = FILE /\ i < count /\ count \in Nat /\ Len(op.buffer) \in Nat
  <2>1. op.index # -1 /\ OpType(op)
    BY <1>1, MutateFacts
  <2>2. i \in LiveFiles(inodes, count) /\ count \in Nat /\ inodes \in [InodeIds -> Inode]
    BY <1>1, <2>1, MutateFacts
  <2>3. Len(op.buffer) \in Nat
    BY <2>1, Zenon DEF OpType
  <2> QED
    BY <2>2, <2>3 DEF LiveFiles
<1>3. n \in Nat \ {0}
  BY <1>2, SectorsForSizeType
<1>4. CASE NoRoom(n) /\ GiveUp(superblock.inode_count)
  <2>1. count \in 0 .. MAX_INODES /\ count =< count
    BY <1>1, MutateFacts
  <2> QED
    BY <1>1, <1>4, <2>1, GiveUpKeepsIInv
<1>5. ASSUME NEW f \in DataSectors, IsFirstFit(f, n),
             bitmap' = (bitmap \cup Extent(f, n)) \ ExtentOf(inodes, i),
             inodes' = [inodes EXCEPT ![i] = Resized(inodes[i], f, n, Len(op.buffer))],
             Proceed("data"), UNCHANGED <<superblock, op>>
      PROVE  IInv'
  <2> DEFINE x == Resized(inodes[i], f, n, Len(op.buffer))
  <2> HIDE DEF n
  <2>1. /\ f \in Nat /\ f >= DATA_START /\ f + n =< TOTAL_SECTORS
        /\ Extent(f, n) \subseteq Sectors /\ Extent(f, n) \cap bitmap = {}
    BY <1>3, <1>5, FirstFitFacts
  <2>2. /\ x \in Inode /\ x.type = FILE /\ x.first_sector = f /\ x.sector_count = n
    BY <1>2, <1>3, <2>1, ResizedType
  <2> HIDE DEF x
  <2>3. inodes' = [inodes EXCEPT ![i] = x]
    BY <1>5 DEF x
  <2>4. ASSUME Good(inodes, count, bitmap) PROVE Good(inodes', count, bitmap')
    <3>1. ExtentOf(inodes, i) \subseteq bitmap
      BY <1>2, <2>4, FileMarked
    <3>2. bitmap' = (bitmap \ ExtentOf(inodes, i)) \cup Extent(f, n)
      BY <1>5, <2>1, <3>1
    <3>3. Extent(f, n) \cap (bitmap \ ExtentOf(inodes, i)) = {}
      BY <2>1
    <3> DEFINE Old == ExtentOf(inodes, i)
               New == Extent(f, n)
    <3>4. Old = IF i \in LiveFiles(inodes, count) THEN ExtentOf(inodes, i) ELSE {}
      BY <1>2
    <3>5. New = IF x.type = FILE THEN Extent(x.first_sector, x.sector_count) ELSE {}
      BY <2>2
    <3>6. inodes \in [InodeIds -> Inode]
      BY <1>1, MutateFacts
    <3>7. count =< count /\ (x.type = FILE => i < count) /\ (count <= i => x.type = FREE)
      BY <1>2 DEF InodeIds
    <3> HIDE DEF Old, New
    <3> QED
      BY <1>2, <2>2, <2>3, <2>4, <3>2, <3>3, <3>4, <3>5, <3>6, <3>7, ReplaceKeepsGood, Zenon
      DEF Old, New
  <2>5. inodes' \in [InodeIds -> Inode] /\ bitmap' \subseteq Sectors
        /\ inodes'[i] = x /\ \A j \in InodeIds : j # i => inodes'[j] = inodes[j]
    BY <1>1, <1>2, <1>5, <2>1, <2>2, <2>3, MutateFacts
  <2>6. OpInv'
    <3>1. OpType(op') /\ pc' = "data" /\ op' = op
      BY <1>1, <1>5, MutateFacts DEF Proceed, Enter
    <3> QED
      BY <1>1, <1>2, <2>2, <2>5, <3>1 DEF OpInv, n
  <2>7. MutationStep("data")
    BY <1>1, <1>5, <2>4, <2>5, <2>6, MutateFacts DEF MutationStep, Proceed, Enter, histVars
  <2> QED
    BY <2>7, MutationStepKeepsIInv
<1> QED
  BY <1>4, <1>5 DEF Grow

LEMMA OverwriteKeepsIInv ==
  ASSUME IInv, Overwrite
  PROVE  IInv'
<1> DEFINE i == op.index
           count == superblock.inode_count
           n == SectorsForSize(Len(op.buffer))
           f == inodes[i].first_sector
           m == inodes[i].sector_count
           x == Resized(inodes[i], f, n, Len(op.buffer))
<1>1. pc = "mutate" /\ op.kind = "write" /\ op.index >= 0
  BY DEF Overwrite
<1>2. i \in LiveFiles(inodes, count) /\ i \in InodeIds /\ inodes[i] \in Inode
      /\ inodes[i].type = FILE /\ i < count /\ count \in Nat /\ Len(op.buffer) \in Nat
  <2>1. op.index # -1 /\ OpType(op)
    BY <1>1, MutateFacts
  <2>2. i \in LiveFiles(inodes, count) /\ count \in Nat /\ inodes \in [InodeIds -> Inode]
    BY <1>1, <2>1, MutateFacts
  <2>3. Len(op.buffer) \in Nat
    BY <2>1, Zenon DEF OpType
  <2> QED
    BY <2>2, <2>3 DEF LiveFiles
<1>3. n \in Nat \ {0}
  BY <1>2, SectorsForSizeType
<1>4. /\ n =< m
      /\ bitmap' = bitmap \ Extent(f + n, m - n)
      /\ inodes' = [inodes EXCEPT ![i] = x]
      /\ Proceed("data") /\ UNCHANGED <<superblock, op>>
  BY DEF Overwrite
<1> HIDE DEF n
<1>5. /\ f \in Nat /\ m \in Nat /\ f >= DATA_START /\ f + m =< TOTAL_SECTORS
  BY <1>2, Zenon DEF Inode, InDataArea
<1>6. f + n =< TOTAL_SECTORS
  BY <1>3, <1>4, <1>5, LayoutAssumption
<1>7. x \in Inode /\ x.type = FILE /\ x.first_sector = f /\ x.sector_count = n
  BY <1>2, <1>3, <1>5, <1>6, ResizedType
<1> HIDE DEF x
<1>8. ASSUME Good(inodes, count, bitmap) PROVE Good(inodes', count, bitmap')
  <2> DEFINE Old == ExtentOf(inodes, i)
             New == Extent(f, n)
  <2>1. Old \subseteq bitmap
    BY <1>2, <1>8, FileMarked
  <2>2. \A s : s \in Old <=> s \in f .. (f + m - 1)
    BY DEF ExtentOf, Extent
  <2>3. New \subseteq Old /\ Extent(f + n, m - n) = Old \ New
    BY <1>3, <1>4, <1>5 DEF ExtentOf, Extent
  <2>4. Old = IF i \in LiveFiles(inodes, count) THEN ExtentOf(inodes, i) ELSE {}
    BY <1>2
  <2>5. New = IF x.type = FILE THEN Extent(x.first_sector, x.sector_count) ELSE {}
    BY <1>7
  <2>6. inodes \in [InodeIds -> Inode]
    BY <1>1, MutateFacts
  <2>7. count =< count /\ (x.type = FILE => i < count) /\ (count <= i => x.type = FREE)
    BY <1>2 DEF InodeIds
  <2> HIDE DEF Old, New
  <2>8. bitmap' = (bitmap \ Old) \cup New /\ New \cap (bitmap \ Old) = {}
    BY <1>4, <2>1, <2>3
  <2> QED
    BY <1>2, <1>4, <1>7, <1>8, <2>4, <2>5, <2>6, <2>7, <2>8, ReplaceKeepsGood, Zenon
<1>9. inodes' \in [InodeIds -> Inode] /\ bitmap' \subseteq Sectors
      /\ inodes'[i] = x /\ \A j \in InodeIds : j # i => inodes'[j] = inodes[j]
  BY <1>1, <1>2, <1>4, <1>7, MutateFacts
<1>10. OpInv'
  <2>1. OpType(op') /\ pc' = "data" /\ op' = op
    BY <1>1, <1>4, MutateFacts DEF Proceed, Enter
  <2> QED
    BY <1>1, <1>2, <1>7, <1>9, <2>1 DEF OpInv, n
<1>11. MutationStep("data")
  BY <1>1, <1>4, <1>8, <1>9, <1>10, MutateFacts DEF MutationStep, Proceed, Enter, histVars
<1> QED
  BY <1>11, MutationStepKeepsIInv

LEMMA UnlinkKeepsIInv ==
  ASSUME IInv, Unlink
  PROVE  IInv'
<1> DEFINE i == op.index
           count == superblock.inode_count
<1>1. pc = "mutate" /\ op.kind = "delete"
  BY DEF Unlink
<1>2. i \in LiveFiles(inodes, count) /\ i \in InodeIds /\ count \in Nat
  BY <1>1, MutateFacts DEF LiveFiles
<1>3. /\ bitmap' = bitmap \ ExtentOf(inodes, i)
      /\ inodes' = [inodes EXCEPT ![i] = ZeroInode]
      /\ Proceed("inode") /\ UNCHANGED <<superblock, op>>
  BY DEF Unlink
<1>4. ZeroInode \in Inode /\ ZeroInode.type = FREE /\ FREE # FILE
  BY ZeroInodeType
<1>5. ASSUME Good(inodes, count, bitmap) PROVE Good(inodes', count, bitmap')
  <2> DEFINE Old == ExtentOf(inodes, i)
             New == {}
             x == ZeroInode
  <2>1. Old = IF i \in LiveFiles(inodes, count) THEN ExtentOf(inodes, i) ELSE {}
    BY <1>2
  <2>2. New = IF x.type = FILE THEN Extent(x.first_sector, x.sector_count) ELSE {}
    BY <1>4
  <2>3. inodes \in [InodeIds -> Inode]
    BY <1>1, MutateFacts
  <2>4. count =< count /\ (x.type = FILE => i < count) /\ (count <= i => x.type = FREE)
    BY <1>2, <1>4
  <2>5. bitmap' = (bitmap \ Old) \cup New /\ New \cap (bitmap \ Old) = {}
    BY <1>3
  <2>6. inodes' = [inodes EXCEPT ![i] = x] /\ x \in Inode
    BY <1>3, <1>4
  <2> HIDE DEF Old, New, x
  <2> QED
    BY <1>2, <1>5, <2>1, <2>2, <2>3, <2>4, <2>5, <2>6, ReplaceKeepsGood, Zenon
<1>6. inodes' \in [InodeIds -> Inode] /\ bitmap' \subseteq Sectors
      /\ \A j \in InodeIds : j # i => inodes'[j] = inodes[j]
  BY <1>1, <1>2, <1>3, <1>4, MutateFacts
<1>7. OpInv'
  BY <1>1, <1>2, <1>3, MutateFacts DEF OpInv, Proceed, Enter
<1>8. MutationStep("inode")
  BY <1>1, <1>3, <1>5, <1>6, <1>7, MutateFacts DEF MutationStep, Proceed, Enter, histVars
<1> QED
  BY <1>8, MutationStepKeepsIInv

LEMMA RelinkKeepsIInv ==
  ASSUME IInv, Relink
  PROVE  IInv'
<1> DEFINE i == op.index
           count == superblock.inode_count
           x == Renamed(inodes[i], op.parent, op.leaf)
<1>1. pc = "mutate" /\ op.kind = "rename"
  BY DEF Relink
<1>2. i \in LiveFiles(inodes, count) /\ i \in InodeIds /\ count \in Nat
      /\ inodes[i] \in Inode /\ inodes[i].type = FILE /\ i < count
  BY <1>1, MutateFacts DEF LiveFiles
<1>3. /\ inodes' = [inodes EXCEPT ![i] = x]
      /\ Proceed("inode") /\ UNCHANGED <<superblock, bitmap, op>>
  BY DEF Relink
<1>4. op.parent \in InodeIds /\ op.leaf \in Names
  BY <1>1, MutateFacts, Zenon DEF OpType
<1>5. x \in Inode /\ x.type = FILE /\ x.first_sector = inodes[i].first_sector
      /\ x.sector_count = inodes[i].sector_count
  <2>1. /\ x.type = FILE /\ x.first_sector = inodes[i].first_sector
        /\ x.sector_count = inodes[i].sector_count
    BY <1>2 DEF Renamed
  <2>2. /\ inodes[i] \in [type : {FREE, FILE, DIR}, parent : InodeIds, name : Names \cup {""},
                          size : Nat, first_sector : Nat, sector_count : Nat]
        /\ InDataArea(inodes[i])
    BY <1>2, Zenon DEF Inode
  <2>3. x \in [type : {FREE, FILE, DIR}, parent : InodeIds, name : Names \cup {""},
               size : Nat, first_sector : Nat, sector_count : Nat]
    BY <1>4, <2>2, Zenon DEF Renamed
  <2>4. InDataArea(x)
    BY <2>1, <2>2, Zenon DEF InDataArea
  <2> HIDE DEF x
  <2> QED
    BY <2>1, <2>3, <2>4, Zenon DEF Inode
<1> HIDE DEF x
<1>6. ASSUME Good(inodes, count, bitmap) PROVE Good(inodes', count, bitmap')
  <2> DEFINE Old == ExtentOf(inodes, i)
             New == ExtentOf(inodes, i)
  <2>1. Old \subseteq bitmap
    BY <1>2, <1>6, FileMarked
  <2>2. Old = IF i \in LiveFiles(inodes, count) THEN ExtentOf(inodes, i) ELSE {}
    BY <1>2
  <2>3. New = IF x.type = FILE THEN Extent(x.first_sector, x.sector_count) ELSE {}
    BY <1>5 DEF ExtentOf
  <2>4. inodes \in [InodeIds -> Inode]
    BY <1>1, MutateFacts
  <2>5. count =< count /\ (x.type = FILE => i < count) /\ (count <= i => x.type = FREE)
    BY <1>2 DEF InodeIds
  <2>6. bitmap' = (bitmap \ Old) \cup New /\ New \cap (bitmap \ Old) = {}
    BY <1>3, <2>1
  <2> HIDE DEF Old, New
  <2> QED
    BY <1>2, <1>3, <1>5, <1>6, <2>2, <2>3, <2>4, <2>5, <2>6, ReplaceKeepsGood, Zenon
<1>7. inodes' \in [InodeIds -> Inode] /\ bitmap' \subseteq Sectors
      /\ \A j \in InodeIds : j # i => inodes'[j] = inodes[j]
  BY <1>1, <1>2, <1>3, <1>5, MutateFacts
<1>8. OpInv'
  BY <1>1, <1>2, <1>3, MutateFacts DEF OpInv, Proceed, Enter
<1>9. MutationStep("inode")
  BY <1>1, <1>3, <1>6, <1>7, <1>8, MutateFacts DEF MutationStep, Proceed, Enter, histVars
<1> QED
  BY <1>9, MutationStepKeepsIInv

LEMMA CreateKeepsIInv ==
  ASSUME IInv, Create
  PROVE  IInv'
<1> DEFINE count == superblock.inode_count
           n == SectorsForSize(Len(op.buffer))
<1>1. pc = "mutate" /\ op.kind = "write"
  BY Zenon DEF Create
<1>2. /\ count \in 0 .. MAX_INODES /\ count \in Nat /\ superblock \in Superblock
      /\ inodes \in [InodeIds -> Inode] /\ bitmap \subseteq Sectors /\ OpType(op)
      /\ op.parent \in InodeIds
  BY <1>1, MutateFacts
<1>3. op.leaf \in Names /\ Len(op.buffer) \in Nat
  BY <1>1, <1>2, Zenon DEF OpType
<1>4. n \in Nat \ {0}
  BY <1>3, SectorsForSizeType
<1>5. CASE GiveUp(count)
  BY <1>1, <1>2, <1>5, GiveUpKeepsIInv
<1>6. ASSUME NEW i \in InodeIds
      PROVE  CountWith(i) \in 0 .. MAX_INODES /\ count =< CountWith(i) /\ i < CountWith(i)
  BY <1>2, LayoutAssumption DEF CountWith, InodeIds
<1>7. ASSUME NEW i \in InodeIds, GiveUp(CountWith(i)) PROVE IInv'
  BY <1>1, <1>6, <1>7, GiveUpKeepsIInv
<1>8. ASSUME NEW i \in InodeIds, AllocInode(i), NEW f \in DataSectors, IsFirstFit(f, n),
             bitmap' = bitmap \cup Extent(f, n),
             inodes' = [inodes EXCEPT ![i] =
               [type |-> FILE, parent |-> op.parent, name |-> op.leaf,
                size |-> Len(op.buffer), first_sector |-> f, sector_count |-> n]],
             superblock' = [superblock EXCEPT !.inode_count = CountWith(i)],
             op' = [op EXCEPT !.index = i, !.fresh = TRUE],
             Proceed("data")
      PROVE  IInv'
  <2> DEFINE x == [type |-> FILE, parent |-> op.parent, name |-> op.leaf,
                   size |-> Len(op.buffer), first_sector |-> f, sector_count |-> n]
  <2> HIDE DEF n
  <2>1. /\ f \in Nat /\ f >= DATA_START /\ f + n =< TOTAL_SECTORS
        /\ Extent(f, n) \subseteq Sectors /\ Extent(f, n) \cap bitmap = {}
    BY <1>4, <1>8, FirstFitFacts
  <2>2. /\ x \in Inode /\ x.type = FILE /\ x.first_sector = f /\ x.sector_count = n
    <3>1. x.type = FILE /\ x.first_sector = f /\ x.sector_count = n
      OBVIOUS
    <3>2. x \in [type : {FREE, FILE, DIR}, parent : InodeIds, name : Names \cup {""},
                 size : Nat, first_sector : Nat, sector_count : Nat]
      BY <1>2, <1>3, <1>4, <2>1, Zenon
    <3>3. InDataArea(x)
      BY <1>4, <2>1, <3>1 DEF InDataArea
    <3> HIDE DEF x
    <3> QED
      BY <3>1, <3>2, <3>3, Zenon DEF Inode
  <2>3. inodes' = [inodes EXCEPT ![i] = x]
    BY <1>8
  <2> HIDE DEF x
  <2>4. /\ superblock' \in Superblock /\ superblock'.inode_count = CountWith(i)
        /\ superblock'.journal_state = superblock.journal_state
    BY <1>2, <1>6, <1>8 DEF Superblock
  <2>5. /\ OpType(op') /\ op'.index = i /\ op'.buffer = op.buffer /\ op'.kind = op.kind
    <3>1. op'.index = i /\ op'.buffer = op.buffer /\ op'.kind = op.kind /\ op'.leaf = op.leaf
      BY <1>2, <1>8, Zenon DEF OpType
    <3>2. op' \in [kind : {"none", "write", "delete", "rename"}, index : InodeIds \cup {-1},
                   parent : InodeIds \cup {-1}, leaf : Names \cup {""},
                   buffer : {op.buffer}, fresh : BOOLEAN, ok : BOOLEAN]
      BY <1>2, <1>8, Zenon DEF OpType
    <3> QED
      BY <1>2, <3>1, <3>2, Zenon DEF OpType
  <2>6. i \notin LiveFiles(inodes, count)
    BY <1>8, <1>2, ZeroInodeType DEF AllocInode, UnusedInodes, LiveFiles, InodeIds
  <2>7. ASSUME Good(inodes, count, bitmap) PROVE Good(inodes', superblock'.inode_count, bitmap')
    <3> DEFINE Old == {}
               New == Extent(f, n)
               count2 == CountWith(i)
    <3>1. Old = IF i \in LiveFiles(inodes, count) THEN ExtentOf(inodes, i) ELSE {}
      BY <2>6
    <3>2. New = IF x.type = FILE THEN Extent(x.first_sector, x.sector_count) ELSE {}
      BY <2>2
    <3>3. /\ count2 \in Nat /\ count =< count2 /\ (x.type = FILE => i < count2)
          /\ (count2 <= i => x.type = FREE)
      BY <1>2, <1>6 DEF InodeIds
    <3>4. bitmap' = (bitmap \ Old) \cup New /\ New \cap (bitmap \ Old) = {}
      BY <1>8, <2>1
    <3> HIDE DEF Old, New, count2
    <3>5. Good(inodes', count2, bitmap')
      BY <1>2, <2>2, <2>3, <2>7, <3>1, <3>2, <3>3, <3>4, ReplaceKeepsGood, Zenon
    <3> QED
      BY <2>4, <3>5 DEF count2
  <2>8. inodes' \in [InodeIds -> Inode] /\ bitmap' \subseteq Sectors
        /\ inodes'[i] = x /\ \A j \in InodeIds : j # i => inodes'[j] = inodes[j]
    BY <1>2, <1>8, <2>1, <2>2, <2>3
  <2>9. OpInv'
    BY <1>1, <1>8, <2>2, <2>5, <2>8 DEF OpInv, n, Proceed, Enter
  <2>10. MutationStep("data")
    BY <1>1, <1>8, <2>4, <2>5, <2>7, <2>8, <2>9 DEF MutationStep, Proceed, Enter, histVars
  <2> QED
    BY <2>10, MutationStepKeepsIInv
<1> QED
  BY <1>5, <1>7, <1>8, Zenon DEF Create

LEMMA MutationKeepsIInv ==
  ASSUME IInv, Mutation
  PROVE  IInv'
BY GrowKeepsIInv, OverwriteKeepsIInv, CreateKeepsIInv, UnlinkKeepsIInv, RelinkKeepsIInv
DEF Mutation
==============================================================================
