--------------------------- MODULE DiskFSInvariant ---------------------------
(***************************************************************************)
(* The inductive invariant of DiskFS, facts about its layout and its       *)
(* metadata, and the proof that the transfers of the sector store keep the *)
(* invariant.                                                              *)
(***************************************************************************)
EXTENDS DiskFS, WellFoundedInduction, NaturalsInduction, TLAPS

(***************************************************************************)
(* The inductive invariant.                                                *)
(***************************************************************************)
(* What an operation keeps in local variables. *)
OpType(o) ==
  /\ o \in [kind : {"none", "write", "delete", "rename"}, index : InodeIds \cup {-1},
            parent : InodeIds \cup {-1}, leaf : Names \cup {""}, buffer : {o.buffer},
            fresh : BOOLEAN, ok : BOOLEAN]
  /\ Len(o.buffer) \in Nat
  /\ o.kind \in {"write", "rename"} => o.leaf \in Names

(* The operation in progress works on an inode it may change. *)
OpInv ==
  /\ OpType(op)
  /\ pc \in {"begin", "mutate"} =>
       /\ op.kind \in {"write", "delete", "rename"}
       /\ op.index \in LiveFiles(inodes, superblock.inode_count)
            \/ (op.kind = "write" /\ op.index = -1)
       /\ op.kind \in {"write", "rename"} => op.parent \in InodeIds
  /\ pc \in {"data", "inode"} => op.index \in InodeIds
  /\ pc = "data" =>
       /\ op.kind = "write"
       /\ inodes[op.index].type = FILE
       /\ inodes[op.index].sector_count = SectorsForSize(Len(op.buffer))

(* What the steps rely on in the sector store. *)
StoreInv ==
  /\ \A s \in Sectors : s \notin dirty => view[s] = disk[s]
  /\ Flushing /\ flush_ok => todo = dirty
  /\ pc = "mount" => view = disk /\ dirty = {} /\ ~ available
  /\ pc \notin IOSteps => written = 0

(* Clean metadata, and nothing behind the inode count. *)
Good(ino, count, bits) ==
  /\ FsckClean(ino, count, bits)
  /\ \A i \in InodeIds : i >= count => ino[i].type = FREE

(* An image was clean when mounted and every transfer succeeded. *)
Trust == ~ suspect /\ ~ io_failed

MemInv ==
  ~ suspect /\ pc # "mount" /\ (available \/ ~ io_failed) =>
    Good(inodes, superblock.inode_count, bitmap)

(* How an image (the disk, or the disk under the cache) relates to the     *)
(* metadata in memory, in step k of operation o.                           *)
Synced(img, ino, super, bits, k, o) ==
  /\ \A i \in InodeIds :
       i # o.index \/ k \notin {"data", "inode"} => img[InodeSector(i)][i] = ino[i]
  /\ k \in {"idle", "begin", "mutate", "commit"} \/ (k = "inode" /\ o.kind = "rename") =>
       img[BITMAP] = bits
  /\ k = "idle" => img[SUPER] = super /\ super.journal_state = 0
  /\ k = "begin" =>
       img[SUPER].inode_count = super.inode_count /\ super.journal_state = 1
  /\ k \in {"mutate", "data", "inode", "super", "bitmap"} =>
       img[SUPER].journal_state = 1 /\ super.journal_state = 1
  /\ k = "commit" =>
       /\ super.journal_state = 0
       /\ img[SUPER].journal_state = 1 \/ img[SUPER] = super

(* What the current step has already given to the cache. *)
StepInv ==
  /\ pc \in {"idle", "mutate"} \/ written = 0 => dirty = {}
  /\ pc \in {"begin", "commit"} /\ written = 2 => view[SUPER] = superblock
  /\ pc = "inode" /\ written = 1 =>
       view[InodeSector(op.index)][op.index] = inodes[op.index]
  /\ pc = "bitmap" /\ written = 1 => view[BITMAP] = bitmap

DiskInv ==
  /\ Trust /\ pc # "mount" =>
       /\ pc # "recover"
       /\ Synced(disk, inodes, superblock, bitmap, pc, op)
       /\ Synced(view, inodes, superblock, bitmap, pc, op)
       /\ StepInv
  /\ Trust /\ pc = "mount" /\ disk[SUPER].journal_state = 0 =>
       Good(InodesIn(disk), disk[SUPER].inode_count, disk[BITMAP])

IInv == TypeOK /\ OpInv /\ StoreInv /\ MemInv /\ DiskInv

------------------------------------------------------------------------------
(***************************************************************************)
(* Arithmetic and lookup.                                                  *)
(***************************************************************************)

(* Every non-empty set of naturals has a smallest element. *)
LEMMA MinExists ==
  ASSUME NEW T \in SUBSET Nat, T # {}
  PROVE  \E x \in T : \A y \in T : x =< y
<1>1. IsWellFoundedOn(OpToRel(<, Nat), Nat)
  BY NatLessThanWellFounded, Zenon
<1>2. PICK x \in T : \A y \in T : ~ (<<y, x>> \in OpToRel(<, Nat))
  BY <1>1, WFMin, Zenon
<1>3. ASSUME NEW y \in T PROVE x =< y
  <2>1. x \in Nat /\ y \in Nat
    OBVIOUS
  <2>2. <<y, x>> \in Nat \X Nat /\ <<y, x>>[1] = y /\ <<y, x>>[2] = x
    BY <2>1
  <2>3. OpToRel(<, Nat) = {ss \in Nat \X Nat : ss[1] < ss[2]}
    BY Zenon DEF OpToRel
  <2>4. ~ (y < x)
    BY <1>2, <2>2, <2>3, Zenon
  <2> QED
    BY <2>1, <2>4
<1> QED
  BY <1>3

(* sectors_for_size returns at least one sector. *)
LEMMA SectorsForSizeType ==
  ASSUME NEW n \in Nat
  PROVE  SectorsForSize(n) \in Nat \ {0}
<1>1. n + SECTOR_SIZE - 1 \in Nat
  BY LayoutAssumption
<1>2. (n + SECTOR_SIZE - 1) \div SECTOR_SIZE \in Nat
  BY <1>1, LayoutAssumption
<1> QED
  BY <1>2 DEF SectorsForSize

(* find_child returns an inode it looked for, or -1. *)
LEMMA FindChildRange ==
  ASSUME NEW ino, NEW count, NEW parent, NEW name, NEW types,
         NEW c, c = FindChild(ino, count, parent, name, types)
  PROVE  c = -1 \/ (c \in InodeIds /\ c < count /\ ino[c].type \in types)
<1> DEFINE match == {i \in InodeIds : /\ i < count
                                      /\ ino[i].type \in types
                                      /\ ino[i].parent = parent
                                      /\ ino[i].name = name}
<1>1. CASE match = {}
  BY <1>1 DEF FindChild
<1>2. CASE match # {}
  <2>1. match \in SUBSET Nat
    BY LayoutAssumption DEF InodeIds
  <2>2. \E x \in match : \A y \in match : x =< y
    BY <1>2, <2>1, MinExists, Zenon
  <2>3. (CHOOSE i \in match : \A j \in match : i =< j) \in match
    BY <2>2
  <2>4. c = CHOOSE i \in match : \A j \in match : i =< j
    BY <1>2 DEF FindChild
  <2> QED
    BY <2>3, <2>4
<1> QED
  BY <1>1, <1>2

(* diskfs_find_file returns a file, or -1. *)
LEMMA FindFileRange ==
  ASSUME NEW ino, NEW count, NEW path
  PROVE  FindFile(ino, count, path) \in LiveFiles(ino, count) \cup {-1}
BY DEF FindFile

(* The layout: the fixed sectors, the inode table and the data area are    *)
(* apart.                                                                  *)
LEMMA Layout ==
  /\ SUPER \in Sectors /\ JOURNAL \in Sectors /\ BITMAP \in Sectors
  /\ SUPER \notin InodeSectors /\ JOURNAL \notin InodeSectors /\ BITMAP \notin InodeSectors
  /\ SUPER \notin DataSectors /\ JOURNAL \notin DataSectors /\ BITMAP \notin DataSectors
  /\ SUPER # JOURNAL /\ SUPER # BITMAP /\ JOURNAL # BITMAP
  /\ InodeSectors \subseteq Sectors /\ InodeSectors \cap DataSectors = {}
  /\ DataSectors \subseteq Sectors
  /\ \A i \in InodeIds : InodeSector(i) \in InodeSectors /\ i \in InodesOf(InodeSector(i))
<1>1. 0 \in InodeIds
  BY LayoutAssumption DEF InodeIds
<1>2. \A i \in InodeIds : InodeSector(i) \in 3 .. (DATA_START - 1)
  BY LayoutAssumption
<1>3. DATA_START >= 4
  BY <1>1, <1>2, LayoutAssumption
<1>4. \A s \in InodeSectors : s \in 3 .. (DATA_START - 1)
  BY <1>2 DEF InodeSectors
<1>5. \A i \in InodeIds : InodeSector(i) \in InodeSectors /\ i \in InodesOf(InodeSector(i))
  BY DEF InodeSectors, InodesOf
<1> QED
  BY <1>3, <1>4, <1>5, LayoutAssumption
  DEF SUPER, JOURNAL, BITMAP, Sectors, DataSectors

------------------------------------------------------------------------------
(***************************************************************************)
(* Clean metadata under the changes the operations make.                   *)
(***************************************************************************)
Covered(ino, count, s) ==
  s \in MetaSectors \/ \E i \in LiveFiles(ino, count) : s \in ExtentOf(ino, i)

(* The bitmap, sector by sector. *)
LEMMA BitsPointwise ==
  ASSUME NEW ino, NEW count, NEW bits
  PROVE  (bits = MetaSectors \cup UNION {ExtentOf(ino, i) : i \in LiveFiles(ino, count)})
           <=> (\A s : s \in bits <=> Covered(ino, count, s))
BY DEF Covered

(* Files lie above the metadata. *)
LEMMA ExtentsAboveMeta ==
  ASSUME NEW x \in Inode, x.type = FILE,
         NEW s \in Extent(x.first_sector, x.sector_count)
  PROVE  s \in Sectors /\ s \in DataSectors /\ s \notin MetaSectors
<1>1. /\ x.first_sector \in Nat /\ x.sector_count \in Nat
      /\ x.first_sector >= DATA_START
      /\ x.first_sector + x.sector_count =< TOTAL_SECTORS
  BY Zenon DEF Inode, InDataArea
<1>2. s \in Int /\ s >= x.first_sector /\ s =< x.first_sector + x.sector_count - 1
  BY <1>1 DEF Extent
<1> QED
  BY <1>1, <1>2, LayoutAssumption DEF MetaSectors, Sectors, DataSectors

(* Inode i becomes x, and the bitmap loses the extent i had and gains the  *)
(* one x has, which was free or belonged to i: the metadata stays clean.   *)
LEMMA ReplaceKeepsGood ==
  ASSUME NEW ino \in [InodeIds -> Inode], NEW count \in Nat, NEW bits,
         Good(ino, count, bits),
         NEW i \in InodeIds, NEW x \in Inode,
         NEW count2 \in Nat, count =< count2, x.type = FILE => i < count2,
         count2 <= i => x.type = FREE,
         NEW Old, Old = IF i \in LiveFiles(ino, count) THEN ExtentOf(ino, i) ELSE {},
         NEW New, New = IF x.type = FILE THEN Extent(x.first_sector, x.sector_count) ELSE {},
         New \cap (bits \ Old) = {},
         NEW bits2, bits2 = (bits \ Old) \cup New,
         NEW ino2, ino2 = [ino EXCEPT ![i] = x]
  PROVE  Good(ino2, count2, bits2)
<1>1. ino2[i] = x /\ \A j \in InodeIds : j # i => ino2[j] = ino[j]
  OBVIOUS
<1>2. \A j \in InodeIds : j >= count => ino[j].type = FREE
  BY DEF Good
<1>3. InodeIds \subseteq Nat /\ FREE # FILE
  BY LayoutAssumption DEF InodeIds, FREE, FILE
<1>4. ASSUME NEW j \in InodeIds, j # i
      PROVE  j \in LiveFiles(ino2, count2) <=> j \in LiveFiles(ino, count)
  BY <1>1, <1>2, <1>3, <1>4 DEF LiveFiles
<1>5. i \in LiveFiles(ino2, count2) <=> x.type = FILE
  BY <1>1, <1>3 DEF LiveFiles
<1>6. \A j \in InodeIds : j # i => ExtentOf(ino2, j) = ExtentOf(ino, j)
  BY <1>1 DEF ExtentOf
<1>7. ExtentOf(ino2, i) = Extent(x.first_sector, x.sector_count)
  BY <1>1 DEF ExtentOf
<1>8. \A s : s \in bits <=> Covered(ino, count, s)
  BY BitsPointwise DEF Good, FsckClean
<1>9. \A j \in LiveFiles(ino, count) : j \in InodeIds
  BY DEF LiveFiles
<1>10. \A j, k \in LiveFiles(ino, count) :
          j # k => ExtentOf(ino, j) \cap ExtentOf(ino, k) = {}
  BY DEF Good, FsckClean
<1>11. ASSUME NEW j \in LiveFiles(ino, count), j # i
       PROVE  ExtentOf(ino, j) \subseteq bits \ Old
  <2>1. ExtentOf(ino, j) \subseteq bits
    BY <1>8, <1>11 DEF Covered
  <2>2. ExtentOf(ino, j) \cap Old = {}
    BY <1>10, <1>11
  <2> QED
    BY <2>1, <2>2
<1>12. \A j \in LiveFiles(ino2, count2) :
         /\ ino2[j].first_sector >= DATA_START
         /\ ino2[j].first_sector + ino2[j].sector_count =< TOTAL_SECTORS
  <2>1. ASSUME NEW j \in LiveFiles(ino2, count2)
        PROVE  ino2[j] \in Inode /\ ino2[j].type = FILE
    BY DEF LiveFiles
  <2> QED
    BY <2>1, Zenon DEF Inode, InDataArea
<1>13. ASSUME NEW j \in LiveFiles(ino2, count2), NEW k \in LiveFiles(ino2, count2), j # k
       PROVE  ExtentOf(ino2, j) \cap ExtentOf(ino2, k) = {}
  <2>1. j \in InodeIds /\ k \in InodeIds
    BY DEF LiveFiles
  <2>2. CASE j = i
    BY <1>4, <1>5, <1>6, <1>7, <1>11, <1>13, <2>1, <2>2, Zenon
  <2>3. CASE k = i
    BY <1>4, <1>5, <1>6, <1>7, <1>11, <1>13, <2>1, <2>3, Zenon
  <2>4. CASE j # i /\ k # i
    BY <1>4, <1>6, <1>10, <1>13, <2>1, <2>4, Zenon
  <2> QED
    BY <2>2, <2>3, <2>4, Zenon
<1>14. ASSUME NEW s PROVE s \in bits2 <=> Covered(ino2, count2, s)
  <2>1. ASSUME s \in bits2 PROVE Covered(ino2, count2, s)
    <3>1. CASE s \in New
      BY <1>5, <1>7, <3>1 DEF Covered
    <3>2. CASE s \in bits /\ s \notin Old
      <4>1. Covered(ino, count, s)
        BY <1>8, <3>2
      <4>2. CASE s \in MetaSectors
        BY <4>2 DEF Covered
      <4>3. ASSUME NEW j \in LiveFiles(ino, count), s \in ExtentOf(ino, j)
            PROVE  Covered(ino2, count2, s)
        <5>1. j # i
          BY <3>2, <4>3
        <5> QED
          BY <1>4, <1>6, <1>9, <4>3, <5>1, Zenon DEF Covered
      <4> QED
        BY <4>1, <4>2, <4>3, Zenon DEF Covered
    <3> QED
      BY <2>1, <3>1, <3>2
  <2>2. ASSUME s \in MetaSectors PROVE s \in bits2
    <3>1. s \in bits
      BY <1>8, <2>2 DEF Covered
    <3>2. i \in LiveFiles(ino, count) => s \notin ExtentOf(ino, i)
      <4>1. ASSUME i \in LiveFiles(ino, count) PROVE ino[i] \in Inode /\ ino[i].type = FILE
        BY <4>1 DEF LiveFiles
      <4> QED
        BY <2>2, <4>1, ExtentsAboveMeta DEF ExtentOf
    <3> QED
      BY <3>1, <3>2
  <2>3. ASSUME NEW j \in LiveFiles(ino2, count2), s \in ExtentOf(ino2, j) PROVE s \in bits2
    <3>1. j \in InodeIds
      BY DEF LiveFiles
    <3>2. CASE j = i
      BY <1>5, <1>7, <2>3, <3>2
    <3>3. CASE j # i
      BY <1>4, <1>6, <1>11, <2>3, <3>1, <3>3, Zenon
    <3> QED
      BY <3>2, <3>3
  <2> QED
    BY <2>1, <2>2, <2>3, Zenon DEF Covered
<1>15. ASSUME NEW j \in InodeIds, j >= count2 PROVE ino2[j].type = FREE
  <2>1. CASE j = i
    BY <1>1, <1>15, <2>1
  <2>2. CASE j # i
    BY <1>1, <1>2, <1>3, <1>15, <2>2
  <2> QED
    BY <2>1, <2>2
<1>16. bits2 = MetaSectors \cup UNION {ExtentOf(ino2, j) : j \in LiveFiles(ino2, count2)}
  <2> DEFINE marked == MetaSectors \cup UNION {ExtentOf(ino2, j) : j \in LiveFiles(ino2, count2)}
  <2>1. \A s : s \in marked <=> Covered(ino2, count2, s)
    BY Zenon DEF Covered
  <2> HIDE DEF marked
  <2>2. \A s : s \in bits2 <=> s \in marked
    BY <1>14, <2>1, Zenon
  <2>3. bits2 = marked
    BY <2>2, Zenon
  <2> QED
    BY <2>3, Zenon DEF marked
<1> QED
  BY <1>12, <1>13, <1>15, <1>16, Zenon DEF Good, FsckClean

(* alloc_inode raises the count over unused inodes. *)
LEMMA RaiseKeepsGood ==
  ASSUME NEW ino \in [InodeIds -> Inode], NEW count \in Nat, NEW bits,
         Good(ino, count, bits), NEW count2 \in Nat, count =< count2
  PROVE  Good(ino, count2, bits)
<1>1. LiveFiles(ino, count2) = LiveFiles(ino, count)
  BY LayoutAssumption DEF Good, LiveFiles, InodeIds, FREE, FILE
<1>2. \A j \in InodeIds : j >= count2 => ino[j].type = FREE
  BY LayoutAssumption DEF Good, InodeIds
<1> QED
  BY <1>1, <1>2 DEF Good, FsckClean

------------------------------------------------------------------------------
(***************************************************************************)
(* Transfers: what is written back was in the view.                        *)
(***************************************************************************)
ImageType(img) ==
  /\ DOMAIN img = Sectors
  /\ img[SUPER] \in Superblock
  /\ img[BITMAP] \subseteq Sectors
  /\ \A s \in InodeSectors : img[s] \in [InodesOf(s) -> Inode]

(* An image each of whose sectors is one of two well-formed images'. *)
LEMMA MixedImageType ==
  ASSUME NEW d, NEW v, ImageType(d), ImageType(v),
         NEW e, DOMAIN e = Sectors, \A s \in Sectors : e[s] \in {d[s], v[s]}
  PROVE  ImageType(e)
BY Layout DEF ImageType

LEMMA MixedImageSynced ==
  ASSUME NEW d, NEW v, NEW ino, NEW super, NEW bits, NEW k, NEW o,
         Synced(d, ino, super, bits, k, o), Synced(v, ino, super, bits, k, o),
         NEW e, \A s \in Sectors : e[s] \in {d[s], v[s]}
  PROVE  Synced(e, ino, super, bits, k, o)
<1>1. SUPER \in Sectors /\ BITMAP \in Sectors /\ \A i \in InodeIds : InodeSector(i) \in Sectors
  BY Layout
<1>2. e[SUPER] \in {d[SUPER], v[SUPER]} /\ e[BITMAP] \in {d[BITMAP], v[BITMAP]}
  BY <1>1
<1>3. \A i \in InodeIds : e[InodeSector(i)] \in {d[InodeSector(i)], v[InodeSector(i)]}
  BY <1>1
<1> QED
  BY <1>2, <1>3 DEF Synced

(* A step that only transfers sectors. *)
Transfer ==
  /\ UNCHANGED <<memVars, pc, written, callVars, files, io_failed, suspect>>
  /\ pc # "mount"
  /\ view' = view
  /\ DOMAIN disk' = Sectors
  /\ \A s \in Sectors : disk'[s] \in {disk[s], view[s]}
  /\ dirty' \subseteq dirty
  /\ \A s \in Sectors : s \notin dirty' => view[s] = disk'[s]
  /\ flush_ok' \in BOOLEAN
  /\ Flushing => todo' \subseteq dirty'
  /\ Flushing /\ flush_ok' => todo' = dirty'

LEMMA TransferKeepsIInv ==
  ASSUME IInv, Transfer
  PROVE  IInv'
<1>1. Flushing' = Flushing
  BY DEF Transfer, callVars, memVars, Flushing, StepLength
<1>2. TypeOK'
  <2>1. ImageType(disk')
    <3>1. ImageType(disk) /\ ImageType(view)
      BY DEF IInv, TypeOK, ImageType
    <3> QED
      BY <3>1, MixedImageType DEF Transfer
  <2> QED
    BY <1>1, <2>1 DEF IInv, TypeOK, ImageType, Transfer, callVars, memVars
<1>3. OpInv'
  BY DEF IInv, OpInv, Transfer, memVars, callVars
<1>4. StoreInv'
  BY <1>1 DEF IInv, StoreInv, Transfer
<1>5. MemInv'
  BY DEF IInv, MemInv, Transfer, memVars
<1>6. DiskInv'
  <2>1. Trust' = Trust /\ pc' = pc /\ pc # "mount"
    BY DEF Trust, Transfer
  <2>2. ASSUME Trust
        PROVE  /\ Synced(disk', inodes', superblock', bitmap', pc', op')
               /\ Synced(view', inodes', superblock', bitmap', pc', op')
    <3>1. /\ Synced(disk, inodes, superblock, bitmap, pc, op)
          /\ Synced(view, inodes, superblock, bitmap, pc, op)
      BY <2>1, <2>2 DEF IInv, DiskInv
    <3>2. UNCHANGED <<inodes, superblock, bitmap, pc, op, view>>
      BY DEF Transfer, memVars, callVars
    <3>3. Synced(disk', inodes, superblock, bitmap, pc, op)
      BY <3>1, MixedImageSynced DEF Transfer
    <3> QED
      BY <3>1, <3>2, <3>3
  <2>3. Trust => StepInv'
    BY <2>1 DEF IInv, DiskInv, StepInv, Transfer, memVars, callVars
  <2> QED
    BY <2>1, <2>2, <2>3 DEF IInv, DiskInv
<1> QED
  BY <1>2, <1>3, <1>4, <1>5, <1>6 DEF IInv

LEMMA WritebackTransfers ==
  ASSUME IInv, NEW s \in Sectors, Writeback(s)
  PROVE  /\ view' = view
         /\ DOMAIN disk' = Sectors
         /\ \A t \in Sectors : disk'[t] \in {disk[t], view[t]}
         /\ dirty' \subseteq dirty /\ dirty' = dirty \ {s}
         /\ \A t \in Sectors : t \notin dirty' => view[t] = disk'[t]
<1>1. DOMAIN disk = Sectors /\ \A t \in Sectors : t \notin dirty => view[t] = disk[t]
  BY DEF IInv, TypeOK, StoreInv
<1> QED
  BY <1>1 DEF Writeback

LEMMA FailedWritebackTransfers ==
  ASSUME IInv, NEW s \in Sectors, WritebackFails(s)
  PROVE  /\ view' = view
         /\ DOMAIN disk' = Sectors
         /\ \A t \in Sectors : disk'[t] \in {disk[t], view[t]}
         /\ dirty' = dirty
         /\ \A t \in Sectors : t \notin dirty' => view[t] = disk'[t]
<1>1. DOMAIN disk = Sectors /\ \A t \in Sectors : t \notin dirty => view[t] = disk[t]
  BY DEF IInv, TypeOK, StoreInv
<1> QED
  BY <1>1 DEF WritebackFails

(* The actions that transfer sectors. *)
LEMMA TransferActions ==
  ASSUME IInv, NEW s \in Sectors,
         \/ Evict(s) \/ EvictByRead(s) \/ EvictByReadFails(s)
         \/ FlushSector(s) \/ FlushSectorFails(s)
  PROVE  IInv'
<1>1. flush_ok \in BOOLEAN /\ (Flushing => todo \subseteq dirty)
      /\ (Flushing /\ flush_ok => todo = dirty)
  BY DEF IInv, TypeOK, StoreInv
<1>2. CASE Evict(s)
  <2>1. ~ Flushing /\ pc # "mount"
    BY <1>2 DEF Evict, Writing, Flushing, IOSteps, IInv, TypeOK
  <2>2. Transfer
    BY <1>1, <1>2, <2>1, WritebackTransfers
    DEF Evict, Transfer, ioVars, histVars
  <2> QED
    BY <2>2, TransferKeepsIInv
<1>3. CASE EvictByRead(s) \/ EvictByReadFails(s)
  <2>1. ~ Flushing /\ pc # "mount"
    BY <1>3 DEF EvictByRead, EvictByReadFails, Flushing, IOSteps
  <2>2. Transfer
    BY <1>1, <1>3, <2>1, WritebackTransfers, FailedWritebackTransfers
    DEF EvictByRead, EvictByReadFails, Transfer, ioVars, histVars
  <2> QED
    BY <2>2, TransferKeepsIInv
<1>4. CASE FlushSector(s)
  <2>1. pc # "mount"
    BY <1>4 DEF FlushSector, Flushing, IOSteps
  <2>2. Transfer
    BY <1>1, <1>4, <2>1, WritebackTransfers DEF FlushSector, Transfer, histVars
  <2> QED
    BY <2>2, TransferKeepsIInv
<1>5. CASE FlushSectorFails(s)
  <2>1. pc # "mount"
    BY <1>5 DEF FlushSectorFails, Flushing, IOSteps
  <2>2. flush_ok' \in BOOLEAN /\ ~ flush_ok'
    BY <1>5, Zenon DEF FlushSectorFails
  <2>3. /\ UNCHANGED <<memVars, pc, written, callVars, files, io_failed, suspect>>
        /\ WritebackFails(s) /\ todo' = todo \ {s} /\ Flushing
    BY <1>5 DEF FlushSectorFails, histVars
  <2>4. Transfer
    BY <1>1, <2>1, <2>2, <2>3, FailedWritebackTransfers DEF Transfer
  <2> QED
    BY <2>4, TransferKeepsIInv
<1> QED
  BY <1>2, <1>3, <1>4, <1>5
==============================================================================
