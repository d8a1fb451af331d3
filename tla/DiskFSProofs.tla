---------------------------- MODULE DiskFSProofs -----------------------------
(***************************************************************************)
(* Proofs about DiskFS: the type invariant, MemoryClean and                *)
(* CleanMarkerMeansClean, for images of any size, any paths and buffers, and *)
(* any number of operations, power losses and failing transfers.  Here are *)
(* the steps that write sectors, power loss, mount, and the theorems.      *)
(***************************************************************************)
EXTENDS DiskFSMutations

(***************************************************************************)
(* Writing the sectors of a step.                                          *)
(***************************************************************************)

(* Which sector a step writes next, and what it puts there. *)
LEMMA StepWrites ==
  ASSUME IInv, Writing, NEW s, s = StepSector(written), NEW c, c = StepContent(s)
  PROVE  /\ s \in Sectors
         /\ s = SUPER => c = superblock /\ pc \in {"begin", "commit", "recover", "super"}
         /\ s = BITMAP => c = bitmap /\ pc = "bitmap"
         /\ s \in InodeSectors =>
              /\ pc = "inode" /\ s = InodeSector(op.index)
              /\ c = [view[s] EXCEPT ![op.index] = inodes[op.index]]
         /\ pc \in {"begin", "commit"} /\ written = 1 => s = SUPER
         /\ pc = "inode" => s = InodeSector(op.index) /\ s \in InodeSectors
         /\ pc = "bitmap" => s = BITMAP
<1>1. pc \in IOSteps /\ written \in Nat /\ written < StepLength
  BY DEF Writing, IInv, TypeOK
<1>2. CASE pc \in {"begin", "commit", "recover"}
  <2>1. s = IF written = 0 THEN JOURNAL ELSE SUPER
    BY <1>2 DEF StepSector
  <2> QED
    BY <1>1, <1>2, <2>1, Layout DEF StepContent
<1>3. CASE pc = "data"
  <2>1. /\ op.index \in InodeIds /\ inodes[op.index] \in Inode /\ inodes[op.index].type = FILE
        /\ inodes[op.index].sector_count = SectorsForSize(Len(op.buffer))
    BY <1>3 DEF IInv, TypeOK, OpInv
  <2>2. s = inodes[op.index].first_sector + written /\ written < inodes[op.index].sector_count
    BY <1>1, <1>3, <2>1 DEF StepSector, StepLength
  <2>3. s \in Extent(inodes[op.index].first_sector, inodes[op.index].sector_count)
    <3>1. inodes[op.index].first_sector \in Nat /\ inodes[op.index].sector_count \in Nat
      BY <2>1, Zenon DEF Inode
    <3> QED
      BY <1>1, <2>2, <3>1 DEF Extent
  <2>4. s \in Sectors /\ s \in DataSectors
    BY <2>1, <2>3, ExtentsAboveMeta
  <2> QED
    BY <1>3, <2>4, Layout
<1>4. CASE pc = "inode"
  <2>1. op.index \in InodeIds /\ s = InodeSector(op.index)
    BY <1>4 DEF IInv, OpInv, StepSector
  <2>2. s \in InodeSectors /\ s \in Sectors /\ s # SUPER /\ s # BITMAP /\ s # JOURNAL
        /\ s \notin DataSectors
    BY <2>1, Layout
  <2>3. c = [view[s] EXCEPT ![op.index] = inodes[op.index]]
    BY <2>2 DEF StepContent
  <2> QED
    BY <1>4, <2>1, <2>2, <2>3
<1>5. CASE pc = "super"
  BY <1>5, Layout DEF StepSector, StepContent
<1>6. CASE pc = "bitmap"
  BY <1>6, Layout DEF StepSector, StepContent
<1> QED
  BY <1>1, <1>2, <1>3, <1>4, <1>5, <1>6 DEF IOSteps

LEMMA WriteSectorKeepsIInv ==
  ASSUME IInv, WriteSector
  PROVE  IInv'
<1> DEFINE s == StepSector(written)
           c == StepContent(s)
<1>1. /\ Writing
      /\ view' = [view EXCEPT ![s] = c] /\ dirty' = dirty \cup {s} /\ disk' = disk
      /\ written' = written + 1
      /\ todo' = (IF written + 1 = StepLength THEN dirty' ELSE {})
      /\ flush_ok' = TRUE
      /\ UNCHANGED <<memVars, pc, callVars, io_failed, suspect>>
  BY DEF WriteSector, Put, histVars
<1>2. /\ s \in Sectors
      /\ s = SUPER => c = superblock /\ pc \in {"begin", "commit", "recover", "super"}
      /\ s = BITMAP => c = bitmap /\ pc = "bitmap"
      /\ s \in InodeSectors =>
           /\ pc = "inode" /\ s = InodeSector(op.index)
           /\ c = [view[s] EXCEPT ![op.index] = inodes[op.index]]
      /\ pc \in {"begin", "commit"} /\ written = 1 => s = SUPER
      /\ pc = "inode" => s = InodeSector(op.index) /\ s \in InodeSectors
      /\ pc = "bitmap" => s = BITMAP
  BY <1>1, StepWrites
<1> HIDE DEF s, c
<1>3. /\ DOMAIN view = Sectors /\ DOMAIN view' = Sectors
      /\ view'[s] = c /\ \A t \in Sectors : t # s => view'[t] = view[t]
  BY <1>1, <1>2 DEF IInv, TypeOK
<1>4. pc \in IOSteps /\ written \in Nat
  BY <1>1 DEF IInv, TypeOK, Writing
<1>5. Flushing' <=> written + 1 = StepLength
  BY <1>1, <1>4, Zenon DEF Flushing, StepLength, memVars, callVars
<1>6. pc = "inode" => op.index \in InodeIds
  BY DEF IInv, OpInv
<1>7. \A t \in InodeSectors : view[t] \in [InodesOf(t) -> Inode]
  BY DEF IInv, TypeOK
<1>8. TypeOK'
  <2>1. view'[SUPER] \in Superblock /\ view'[BITMAP] \subseteq Sectors
    BY <1>2, <1>3, Layout DEF IInv, TypeOK
  <2>2. ASSUME NEW t \in InodeSectors PROVE view'[t] \in [InodesOf(t) -> Inode]
    <3>1. CASE t = s
      <4>1. view'[t] = [view[t] EXCEPT ![op.index] = inodes[op.index]]
        BY <1>2, <1>3, <3>1
      <4>2. inodes[op.index] \in Inode
        BY <1>2, <1>6, <3>1 DEF IInv, TypeOK
      <4> QED
        BY <1>7, <4>1, <4>2, Zenon
    <3>2. CASE t # s
      BY <1>3, <1>7, <3>2, Layout
    <3> QED
      BY <3>1, <3>2
  <2>3. dirty' \subseteq Sectors /\ (Flushing' => todo' \subseteq dirty') /\ written' \in Nat
        /\ flush_ok' \in BOOLEAN
    BY <1>1, <1>2, <1>4, <1>5 DEF IInv, TypeOK
  <2> QED
    BY <1>1, <1>3, <2>1, <2>2, <2>3 DEF IInv, TypeOK, memVars, callVars
<1>9. OpInv'
  BY <1>1 DEF IInv, OpInv, memVars, callVars
<1>10. StoreInv'
  BY <1>1, <1>3, <1>4, <1>5 DEF IInv, StoreInv, memVars, IOSteps
<1>11. MemInv'
  BY <1>1 DEF IInv, MemInv, memVars
<1>12. DiskInv'
  <2>1. Trust' = Trust /\ pc' = pc /\ pc # "mount"
    BY <1>1, <1>4 DEF Trust, IOSteps
  <2>2. UNCHANGED <<inodes, superblock, bitmap, pc, op, disk>>
    BY <1>1 DEF memVars, callVars
  <2>3. ASSUME Trust
        PROVE  Synced(view', inodes, superblock, bitmap, pc, op)
    <3>1. Synced(view, inodes, superblock, bitmap, pc, op)
      BY <2>1, <2>3 DEF IInv, DiskInv
    <3>2. ASSUME NEW i \in InodeIds, i # op.index \/ pc \notin {"data", "inode"}
          PROVE  view'[InodeSector(i)][i] = inodes[i]
      <4>1. view[InodeSector(i)][i] = inodes[i]
        BY <3>1, <3>2 DEF Synced
      <4>2. InodeSector(i) \in InodeSectors /\ InodeSector(i) \in Sectors
            /\ i \in InodesOf(InodeSector(i))
        BY Layout
      <4>3. CASE InodeSector(i) = s
        <5>1. view'[s] = [view[s] EXCEPT ![op.index] = inodes[op.index]] /\ i # op.index
          BY <1>2, <1>3, <3>2, <4>2, <4>3
        <5>2. view[s] \in [InodesOf(s) -> Inode] /\ i \in InodesOf(s)
          BY <1>7, <4>2, <4>3
        <5> QED
          BY <4>1, <4>3, <5>1, <5>2
      <4>4. CASE InodeSector(i) # s
        BY <1>3, <4>1, <4>2, <4>4
      <4> QED
        BY <4>3, <4>4
    <3>3. view'[SUPER] = view[SUPER] \/
            (view'[SUPER] = superblock /\ pc \in {"begin", "commit", "recover", "super"})
      BY <1>2, <1>3, Layout
    <3>4. view'[BITMAP] = view[BITMAP] \/ pc = "bitmap"
      BY <1>2, <1>3, Layout
    <3> QED
      BY <1>4, <3>1, <3>2, <3>3, <3>4 DEF Synced, IOSteps
  <2>4. ASSUME Trust PROVE StepInv'
    <3>1. written' = written + 1 /\ written' # 0 /\ (written' = 2 => written = 1)
      BY <1>1, <1>4
    <3>2. pc = "inode" => view'[InodeSector(op.index)][op.index] = inodes[op.index]
      <4>1. ASSUME pc = "inode"
            PROVE  /\ view'[s] = [view[s] EXCEPT ![op.index] = inodes[op.index]]
                   /\ s = InodeSector(op.index) /\ op.index \in InodesOf(s)
                   /\ view[s] \in [InodesOf(s) -> Inode]
        BY <1>2, <1>3, <1>6, <1>7, <4>1, Layout
      <4> QED
        BY <4>1
    <3> QED
      BY <1>2, <1>3, <1>4, <2>2, <3>1, <3>2 DEF StepInv, IOSteps
  <2> QED
    BY <2>1, <2>2, <2>3, <2>4 DEF IInv, DiskInv
<1> QED
  BY <1>8, <1>9, <1>10, <1>11, <1>12 DEF IInv

------------------------------------------------------------------------------
(***************************************************************************)
(* The end of a step.                                                      *)
(***************************************************************************)

LEMMA NoOpType == OpType(NoOp)
<1>1. Len(<<>>) \in Nat
  OBVIOUS
<1> QED
  BY <1>1 DEF OpType, NoOp

(* An operation returns false where it stands. *)
LEMMA AbandonKeepsIInv ==
  ASSUME IInv, pc \in IOSteps, AbandonStep,
         view' = view, DOMAIN disk' = Sectors, dirty' = dirty, flush_ok' = flush_ok,
         \A s \in Sectors : disk'[s] \in {disk[s], view[s]},
         \A s \in Sectors : s \notin dirty' => view[s] = disk'[s]
  PROVE  IInv'
<1>1. /\ pc' = "idle" /\ written' = 0 /\ op' = NoOp /\ ret' = FALSE
      /\ UNCHANGED <<superblock, inodes, bitmap, available, suspect>>
  BY DEF AbandonStep, Return, Enter
<1>2. io_failed' \in BOOLEAN /\ io_failed'
  BY Zenon DEF AbandonStep
<1>3. ~ Flushing'
  BY <1>1 DEF Flushing, IOSteps
<1>4. TypeOK'
  <2>1. ImageType(disk')
    <3>1. ImageType(disk) /\ ImageType(view)
      BY DEF IInv, TypeOK, ImageType
    <3> QED
      BY <3>1, MixedImageType
  <2>2. ret' \in BOOLEAN
    BY <1>1, Zenon
  <2> QED
    BY <1>1, <1>2, <1>3, <2>1, <2>2 DEF IInv, TypeOK, ImageType, Steps
<1>5. OpInv'
  BY <1>1, NoOpType DEF OpInv
<1>6. StoreInv'
  BY <1>1, <1>3 DEF IInv, StoreInv
<1>7. MemInv'
  <2>1. pc # "mount"
    BY DEF IOSteps
  <2> QED
    BY <1>1, <1>2, <2>1 DEF IInv, MemInv
<1>8. DiskInv'
  BY <1>1, <1>2 DEF DiskInv, Trust
<1> QED
  BY <1>4, <1>5, <1>6, <1>7, <1>8 DEF IInv

LEMMA FailedStepsKeepIInv ==
  ASSUME IInv, WriteSectorFails \/ FlushFailed
  PROVE  IInv'
<1>1. DOMAIN disk = Sectors /\ dirty \subseteq Sectors
      /\ \A t \in Sectors : t \notin dirty => view[t] = disk[t]
  BY DEF IInv, TypeOK, StoreInv
<1>2. pc \in IOSteps /\ AbandonStep /\ flush_ok' = flush_ok
  BY DEF WriteSectorFails, FlushFailed, Writing, Flushing
<1>3. CASE UNCHANGED <<disk, view, dirty>>
  BY <1>1, <1>2, <1>3, AbandonKeepsIInv
<1>4. ASSUME NEW s \in dirty, WritebackFails(s) PROVE IInv'
  <2>1. s \in Sectors
    BY <1>1
  <2> QED
    BY <1>2, <1>4, <2>1, FailedWritebackTransfers, AbandonKeepsIInv
<1> QED
  BY <1>3, <1>4 DEF WriteSectorFails, FlushFailed

(* A flush that succeeded leaves nothing behind. *)
LEMMA FlushedIsDurable ==
  ASSUME IInv, Flushing, todo = {}, flush_ok
  PROVE  dirty = {} /\ \A s \in Sectors : view[s] = disk[s]
BY DEF IInv, StoreInv

(* One step of an operation ends and the next begins. *)
LEMMA StepDoneKeepsIInv ==
  ASSUME IInv, StepDone
  PROVE  IInv'
<1>1. /\ Flushing /\ todo = {} /\ flush_ok
      /\ pc' = StepAfter /\ written' = 0
      /\ UNCHANGED <<disk, view, dirty, inodes, bitmap, available, todo, flush_ok, op, ret,
                     io_failed, suspect>>
  BY DEF StepDone, Enter, callVars, histVars
<1>2. dirty = {} /\ \A s \in Sectors : view[s] = disk[s]
  BY <1>1, FlushedIsDurable
<1>3. pc \in {"begin", "data", "inode", "super", "bitmap"} /\ written = StepLength
  BY DEF StepDone, Flushing, IOSteps
<1>4. superblock \in Superblock /\ OpType(op)
  BY DEF IInv, TypeOK, OpInv
<1>5. \/ pc = "begin" /\ StepAfter = "mutate"
      \/ pc = "data" /\ StepAfter = "inode"
      \/ pc = "inode" /\ op.kind = "rename" /\ StepAfter = "commit"
      \/ pc = "inode" /\ StepAfter \in {"super", "bitmap"}
      \/ pc = "super" /\ StepAfter = "bitmap"
      \/ pc = "bitmap" /\ StepAfter = "commit"
  BY <1>3 DEF StepAfter
<1>6. /\ superblock' = IF StepAfter = "commit" THEN [superblock EXCEPT !.journal_state = 0]
                                                 ELSE superblock
  BY DEF StepDone
<1>7. /\ superblock' \in Superblock /\ superblock'.inode_count = superblock.inode_count
      /\ superblock'.journal_state =
           IF StepAfter = "commit" THEN 0 ELSE superblock.journal_state
      /\ StepAfter # "commit" => superblock' = superblock
  BY <1>4, <1>6 DEF Superblock
<1>8. ~ Flushing'
  <2>1. Len(op.buffer) \in Nat
    BY <1>4, Zenon DEF OpType
  <2>2. pc' \in IOSteps => StepLength' # 0
    <3>1. SectorsForSize(Len(op.buffer)) # 0
      BY <2>1, SectorsForSizeType
    <3>2. op' = op
      BY <1>1
    <3> QED
      BY <3>1, <3>2 DEF StepLength, IOSteps
  <2> QED
    BY <1>1, <2>2 DEF Flushing
<1>9. TypeOK'
  BY <1>1, <1>5, <1>7, <1>8 DEF IInv, TypeOK, Steps, IOSteps
<1>10. OpInv'
  BY <1>1, <1>4, <1>5, <1>7 DEF IInv, OpInv
<1>11. StoreInv'
  BY <1>1, <1>5, <1>8 DEF IInv, StoreInv
<1>12. MemInv'
  BY <1>1, <1>3, <1>7 DEF IInv, MemInv
<1>13. DiskInv'
  <2>1. Trust' = Trust /\ pc # "mount" /\ pc' # "mount" /\ pc' # "recover"
    BY <1>1, <1>3, <1>5 DEF Trust
  <2>2. ASSUME Trust
        PROVE  /\ Synced(disk, inodes, superblock, bitmap, pc, op)
               /\ Synced(view, inodes, superblock, bitmap, pc, op)
               /\ StepInv
    BY <2>1, <2>2 DEF IInv, DiskInv
  <2>3. ASSUME NEW img, \A s \in Sectors : img[s] = view[s], Trust
        PROVE  Synced(img, inodes, superblock', bitmap, StepAfter, op)
    <3>1. Synced(view, inodes, superblock, bitmap, pc, op) /\ StepInv
      BY <2>2, <2>3
    <3>2. img[SUPER] = view[SUPER] /\ img[BITMAP] = view[BITMAP]
          /\ \A i \in InodeIds : img[InodeSector(i)] = view[InodeSector(i)]
      BY <2>3, Layout
    <3>3. CASE pc = "begin" /\ StepAfter = "mutate"
      <4>1. view[SUPER] = superblock
        BY <1>3, <3>1, <3>3 DEF StepInv, StepLength
      <4> QED
        BY <1>7, <3>1, <3>2, <3>3, <4>1 DEF Synced
    <3>4. CASE pc = "data" /\ StepAfter = "inode"
      <4>1. op.kind = "write"
        BY <3>4 DEF IInv, OpInv
      <4> QED
        BY <1>7, <3>1, <3>2, <3>4, <4>1 DEF Synced
    <3>5. CASE pc = "inode" /\ StepAfter \in {"super", "bitmap", "commit"}
      <4>1. view[InodeSector(op.index)][op.index] = inodes[op.index]
        BY <1>3, <3>1, <3>5 DEF StepInv, StepLength
      <4>2. \A i \in InodeIds : img[InodeSector(i)][i] = inodes[i]
        BY <3>1, <3>2, <3>5, <4>1 DEF Synced
      <4>3. StepAfter = "commit" => img[BITMAP] = bitmap
        BY <1>5, <3>1, <3>2, <3>5 DEF Synced
      <4>4. img[SUPER].journal_state = 1 /\ superblock.journal_state = 1
        BY <3>1, <3>2, <3>5 DEF Synced
      <4> QED
        BY <1>7, <3>5, <4>2, <4>3, <4>4 DEF Synced
    <3>6. CASE pc = "super" /\ StepAfter = "bitmap"
      BY <1>7, <3>1, <3>2, <3>6 DEF Synced
    <3>7. CASE pc = "bitmap" /\ StepAfter = "commit"
      <4>1. view[BITMAP] = bitmap
        BY <1>3, <3>1, <3>7 DEF StepInv, StepLength
      <4> QED
        BY <1>7, <3>1, <3>2, <3>7, <4>1 DEF Synced
    <3> QED
      BY <1>5, <3>3, <3>4, <3>5, <3>6, <3>7
  <2>4. Trust => /\ Synced(disk', inodes', superblock', bitmap', pc', op')
                 /\ Synced(view', inodes', superblock', bitmap', pc', op')
    BY <1>1, <1>2, <2>3
  <2>5. StepInv'
    BY <1>1, <1>2, <1>5 DEF StepInv
  <2> QED
    BY <2>1, <2>4, <2>5 DEF DiskInv
<1> QED
  BY <1>9, <1>10, <1>11, <1>12, <1>13 DEF IInv

(* The call returns, or the mount has cleared the marker. *)
LEMMA CallDoneKeepsIInv ==
  ASSUME IInv, CallDone
  PROVE  IInv'
<1>1. /\ Flushing /\ todo = {} /\ flush_ok /\ pc \in {"commit", "recover"}
      /\ pc' = "idle" /\ written' = 0 /\ op' = NoOp /\ ret' = op.ok
      /\ UNCHANGED <<disk, view, dirty, superblock, inodes, bitmap, available, todo, flush_ok,
                     io_failed, suspect>>
  BY DEF CallDone, Return, Enter
<1>2. dirty = {} /\ \A s \in Sectors : view[s] = disk[s]
  BY <1>1, FlushedIsDurable
<1>3. ~ Flushing'
  BY <1>1 DEF Flushing, IOSteps
<1>4. TypeOK'
  <2>1. OpType(op)
    BY DEF IInv, OpInv
  <2>2. op.ok \in BOOLEAN
    BY <2>1, Zenon DEF OpType
  <2>3. ret' \in BOOLEAN
    BY <1>1, <2>2, Zenon
  <2> QED
    BY <1>1, <1>3, <2>3 DEF IInv, TypeOK, Steps
<1>5. OpInv'
  BY <1>1, NoOpType DEF OpInv
<1>6. StoreInv'
  BY <1>1, <1>3 DEF IInv, StoreInv
<1>7. MemInv'
  BY <1>1 DEF IInv, MemInv
<1>8. DiskInv'
  <2>1. Trust' = Trust /\ pc # "mount" /\ pc' = "idle"
    BY <1>1 DEF Trust
  <2>2. ASSUME Trust
        PROVE  /\ Synced(disk', inodes', superblock', bitmap', pc', op')
               /\ Synced(view', inodes', superblock', bitmap', pc', op')
               /\ dirty' = {}
    <3>1. /\ pc = "commit"
          /\ Synced(view, inodes, superblock, bitmap, "commit", op) /\ StepInv
      BY <1>1, <2>1, <2>2 DEF IInv, DiskInv
    <3>2. view[SUPER] = superblock
      BY <1>1, <3>1 DEF StepInv, Flushing, StepLength
    <3>3. disk[SUPER] = view[SUPER] /\ disk[BITMAP] = view[BITMAP]
          /\ \A i \in InodeIds : disk[InodeSector(i)] = view[InodeSector(i)]
      BY <1>2, Layout
    <3> QED
      BY <1>1, <1>2, <3>1, <3>2, <3>3 DEF Synced
  <2>3. Trust => StepInv'
    BY <1>1, <2>2 DEF StepInv
  <2> QED
    BY <2>1, <2>2, <2>3 DEF DiskInv
<1> QED
  BY <1>4, <1>5, <1>6, <1>7, <1>8 DEF IInv

------------------------------------------------------------------------------
(***************************************************************************)
(* Power loss and mount.                                                   *)
(***************************************************************************)

(* An image without the marker is clean, at every point. *)
LEMMA CleanWithoutMarker ==
  ASSUME IInv, Trust, disk[SUPER].journal_state = 0
  PROVE  Good(InodesIn(disk), disk[SUPER].inode_count, disk[BITMAP])
<1>1. CASE pc = "mount"
  BY <1>1 DEF IInv, DiskInv
<1>2. CASE pc # "mount"
  <2>1. pc # "recover" /\ Synced(disk, inodes, superblock, bitmap, pc, op)
    BY <1>2 DEF IInv, DiskInv
  <2>2. pc \in {"idle", "begin", "commit"}
    <3>1. pc \in Steps
      BY DEF IInv, TypeOK
    <3>2. pc \notin {"mutate", "data", "inode", "super", "bitmap"}
      BY <2>1 DEF Synced
    <3> QED
      BY <1>2, <2>1, <3>1, <3>2 DEF Steps, IOSteps
  <2>3. \A i \in InodeIds : disk[InodeSector(i)][i] = inodes[i]
    BY <2>1, <2>2 DEF Synced
  <2>4. InodesIn(disk) = inodes
    <3>1. inodes \in [InodeIds -> Inode]
      BY DEF IInv, TypeOK
    <3>2. InodesIn(disk) = [i \in InodeIds |-> inodes[i]]
      BY <2>3 DEF InodesIn
    <3> QED
      BY <3>1, <3>2
  <2>5. disk[BITMAP] = bitmap
    BY <2>1, <2>2 DEF Synced
  <2>6. disk[SUPER].inode_count = superblock.inode_count
    BY <2>1, <2>2 DEF Synced
  <2>7. Good(inodes, superblock.inode_count, bitmap)
    BY <1>2 DEF IInv, MemInv, Trust
  <2> QED
    BY <2>4, <2>5, <2>6, <2>7
<1> QED
  BY <1>1, <1>2

LEMMA ZeroTypes ==
  ZeroSuperblock \in Superblock /\ ZeroInodes \in [InodeIds -> Inode]
BY ZeroInodeType, LayoutAssumption DEF ZeroSuperblock, Superblock, ZeroInodes

LEMMA CrashKeepsIInv ==
  ASSUME IInv, Crash
  PROVE  IInv'
<1>1. /\ view' = disk /\ dirty' = {} /\ disk' = disk
      /\ superblock' = ZeroSuperblock /\ inodes' = ZeroInodes /\ bitmap' = {}
      /\ pc' = "mount" /\ written' = 0 /\ todo' = {}
      /\ op' = NoOp
      /\ UNCHANGED <<io_failed, suspect>>
  BY DEF Crash, PowerLoss, Enter, histVars
<1>2. available' \in BOOLEAN /\ ~ available' /\ flush_ok' \in BOOLEAN /\ ret' \in BOOLEAN
  BY Zenon DEF Crash
<1>3. ~ Flushing'
  BY <1>1 DEF Flushing, IOSteps
<1>4. TypeOK'
  BY <1>1, <1>2, <1>3, ZeroTypes DEF IInv, TypeOK, Steps
<1>5. OpInv'
  BY <1>1, NoOpType DEF OpInv
<1>6. StoreInv'
  BY <1>1, <1>2, <1>3 DEF StoreInv
<1>7. MemInv'
  BY <1>1 DEF MemInv
<1>8. DiskInv'
  <2>1. Trust' = Trust
    BY <1>1 DEF Trust
  <2> QED
    BY <1>1, <2>1, CleanWithoutMarker DEF DiskInv
<1> QED
  BY <1>4, <1>5, <1>6, <1>7, <1>8 DEF IInv

(* The inode table of a well-formed image is well-formed. *)
LEMMA TableType ==
  ASSUME IInv, NEW read
  PROVE  InodesIn(disk) \in [InodeIds -> Inode] /\ InodesOn(disk, read) \in [InodeIds -> Inode]
<1>1. \A i \in InodeIds : disk[InodeSector(i)][i] \in Inode
  <2>1. \A s \in InodeSectors : disk[s] \in [InodesOf(s) -> Inode]
    BY DEF IInv, TypeOK
  <2> QED
    BY <2>1, Layout
<1> QED
  BY <1>1, ZeroInodeType DEF InodesIn, InodesOn

LEMMA MountKeepsIInv ==
  ASSUME IInv, Mount
  PROVE  IInv'
<1> DEFINE ino == InodesIn(disk)
           count == disk[SUPER].inode_count
           valid == Validate(ino, count)
           marked == disk[SUPER].journal_state # 0
<1> HIDE DEF ino, valid
<1>1. /\ pc = "mount"
      /\ inodes' = ino /\ bitmap' = disk[BITMAP]
      /\ superblock' = IF valid THEN [disk[SUPER] EXCEPT !.journal_state = 0] ELSE disk[SUPER]
      /\ pc' = (IF valid /\ marked THEN "recover" ELSE "idle") /\ written' = 0
      /\ UNCHANGED <<disk, view, dirty, todo, flush_ok, op, ret>>
  BY DEF Mount, Enter, ino, valid
<1>2. available' \in BOOLEAN
  BY Zenon DEF Mount, Validate
<1>3. /\ suspect' \in BOOLEAN /\ io_failed' \in BOOLEAN /\ ~ io_failed'
      /\ suspect' = NotTrusted
  BY Zenon DEF Mount, NotTrusted
<1>4. view = disk /\ dirty = {}
  BY <1>1 DEF IInv, StoreInv
<1>5. disk[SUPER] \in Superblock
  BY DEF IInv, TypeOK
<1>6. /\ superblock' \in Superblock /\ superblock'.inode_count = count
      /\ disk[SUPER].journal_state = 0 => superblock' = disk[SUPER]
  BY <1>1, <1>5 DEF Superblock
<1>7. pc' \in {"recover", "idle"}
  BY <1>1
<1>8. ~ Flushing'
  BY <1>1, <1>7 DEF Flushing, IOSteps, StepLength
<1>9. ino \in [InodeIds -> Inode]
  BY TableType DEF ino
<1>10. TypeOK'
  BY <1>1, <1>2, <1>3, <1>6, <1>7, <1>8, <1>9 DEF IInv, TypeOK, Steps, IOSteps
<1>11. OpInv'
  BY <1>1, <1>7 DEF IInv, OpInv
<1>12. StoreInv'
  BY <1>1, <1>7, <1>8 DEF IInv, StoreInv
<1>13. ASSUME ~ suspect'
       PROVE  /\ disk[SUPER].journal_state = 0
              /\ Good(ino, count, bitmap')
  <2>1. ~ suspect /\ ~ io_failed /\ disk[SUPER].journal_state = 0
    BY <1>3, <1>13, Zenon DEF NotTrusted
  <2> QED
    BY <1>1, <2>1, CleanWithoutMarker DEF ino, Trust
<1>14. MemInv'
  BY <1>1, <1>6, <1>13 DEF MemInv
<1>15. DiskInv'
  <2>1. pc' # "mount"
    BY <1>7
  <2>2. ASSUME ~ suspect'
        PROVE  pc' = "idle" /\ Synced(disk, inodes', superblock', bitmap', "idle", op)
    <3>1. disk[SUPER].journal_state = 0 /\ superblock' = disk[SUPER] /\ pc' = "idle"
      BY <1>1, <1>6, <1>13, <2>2
    <3>2. \A i \in InodeIds : inodes'[i] = disk[InodeSector(i)][i]
      BY <1>1 DEF ino, InodesIn
    <3> QED
      BY <1>1, <3>1, <3>2 DEF Synced
  <2>3. StepInv'
    BY <1>1, <1>4 DEF StepInv
  <2> QED
    BY <1>1, <1>4, <2>1, <2>2, <2>3 DEF DiskInv, Trust
<1> QED
  BY <1>10, <1>11, <1>12, <1>14, <1>15 DEF IInv

LEMMA MountFailsKeepsIInv ==
  ASSUME IInv, MountFails
  PROVE  IInv'
<1>1. /\ pc = "mount" /\ pc' = "idle" /\ written' = 0
      /\ UNCHANGED <<disk, view, dirty, available, todo, flush_ok, op, ret>>
  BY DEF MountFails, Enter
<1>2. superblock' \in Superblock /\ bitmap' \subseteq Sectors /\ inodes' \in [InodeIds -> Inode]
  BY ZeroTypes, TableType, Zenon DEF MountFails, IInv, TypeOK
<1>3. suspect' \in BOOLEAN /\ io_failed' \in BOOLEAN /\ io_failed'
  BY Zenon DEF MountFails, NotTrusted
<1>4. ~ available'
  BY <1>1 DEF IInv, StoreInv
<1>5. ~ Flushing'
  BY <1>1 DEF Flushing, IOSteps
<1>6. TypeOK'
  BY <1>1, <1>2, <1>3, <1>5 DEF IInv, TypeOK, Steps
<1>7. OpInv'
  BY <1>1 DEF IInv, OpInv
<1>8. StoreInv'
  BY <1>1, <1>5 DEF IInv, StoreInv
<1>9. MemInv' /\ DiskInv'
  BY <1>1, <1>3, <1>4 DEF MemInv, DiskInv, Trust
<1> QED
  BY <1>6, <1>7, <1>8, <1>9 DEF IInv

(* The image mkfs.py writes. *)
LEMMA InitImage ==
  /\ ImageType(InitDisk)
  /\ InodesIn(InitDisk) = InitInodes
  /\ InitDisk[SUPER].inode_count = InitCount
  /\ Good(InitInodes, InitCount, InitDisk[BITMAP])
<1>1. InitCount \in 1 .. MAX_INODES /\ InitInodes \in [InodeIds -> Inode]
  BY ImageAssumption
<1>2. /\ DOMAIN InitDisk = Sectors
      /\ InitDisk[SUPER] = [inode_count |-> InitCount, journal_state |-> 0]
      /\ InitDisk[BITMAP] = InitBitmap
  BY Layout DEF InitDisk
<1>3. ASSUME NEW s \in InodeSectors
      PROVE  InitDisk[s] = [i \in InodesOf(s) |-> InitInodes[i]]
  <2>1. s \in Sectors /\ s # SUPER /\ s # JOURNAL /\ s # BITMAP /\ s \notin DataSectors
    BY Layout
  <2> QED
    BY <2>1 DEF InitDisk
<1>4. InitDisk[SUPER] \in Superblock /\ InitDisk[SUPER].inode_count = InitCount
  BY <1>1, <1>2, LayoutAssumption DEF Superblock
<1>5. \A s \in InodeSectors : InitDisk[s] \in [InodesOf(s) -> Inode]
  BY <1>1, <1>3, Zenon DEF InodesOf
<1>6. ASSUME NEW i \in InodeIds PROVE InitDisk[InodeSector(i)][i] = InitInodes[i]
  <2>1. InodeSector(i) \in InodeSectors /\ i \in InodesOf(InodeSector(i))
    BY Layout
  <2>2. InitDisk[InodeSector(i)] = [j \in InodesOf(InodeSector(i)) |-> InitInodes[j]]
    BY <1>3, <2>1
  <2> QED
    BY <2>1, <2>2
<1>7. InodesIn(InitDisk) = InitInodes
  <2>1. InodesIn(InitDisk) = [i \in InodeIds |-> InitInodes[i]]
    BY <1>6 DEF InodesIn
  <2> QED
    BY <1>1, <2>1
<1>8. \A i \in LiveFiles(InitInodes, InitCount) :
        i \in InodeIds /\ InitInodes[i] \in Inode /\ InitInodes[i].type = FILE
  BY <1>1 DEF LiveFiles
<1>9. Good(InitInodes, InitCount, InitBitmap)
  <2>1. \A i \in LiveFiles(InitInodes, InitCount) :
          /\ InitInodes[i].first_sector >= DATA_START
          /\ InitInodes[i].first_sector + InitInodes[i].sector_count =< TOTAL_SECTORS
    BY <1>8, Zenon DEF Inode, InDataArea
  <2>2. \A i, j \in LiveFiles(InitInodes, InitCount) :
          i # j => ExtentOf(InitInodes, i) \cap ExtentOf(InitInodes, j) = {}
    BY <1>8, ImageAssumption DEF ExtentOf
  <2> QED
    BY <2>1, <2>2, ImageAssumption DEF Good, FsckClean, InitBitmap
<1>10. InitBitmap \subseteq Sectors
  <2>1. \A s : s \in InitBitmap <=> Covered(InitInodes, InitCount, s)
    BY BitsPointwise, Zenon DEF InitBitmap
  <2>2. \A s \in MetaSectors : s \in Sectors
    BY LayoutAssumption DEF MetaSectors, Sectors
  <2>3. \A i \in LiveFiles(InitInodes, InitCount) : \A s \in ExtentOf(InitInodes, i) : s \in Sectors
    BY <1>8, ExtentsAboveMeta DEF ExtentOf
  <2> QED
    BY <2>1, <2>2, <2>3 DEF Covered
<1> QED
  BY <1>2, <1>4, <1>5, <1>7, <1>9, <1>10 DEF ImageType

LEMMA InitIInv ==
  ASSUME Init
  PROVE  IInv
<1>1. /\ disk = InitDisk /\ view = disk /\ dirty = {} /\ superblock = ZeroSuperblock
      /\ inodes = ZeroInodes /\ bitmap = {} /\ pc = "mount" /\ written = 0 /\ op = NoOp
  BY DEF Init, StoreInit
<1>2. /\ available \in BOOLEAN /\ ~ available /\ flush_ok \in BOOLEAN /\ ret \in BOOLEAN
      /\ io_failed \in BOOLEAN /\ suspect \in BOOLEAN
  BY Zenon DEF Init
<1>3. ~ Flushing
  BY <1>1 DEF Flushing, IOSteps
<1>4. TypeOK
  BY <1>1, <1>2, <1>3, InitImage, ZeroTypes DEF TypeOK, ImageType, Steps
<1>5. OpInv
  BY <1>1, NoOpType DEF OpInv
<1>6. StoreInv
  BY <1>1, <1>2, <1>3 DEF StoreInv
<1>7. MemInv /\ DiskInv
  BY <1>1, InitImage DEF MemInv, DiskInv
<1> QED
  BY <1>4, <1>5, <1>6, <1>7 DEF IInv

------------------------------------------------------------------------------
(***************************************************************************)
(* The theorems.                                                           *)
(***************************************************************************)

LEMMA NextKeepsIInv ==
  ASSUME IInv, [Next]_vars
  PROVE  IInv'
<1>1. CASE Calls
  BY <1>1, CallsKeepIInv
<1>2. CASE Mutation
  BY <1>2, MutationKeepsIInv
<1>3. CASE Transfers
  <2>1. CASE WriteSector
    BY <2>1, WriteSectorKeepsIInv
  <2>2. ASSUME NEW s \in Sectors,
               \/ Evict(s) \/ EvictByRead(s) \/ EvictByReadFails(s)
               \/ FlushSector(s) \/ FlushSectorFails(s)
        PROVE  IInv'
    BY <2>2, TransferActions
  <2>3. CASE WriteSectorFails \/ FlushFailed
    BY <2>3, FailedStepsKeepIInv
  <2>4. CASE StepDone
    BY <2>4, StepDoneKeepsIInv
  <2>5. CASE CallDone
    BY <2>5, CallDoneKeepsIInv
  <2> QED
    BY <1>3, <2>1, <2>2, <2>3, <2>4, <2>5 DEF Transfers
<1>4. CASE Crash
  BY <1>4, CrashKeepsIInv
<1>5. CASE Mount
  BY <1>5, MountKeepsIInv
<1>6. CASE MountFails
  BY <1>6, MountFailsKeepsIInv
<1>7. CASE UNCHANGED vars
  <2>1. UNCHANGED <<disk, view, dirty, memVars, pc, ioVars, op, ret, io_failed, suspect>>
    BY <1>7 DEF vars, callVars, histVars
  <2>2. ret' \in BOOLEAN
    BY <2>1 DEF IInv, TypeOK
  <2> QED
    BY <2>1, <2>2, QuietKeepsIInv
<1> QED
  BY <1>1, <1>2, <1>3, <1>4, <1>5, <1>6, <1>7 DEF Next

LEMMA DiskFSKeepsInvariant == Spec => []IInv
<1>1. Init => IInv
  BY InitIInv
<1>2. IInv /\ [Next]_vars => IInv'
  BY NextKeepsIInv
<1> QED
  BY <1>1, <1>2, PTL DEF Spec

(* Every variable of diskfs.c, and every metadata sector, keeps its type:  *)
(* in particular every file lies in the data area.                         *)
THEOREM DiskFSTypes == Spec => []TypeOK
<1>1. IInv => TypeOK
  BY DEF IInv
<1> QED
  BY <1>1, DiskFSKeepsInvariant, PTL

(* Whatever operations are called, whatever fails and whenever power is    *)
(* lost, the metadata in memory of an image that was clean when mounted is *)
(* what diskfs_fsck calls clean.                                           *)
THEOREM DiskFSMemoryClean == Spec => []MemoryClean
<1>1. IInv => MemoryClean
  <2> SUFFICES ASSUME IInv, available, ~ suspect
               PROVE  FsckClean(inodes, superblock.inode_count, bitmap)
    BY DEF MemoryClean
  <2>1. pc # "mount"
    BY DEF IInv, StoreInv
  <2> QED
    BY <2>1 DEF IInv, MemInv, Good
<1> QED
  BY <1>1, DiskFSKeepsInvariant, PTL

(* The write order of the operations and the marker together: wherever     *)
(* power is lost, an image without the marker is clean.                    *)
THEOREM DiskFSCleanMarker == Spec => []CleanMarkerMeansClean
<1>1. IInv => CleanMarkerMeansClean
  BY CleanWithoutMarker DEF CleanMarkerMeansClean, Trust, Good
<1> QED
  BY <1>1, DiskFSKeepsInvariant, PTL
==============================================================================
