-------------------------- MODULE SectorCacheProofs --------------------------
(***************************************************************************)
(* The sector cache is coherent and implements the sector store, for every *)
(* number of slots, every set of sectors and every pattern of failing      *)
(* transfers and reboots.                                                  *)
(***************************************************************************)
EXTENDS SectorCache, TLAPS

IInv == TypeOK /\ CacheInv

(* The initial, zeroed cache. *)
LEMMA InitIInv == Init => IInv
BY CacheAssumption
   DEF Init, IInv, TypeOK, CacheInv, Entry, ZeroEntry, Accesses, Results, NoAccess, Slots,
       NoSectorTwice, CleanEntryIsOnDisk, AccessInv, FlushInv

(* The hand stays on a slot. *)
LEMMA ClockInRange == TypeOK /\ AdvanceClock => cache_clock' \in Slots
BY CacheAssumption DEF TypeOK, AdvanceClock, Slots

(* A transfer of a slot, successful or not, leaves coherence intact. *)
LEMMA WriteEntryKeeps ==
  ASSUME IInv, NEW i \in Slots, NeedsWriteback(i), WriteEntry(i) \/ WriteEntryFails(i)
  PROVE  /\ disk' \in [Sectors -> Contents]
         /\ cache' \in [Slots -> Entry]
         /\ \A j \in Slots : cache'[j].valid => cache'[j].sector \in Sectors
         /\ \A j \in Slots : cache'[j].valid = cache[j].valid
                             /\ cache'[j].sector = cache[j].sector
                             /\ cache'[j].data = cache[j].data
         /\ \A j \in Slots : j # i => cache'[j] = cache[j]
         /\ NoSectorTwice'
         /\ CleanEntryIsOnDisk'
<1> USE DEF IInv, TypeOK, CacheInv
<1>1. /\ cache[i].valid /\ cache[i].sector \in Sectors /\ cache[i].data \in Contents
      /\ cache[i].dirty
  BY DEF NeedsWriteback, Entry
<1>2. /\ disk' \in [Sectors -> Contents]
      /\ \A s \in Sectors : s # cache[i].sector => disk'[s] = disk[s]
  BY <1>1 DEF WriteEntry, WriteEntryFails
<1>3. /\ cache' \in [Slots -> Entry]
      /\ \A j \in Slots : cache'[j].valid = cache[j].valid
                          /\ cache'[j].sector = cache[j].sector
                          /\ cache'[j].data = cache[j].data
      /\ \A j \in Slots : j # i => cache'[j] = cache[j]
  <2>1. CASE WriteEntry(i)
    BY <1>1, <2>1, Zenon DEF WriteEntry, Entry
  <2>2. CASE WriteEntryFails(i)
    BY <2>2 DEF WriteEntryFails
  <2> QED
    BY <2>1, <2>2
<1>4. NoSectorTwice'
  BY <1>3 DEF NoSectorTwice
<1>5. CleanEntryIsOnDisk'
  <2> SUFFICES ASSUME NEW j \in Slots, cache'[j].valid, ~ cache'[j].dirty
               PROVE  cache'[j].data = disk'[cache'[j].sector]
    BY DEF CleanEntryIsOnDisk
  <2>1. CASE j = i
    BY <1>1, <2>1 DEF WriteEntry, WriteEntryFails, Entry
  <2>2. CASE j # i
    <3>1. cache[j].sector # cache[i].sector
      BY <1>1, <1>3, <2>2 DEF NoSectorTwice
    <3> QED
      BY <1>2, <1>3, <2>2, <3>1 DEF CleanEntryIsOnDisk
  <2> QED
    BY <2>1, <2>2
<1> QED
  BY <1>2, <1>3, <1>4, <1>5

(* Each action keeps the cache coherent. *)
LEMMA NextKeepsIInv == IInv /\ [Next]_vars => IInv'
<1> SUFFICES ASSUME IInv, [Next]_vars PROVE IInv'
  OBVIOUS
<1> USE CacheAssumption DEF IInv
<1>1. ASSUME NEW s \in Sectors, ReadHit(s) PROVE IInv'
  <2>1. cache_clock' \in Slots
    BY <1>1, ClockInRange DEF ReadHit
  <2>2. result' \in Results
    BY <1>1 DEF ReadHit, Return, Results, TypeOK, Entry, Hits
  <2> QED
    BY <1>1, <2>1, <2>2 DEF ReadHit, TypeOK, CacheInv, NoSectorTwice, CleanEntryIsOnDisk,
       AccessInv, FlushInv, NeedsWriteback, Hits, Idle
<1>2. ASSUME NEW s \in Sectors, NEW c \in Contents, WriteHit(s, c) PROVE IInv'
  <2>1. cache_clock' \in Slots
    BY <1>2, ClockInRange DEF WriteHit
  <2>2. PICK i \in Hits(cache, s) : cache' = [cache EXCEPT ![i].dirty = TRUE, ![i].data = c]
    BY <1>2, Zenon DEF WriteHit
  <2>3. /\ i \in Slots /\ cache[i].valid /\ cache[i].sector = s
        /\ cache' \in [Slots -> Entry]
        /\ \A j \in Slots : j # i => cache'[j] = cache[j]
        /\ cache'[i].valid /\ cache'[i].sector = s /\ cache'[i].dirty /\ cache'[i].data = c
    BY <2>2, Zenon DEF Hits, TypeOK, Entry
  <2>4. TypeOK'
    BY <1>2, <2>1, <2>3 DEF WriteHit, Return, Results, TypeOK
  <2>5. NoSectorTwice'
    BY <2>3 DEF NoSectorTwice, CacheInv
  <2>6. CleanEntryIsOnDisk'
    BY <1>2, <2>3 DEF WriteHit, CleanEntryIsOnDisk, CacheInv
  <2> QED
    BY <1>2, <2>4, <2>5, <2>6 DEF WriteHit, CacheInv, AccessInv, FlushInv, Idle, TypeOK
<1>3. ASSUME NEW s \in Sectors, NEW w \in BOOLEAN, NEW c \in Contents, Miss(s, w, c)
      PROVE  IInv'
  <2>1. cache_clock' \in Slots /\ cache_clock \in Slots
    BY <1>3, ClockInRange DEF Miss, TypeOK
  <2>2. /\ disk' \in [Sectors -> Contents]
        /\ cache' \in [Slots -> Entry]
        /\ \A j \in Slots : cache'[j].valid => cache'[j].sector \in Sectors
        /\ \A j \in Slots : cache'[j].valid = cache[j].valid
                            /\ cache'[j].sector = cache[j].sector
        /\ NoSectorTwice'
        /\ CleanEntryIsOnDisk'
        /\ ~ (cache'[cache_clock].valid /\ cache'[cache_clock].dirty)
    <3>1. CASE NeedsWriteback(cache_clock)
      <4>1. WriteEntry(cache_clock)
        BY <1>3, <3>1 DEF Miss
      <4>2. cache'[cache_clock].dirty = FALSE
        BY <4>1, <2>1 DEF WriteEntry, TypeOK, Entry
      <4> QED
        BY <3>1, <4>1, <4>2, <2>1, WriteEntryKeeps
    <3>2. CASE ~ NeedsWriteback(cache_clock)
      <4>1. disk' = disk /\ cache' = cache
        BY <1>3, <3>2 DEF Miss
      <4> QED
        BY <3>2, <4>1, <2>1 DEF TypeOK, CacheInv, NoSectorTwice, CleanEntryIsOnDisk, NeedsWriteback
    <3> QED
      BY <3>1, <3>2
  <2>3. access' \in Accesses /\ access'.slot = cache_clock /\ access'.sector = s
    BY <1>3, <2>1 DEF Miss, Accesses
  <2>4. TypeOK'
    BY <1>3, <2>1, <2>2, <2>3 DEF Miss, TypeOK
  <2>5. AccessInv'
    BY <1>3, <2>2, <2>3 DEF Miss, AccessInv, NeedsWriteback, Hits, Idle
  <2> QED
    BY <1>3, <2>2, <2>4, <2>5 DEF Miss, CacheInv, FlushInv, Idle, TypeOK
<1>4. ASSUME NEW s \in Sectors, NEW w \in BOOLEAN, MissWritebackFails(s, w) PROVE IInv'
  <2>1. cache_clock' \in Slots /\ cache_clock \in Slots
    BY <1>4, ClockInRange DEF MissWritebackFails, TypeOK
  <2>2. /\ disk' \in [Sectors -> Contents]
        /\ NoSectorTwice'
        /\ CleanEntryIsOnDisk'
    BY <1>4, <2>1, WriteEntryKeeps DEF MissWritebackFails
  <2>3. cache' = cache
    BY <1>4 DEF MissWritebackFails, WriteEntryFails
  <2> QED
    BY <1>4, <2>1, <2>2, <2>3 DEF MissWritebackFails, Return, Call, Results, TypeOK, CacheInv,
       AccessInv, FlushInv, NeedsWriteback, Hits, Idle
<1>5. CASE Fill
  <2>1. /\ access.sector \in Sectors /\ access.slot \in Slots /\ access.for_write \in BOOLEAN
        /\ access.content \in Contents
        /\ Hits(cache, access.sector) = {} /\ flushing = CACHE_SLOTS
    BY <1>5 DEF Fill, TypeOK, Accesses, CacheInv, AccessInv
  <2> DEFINE content == IF access.for_write THEN access.content ELSE disk[access.sector]
  <2>2. content \in Contents
    BY <2>1 DEF TypeOK
  <2>3. /\ cache' = [cache EXCEPT ![access.slot] =
                      [valid |-> TRUE, dirty |-> access.for_write,
                       sector |-> access.sector, data |-> content]]
        /\ disk' = disk
    BY <1>5 DEF Fill
  <2>4. /\ cache' \in [Slots -> Entry]
        /\ \A j \in Slots : j # access.slot => cache'[j] = cache[j]
        /\ cache'[access.slot].valid /\ cache'[access.slot].sector = access.sector
        /\ cache'[access.slot].dirty = access.for_write
        /\ cache'[access.slot].data = content
    BY <2>1, <2>2, <2>3 DEF TypeOK, Entry
  <2>5. TypeOK'
    BY <1>5, <2>1, <2>2, <2>4
    DEF Fill, TypeOK, Return, Call, Results, NoAccess, Accesses, Slots
  <2>6. NoSectorTwice'
    BY <2>1, <2>4 DEF CacheInv, NoSectorTwice, Hits
  <2>7. CleanEntryIsOnDisk'
    BY <2>1, <2>3, <2>4 DEF CacheInv, CleanEntryIsOnDisk
  <2> QED
    BY <1>5, <2>1, <2>5, <2>6, <2>7 DEF Fill, CacheInv, AccessInv, FlushInv, NoAccess, TypeOK
<1>6. CASE FillFails
  <2>1. /\ access.sector \in Sectors /\ access.slot \in Slots /\ access.for_write \in BOOLEAN
        /\ flushing = CACHE_SLOTS
    BY <1>6 DEF FillFails, TypeOK, Accesses, CacheInv, AccessInv
  <2>2. /\ cache' \in [Slots -> Entry]
        /\ \A j \in Slots : j # access.slot => cache'[j] = cache[j]
        /\ ~ cache'[access.slot].valid
    BY <1>6, <2>1, Zenon DEF FillFails, TypeOK, Entry
  <2>3. TypeOK'
    BY <1>6, <2>1, <2>2
    DEF FillFails, TypeOK, Return, Call, Results, NoAccess, Accesses, Slots
  <2>4. NoSectorTwice' /\ CleanEntryIsOnDisk'
    BY <1>6, <2>2 DEF FillFails, CacheInv, NoSectorTwice, CleanEntryIsOnDisk
  <2> QED
    BY <1>6, <2>1, <2>3, <2>4 DEF FillFails, CacheInv, AccessInv, FlushInv, NoAccess, TypeOK
<1>7. CASE FlushStart
  BY <1>7 DEF FlushStart, TypeOK, CacheInv, NoSectorTwice, CleanEntryIsOnDisk, AccessInv,
     FlushInv, NeedsWriteback, Idle
<1>8. CASE FlushSlot
  <2>1. flushing \in Slots /\ access.sector = NoSector
    BY <1>8 DEF FlushSlot, TypeOK, Slots, CacheInv, AccessInv
  <2>2. /\ disk' \in [Sectors -> Contents]
        /\ cache' \in [Slots -> Entry]
        /\ \A j \in Slots : cache'[j].valid => cache'[j].sector \in Sectors
        /\ NoSectorTwice'
        /\ CleanEntryIsOnDisk'
        /\ \A j \in Slots : j # flushing => cache'[j] = cache[j]
        /\ ~ (cache'[flushing].valid /\ cache'[flushing].dirty)
    <3>1. CASE NeedsWriteback(flushing)
      <4>1. WriteEntry(flushing)
        BY <1>8, <3>1 DEF FlushSlot
      <4>2. cache'[flushing].dirty = FALSE
        BY <4>1, <2>1 DEF WriteEntry, TypeOK, Entry
      <4> QED
        BY <3>1, <4>1, <4>2, <2>1, WriteEntryKeeps
    <3>2. CASE ~ NeedsWriteback(flushing)
      <4>1. disk' = disk /\ cache' = cache
        BY <1>8, <3>2 DEF FlushSlot
      <4> QED
        BY <3>2, <4>1, <2>1 DEF TypeOK, CacheInv, NoSectorTwice, CleanEntryIsOnDisk, NeedsWriteback
    <3> QED
      BY <3>1, <3>2
  <2>3. TypeOK'
    BY <1>8, <2>1, <2>2 DEF FlushSlot, FlushNext, TypeOK, Return, Results, Slots
  <2>4. FlushInv'
    BY <1>8, <2>1, <2>2 DEF FlushSlot, FlushNext, TypeOK, CacheInv, FlushInv, NeedsWriteback, Slots
  <2> QED
    BY <1>8, <2>1, <2>2, <2>3, <2>4 DEF FlushSlot, FlushNext, CacheInv, AccessInv
<1>9. CASE FlushSlotFails
  <2>1. flushing \in Slots /\ access.sector = NoSector
    BY <1>9 DEF FlushSlotFails, TypeOK, Slots, CacheInv, AccessInv
  <2>2. /\ disk' \in [Sectors -> Contents]
        /\ NoSectorTwice'
        /\ CleanEntryIsOnDisk'
    BY <1>9, <2>1, WriteEntryKeeps DEF FlushSlotFails
  <2>3. cache' = cache
    BY <1>9 DEF FlushSlotFails, WriteEntryFails
  <2>5. /\ flush_ok' = FALSE /\ flush_ok' \in BOOLEAN
        /\ access' = access /\ cache_clock' = cache_clock /\ flushing' = flushing + 1
    BY <1>9, Zenon DEF FlushSlotFails, FlushNext
  <2>7. flushing' \in 0 .. CACHE_SLOTS
    BY <2>1, <2>5 DEF TypeOK, Slots
  <2>6. result' \in Results
    <3>1. CASE flushing + 1 = CACHE_SLOTS
      <4>1. result' = [call |-> "flush", ok |-> FALSE, sector |-> NoSector, content |-> Zero]
        BY <1>9, <3>1, Zenon DEF FlushSlotFails, FlushNext, Return
      <4> QED
        BY <4>1 DEF Results
    <3>2. CASE flushing + 1 # CACHE_SLOTS
      BY <1>9, <3>2 DEF FlushSlotFails, FlushNext, TypeOK
    <3> QED
      BY <3>1, <3>2
  <2>4. TypeOK'
    BY <2>2, <2>3, <2>5, <2>6, <2>7 DEF TypeOK
  <2> QED
    BY <2>1, <2>2, <2>4, <2>5 DEF CacheInv, AccessInv, FlushInv
<1>10. CASE Reboot
  BY <1>10 DEF Reboot, Return, TypeOK, CacheInv, Entry, ZeroEntry, Accesses, Results, NoAccess,
     Slots, NoSectorTwice, CleanEntryIsOnDisk, AccessInv, FlushInv
<1>11. CASE UNCHANGED vars
  BY <1>11 DEF vars, TypeOK, CacheInv, NoSectorTwice, CleanEntryIsOnDisk, AccessInv, FlushInv,
     NeedsWriteback, Hits
<1> QED
  BY <1>1, <1>2, <1>3, <1>4, <1>5, <1>6, <1>7, <1>8, <1>9, <1>10, <1>11, Zenon DEF Next

(* The cache of diskfs keeps one valid slot per sector and its clean slots *)
(* equal to the disk, in every reachable state.                            *)
THEOREM CacheCoherent == Spec => [](TypeOK /\ CacheInv)
<1>1. Spec => []IInv
  BY InitIInv, NextKeepsIInv, PTL DEF Spec
<1> QED
  BY <1>1, PTL DEF IInv

------------------------------------------------------------------------------
(***************************************************************************)
(* Refinement of SectorStore.                                              *)
(***************************************************************************)
(* With one slot per sector, the content of a cached sector is that slot's *)
(* data.                                                                   *)
LEMMA ContentOfHit ==
  ASSUME IInv, NEW s \in Sectors, NEW i \in Hits(cache, s)
  PROVE  Content(cache, disk, s) = cache[i].data
<1>1. Hits(cache, s) = {i}
  BY DEF IInv, CacheInv, NoSectorTwice, Hits
<1> QED
  BY <1>1 DEF Content

(* A sector that is not dirty reads as the disk holds it. *)
LEMMA CleanContent ==
  ASSUME IInv, NEW s \in Sectors, s \notin Dirty(cache)
  PROVE  Content(cache, disk, s) = disk[s]
<1>1. CASE Hits(cache, s) = {}
  BY <1>1 DEF Content
<1>2. ASSUME NEW i \in Hits(cache, s) PROVE Content(cache, disk, s) = disk[s]
  BY <1>2, ContentOfHit DEF Dirty, Hits, IInv, CacheInv, CleanEntryIsOnDisk
<1> QED
  BY <1>1, <1>2

(* A transfer changes neither what any sector reads as nor which other     *)
(* sectors are dirty.                                                      *)
LEMMA TransferMaps ==
  ASSUME IInv, IInv', NEW i \in Slots, NeedsWriteback(i)
  PROVE  /\ WriteEntry(i) => Store!Writeback(cache[i].sector)
         /\ WriteEntryFails(i) => Store!WritebackFails(cache[i].sector)
<1> DEFINE t == cache[i].sector
<1>1. t \in Sectors /\ i \in Hits(cache, t) /\ t \in Dirty(cache)
  BY DEF NeedsWriteback, Hits, Dirty, IInv, TypeOK
<1>2. View[t] = cache[i].data
  BY <1>1, ContentOfHit DEF View
<1>3. ASSUME WriteEntry(i) PROVE Store!Writeback(t)
  <2>1. \A j \in Slots : /\ cache'[j].valid = cache[j].valid
                         /\ cache'[j].sector = cache[j].sector
                         /\ cache'[j].data = cache[j].data
                         /\ j # i => cache'[j] = cache[j]
    BY <1>3, WriteEntryKeeps
  <2>2. cache'[i].dirty = FALSE /\ disk' = [disk EXCEPT ![t] = cache[i].data]
    BY <1>3 DEF WriteEntry, IInv, TypeOK, Entry
  <2>3. \A s \in Sectors : Hits(cache', s) = Hits(cache, s)
    BY <2>1 DEF Hits
  <2>4. ASSUME NEW s \in Sectors PROVE Content(cache', disk', s) = Content(cache, disk, s)
    <3>1. CASE Hits(cache, s) = {}
      <4>1. s # t
        BY <3>1, <1>1
      <4> QED
        BY <3>1, <4>1, <2>2, <2>3 DEF Content, IInv, TypeOK
    <3>2. ASSUME NEW j \in Hits(cache, s) PROVE Content(cache', disk', s) = Content(cache, disk, s)
      <4>1. Content(cache, disk, s) = cache[j].data
        BY ContentOfHit
      <4>2. Hits(cache', s) = {j}
        BY <2>3, <3>2 DEF IInv, CacheInv, NoSectorTwice, Hits
      <4>3. Content(cache', disk', s) = cache'[j].data
        BY <4>2 DEF Content
      <4> QED
        BY <4>1, <4>3, <2>1, <3>2 DEF Hits
    <3> QED
      BY <3>1, <3>2
  <2>5. Dirty(cache') = Dirty(cache) \ {t}
    <3>1. \A s \in Sectors : s # t => i \notin Hits(cache, s)
      BY DEF Hits
    <3>2. \A s \in Sectors : \A j \in Hits(cache, s) : j # i => cache'[j].dirty = cache[j].dirty
      BY <2>1 DEF Hits
    <3>3. Hits(cache, t) = {i}
      BY <1>1 DEF IInv, CacheInv, NoSectorTwice, Hits
    <3> QED
      BY <2>2, <2>3, <3>1, <3>2, <3>3 DEF Dirty
  <2>6. View' = View
    BY <2>4 DEF View
  <2> QED
    BY <1>1, <1>2, <2>2, <2>5, <2>6, Zenon DEF Store!Writeback, View
<1>4. ASSUME WriteEntryFails(i) PROVE Store!WritebackFails(t)
  <2>1. cache' = cache
    BY <1>4 DEF WriteEntryFails
  <2>2. disk' \in {disk, [disk EXCEPT ![t] = cache[i].data]}
    BY <1>4 DEF WriteEntryFails
  <2>3. \A s \in Sectors : Hits(cache', s) = Hits(cache, s)
    BY <2>1 DEF Hits
  <2>4. ASSUME NEW s \in Sectors PROVE Content(cache', disk', s) = Content(cache, disk, s)
    <3>1. CASE Hits(cache, s) = {}
      <4>1. s # t
        BY <3>1, <1>1
      <4> QED
        BY <3>1, <4>1, <2>2, <2>3 DEF Content, IInv, TypeOK
    <3>2. CASE Hits(cache, s) # {}
      BY <2>1, <2>3, <3>2 DEF Content
    <3> QED
      BY <3>1, <3>2
  <2>5. Dirty(cache') = Dirty(cache)
    BY <2>1, <2>3 DEF Dirty
  <2>6. View' = View
    BY <2>4 DEF View
  <2> QED
    BY <1>1, <1>2, <2>2, <2>5, <2>6 DEF Store!WritebackFails, View
<1> QED
  BY <1>3, <1>4

(* A write stores its content in one slot and leaves the other sectors     *)
(* as they were.                                                           *)
LEMMA StoreMaps ==
  ASSUME IInv, IInv', NEW i \in Slots, NEW s \in Sectors, NEW c \in Contents,
         NEW d \in BOOLEAN,
         disk' = disk,
         cache' = [cache EXCEPT ![i] = [valid |-> TRUE, dirty |-> d, sector |-> s, data |-> c]],
         i \in Hits(cache, s) \/ (~ NeedsWriteback(i) /\ Hits(cache, s) = {})
  PROVE  /\ \A r \in Sectors : r # s => Content(cache', disk', r) = Content(cache, disk, r)
         /\ Content(cache', disk', s) = c
         /\ Dirty(cache') = (Dirty(cache) \ {s}) \cup (IF d THEN {s} ELSE {})
<1>1. /\ cache'[i].valid /\ cache'[i].sector = s /\ cache'[i].data = c /\ cache'[i].dirty = d
      /\ \A j \in Slots : j # i => cache'[j] = cache[j]
  BY DEF IInv, TypeOK
<1>2. Hits(cache', s) = {i}
  BY <1>1 DEF IInv, CacheInv, NoSectorTwice, Hits
<1>3. Content(cache', disk', s) = c
  BY <1>1, <1>2, Zenon DEF Content
<1>4. ASSUME NEW r \in Sectors, r # s
      PROVE  /\ Content(cache', disk', r) = Content(cache, disk, r)
             /\ r \in Dirty(cache') <=> r \in Dirty(cache)
  <2>1. Hits(cache', r) = Hits(cache, r) \ {i}
    BY <1>1, <1>4 DEF Hits
  <2>2. CASE i \in Hits(cache, r)
    <3>1. Hits(cache, r) = {i} /\ Hits(cache', r) = {}
      BY <2>1, <2>2 DEF IInv, CacheInv, NoSectorTwice, Hits
    <3>2. ~ NeedsWriteback(i)
      BY <1>4, <2>2 DEF Hits
    <3>3. r \notin Dirty(cache) /\ r \notin Dirty(cache')
      BY <3>1, <3>2, <2>2 DEF Dirty, NeedsWriteback, Hits
    <3>4. Content(cache, disk, r) = disk[r]
      BY <3>3, CleanContent
    <3> QED
      BY <3>1, <3>3, <3>4, Zenon DEF Content
  <2>3. CASE i \notin Hits(cache, r)
    <3>1. Hits(cache', r) = Hits(cache, r)
      BY <2>1, <2>3, Zenon
    <3>2. \A j \in Hits(cache, r) : cache'[j] = cache[j]
      BY <1>1, <2>3 DEF Hits
    <3>3. CASE Hits(cache, r) = {}
      BY <3>1, <3>3, Zenon DEF Content, Dirty
    <3>4. ASSUME NEW j \in Hits(cache, r)
          PROVE  Content(cache', disk', r) = Content(cache, disk, r)
      <4>1. Hits(cache, r) = {j} /\ Hits(cache', r) = {j}
        BY <3>1, <3>4 DEF IInv, CacheInv, NoSectorTwice, Hits
      <4> QED
        <5>1. Content(cache', disk', r) = cache'[j].data
          BY <4>1, Zenon DEF Content
        <5>2. Content(cache, disk, r) = cache[j].data
          BY ContentOfHit
        <5> QED
          BY <5>1, <5>2, <3>2
    <3> QED
      BY <3>1, <3>2, <3>3, <3>4, Zenon DEF Dirty
  <2> QED
    BY <2>2, <2>3
<1>5. s \in Dirty(cache') <=> d
  BY <1>1, <1>2, Zenon DEF Dirty
<1>6. Dirty(cache') \subseteq Sectors /\ Dirty(cache) \subseteq Sectors
  BY DEF Dirty
<1> QED
  BY <1>3, <1>4, <1>5, <1>6, Zenon

(* write_sector on a cached sector, and the end of every miss, store one   *)
(* entry in one slot.                                                      *)
LEMMA WriteHitStores ==
  ASSUME IInv, NEW s \in Sectors, NEW c \in Contents, WriteHit(s, c)
  PROVE  \E i \in Hits(cache, s) :
           cache' = [cache EXCEPT ![i] = [valid |-> TRUE, dirty |-> TRUE, sector |-> s, data |-> c]]
<1>1. PICK i \in Hits(cache, s) : cache' = [cache EXCEPT ![i].dirty = TRUE, ![i].data = c]
  BY Zenon DEF WriteHit
<1>2. i \in Slots /\ cache[i].valid = TRUE /\ cache[i].sector = s
  BY DEF Hits, IInv, TypeOK, Entry
<1>3. cache' = [cache EXCEPT ![i] = [valid |-> TRUE, dirty |-> TRUE, sector |-> s, data |-> c]]
  <2> DEFINE e == [valid |-> TRUE, dirty |-> TRUE, sector |-> s, data |-> c]
  <2>1. cache \in [Slots -> Entry] /\ cache' \in [Slots -> Entry]
    BY <1>1, <1>2, Zenon DEF IInv, TypeOK, Entry
  <2>2. cache'[i] = e
    <3>1. cache'[i] \in Entry /\ cache'[i].valid = TRUE /\ cache'[i].dirty = TRUE
          /\ cache'[i].sector = s /\ cache'[i].data = c
      BY <1>1, <1>2, <2>1 DEF Entry
    <3> QED
      BY <3>1, Zenon DEF Entry
  <2>3. \A j \in Slots : j # i => cache'[j] = cache[j]
    BY <1>1, <2>1
  <2> QED
    BY <1>2, <2>1, <2>2, <2>3
<1> QED
  BY <1>3, Zenon

LEMMA FillStores ==
  ASSUME IInv, Fill
  PROVE  \E c \in Contents :
           /\ c = (IF access.for_write THEN access.content ELSE disk[access.sector])
           /\ cache' = [cache EXCEPT ![access.slot] =
                          [valid |-> TRUE, dirty |-> access.for_write,
                           sector |-> access.sector, data |-> c]]
           /\ access.sector \in Sectors /\ access.slot \in Slots
           /\ access.for_write \in BOOLEAN
           /\ ~ NeedsWriteback(access.slot) /\ Hits(cache, access.sector) = {}
           /\ result' = [call |-> Call(access.for_write), ok |-> TRUE,
                         sector |-> access.sector, content |-> c]
BY Zenon DEF IInv, TypeOK, CacheInv, AccessInv, Fill, Return, Accesses

(* Every step of the cache is a step of the sector store or leaves it      *)
(* alone.                                                                  *)
LEMMA NextMaps ==
  ASSUME IInv, IInv', [Next]_vars
  PROVE  [Store!StoreNext]_(Store!storeVars)
<1> USE CacheAssumption
<1> DEFINE Same == disk' = disk /\ View' = View /\ Dirty(cache') = Dirty(cache)
<1>0. Same => UNCHANGED Store!storeVars
  BY DEF Store!storeVars
<1>1. ASSUME NEW s \in Sectors, Store!Put(s, View'[s]) \/ Store!Writeback(s) \/ Store!WritebackFails(s)
      PROVE  Store!StoreNext
  BY <1>1 DEF Store!StoreNext
<1>2. cache' = cache /\ disk' = disk => Same
  BY DEF View
<1>3. ASSUME NEW i \in Slots, NeedsWriteback(i), WriteEntry(i) \/ WriteEntryFails(i)
      PROVE  Store!StoreNext
  <2>1. cache[i].sector \in Sectors
    BY <1>3 DEF IInv, TypeOK, NeedsWriteback
  <2> QED
    BY <1>1, <1>3, <2>1, TransferMaps
<1>4. ASSUME NEW s \in Sectors, ReadHit(s) PROVE Same
  BY <1>2, <1>4 DEF ReadHit
<1>5. ASSUME NEW s \in Sectors, NEW c \in Contents, WriteHit(s, c) PROVE Store!StoreNext
  <2>1. PICK i \in Hits(cache, s) :
          cache' = [cache EXCEPT ![i] = [valid |-> TRUE, dirty |-> TRUE, sector |-> s, data |-> c]]
    BY <1>5, WriteHitStores
  <2>2. disk' = disk /\ i \in Slots
    BY <1>5 DEF WriteHit, Hits
  <2>3. /\ \A r \in Sectors : r # s => Content(cache', disk', r) = Content(cache, disk, r)
        /\ Content(cache', disk', s) = c
        /\ Dirty(cache') = (Dirty(cache) \ {s}) \cup {s}
    BY <2>1, <2>2, StoreMaps, Zenon
  <2>4. View' = [View EXCEPT ![s] = View'[s]] /\ Dirty(cache') = Dirty(cache) \cup {s}
    BY <2>3, Zenon DEF View
  <2>5. Store!Put(s, View'[s])
    BY <2>2, <2>4 DEF Store!Put
  <2> QED
    BY <1>1, <2>5
<1>6. ASSUME NEW s \in Sectors, NEW w \in BOOLEAN, NEW c \in Contents, Miss(s, w, c)
      PROVE  Store!StoreNext \/ Same
  <2>1. cache_clock \in Slots
    BY DEF IInv, TypeOK
  <2>2. CASE NeedsWriteback(cache_clock)
    BY <1>3, <1>6, <2>1, <2>2 DEF Miss
  <2>3. CASE ~ NeedsWriteback(cache_clock)
    BY <1>2, <1>6, <2>3 DEF Miss
  <2> QED
    BY <2>2, <2>3
<1>7. ASSUME NEW s \in Sectors, NEW w \in BOOLEAN, MissWritebackFails(s, w)
      PROVE  Store!StoreNext
  <2>1. cache_clock \in Slots
    BY DEF IInv, TypeOK
  <2> QED
    BY <1>3, <1>7, <2>1 DEF MissWritebackFails
<1>8. CASE Fill
  <2>1. PICK c \in Contents :
           /\ c = (IF access.for_write THEN access.content ELSE disk[access.sector])
           /\ cache' = [cache EXCEPT ![access.slot] =
                          [valid |-> TRUE, dirty |-> access.for_write,
                           sector |-> access.sector, data |-> c]]
           /\ access.sector \in Sectors /\ access.slot \in Slots
           /\ access.for_write \in BOOLEAN
           /\ ~ NeedsWriteback(access.slot) /\ Hits(cache, access.sector) = {}
    BY <1>8, FillStores, Zenon
  <2>2. disk' = disk
    BY <1>8 DEF Fill
  <2> DEFINE s == access.sector
  <2>3. /\ \A r \in Sectors : r # s => Content(cache', disk', r) = Content(cache, disk, r)
        /\ Content(cache', disk', s) = c
        /\ Dirty(cache') = (Dirty(cache) \ {s}) \cup (IF access.for_write THEN {s} ELSE {})
    BY <2>1, <2>2, StoreMaps, Zenon
  <2>4. CASE access.for_write
    <3>1. View' = [View EXCEPT ![s] = View'[s]] /\ Dirty(cache') = Dirty(cache) \cup {s}
      BY <2>1, <2>3, <2>4, Zenon DEF View
    <3>2. Store!Put(s, View'[s])
      BY <2>2, <3>1 DEF Store!Put
    <3> QED
      BY <1>1, <2>1, <3>2
  <2>5. CASE ~ access.for_write
    <3>1. s \notin Dirty(cache) /\ Content(cache, disk, s) = disk[s]
      BY <2>1 DEF Dirty, Content
    <3>2. View' = View /\ Dirty(cache') = Dirty(cache)
      BY <2>1, <2>3, <2>5, <3>1, Zenon DEF View
    <3> QED
      BY <1>0, <2>2, <3>2
  <2> QED
    BY <2>4, <2>5
<1>9. CASE FillFails
  <2>1. /\ access.slot \in Slots /\ ~ NeedsWriteback(access.slot) /\ disk' = disk
        /\ cache' = [cache EXCEPT ![access.slot].valid = FALSE]
    BY <1>9 DEF FillFails, IInv, TypeOK, CacheInv, AccessInv, Accesses
  <2>2. \A j \in Slots : j # access.slot => cache'[j] = cache[j]
    BY <2>1 DEF IInv, TypeOK
  <2>3. ASSUME NEW r \in Sectors
        PROVE  /\ Content(cache', disk', r) = Content(cache, disk, r)
               /\ r \in Dirty(cache') <=> r \in Dirty(cache)
    <3>1. Hits(cache', r) = Hits(cache, r) \ {access.slot}
      BY <2>1, <2>2 DEF Hits, IInv, TypeOK, Entry
    <3>2. CASE access.slot \in Hits(cache, r)
      <4>1. Hits(cache, r) = {access.slot} /\ Hits(cache', r) = {}
        BY <3>1, <3>2 DEF IInv, CacheInv, NoSectorTwice, Hits
      <4>2. r \notin Dirty(cache) /\ r \notin Dirty(cache')
        BY <2>1, <3>2, <4>1 DEF Dirty, NeedsWriteback, Hits
      <4>3. Content(cache, disk, r) = disk[r]
        BY <4>2, CleanContent
      <4> QED
        BY <2>1, <4>1, <4>2, <4>3 DEF Content
    <3>3. CASE access.slot \notin Hits(cache, r)
      <4>1. Hits(cache', r) = Hits(cache, r) /\ \A j \in Hits(cache, r) : cache'[j] = cache[j]
        BY <2>2, <3>1, <3>3 DEF Hits
      <4>2. CASE Hits(cache, r) = {}
        BY <2>1, <4>1, <4>2, Zenon DEF Content, Dirty
      <4>3. ASSUME NEW j \in Hits(cache, r)
            PROVE  Content(cache', disk', r) = Content(cache, disk, r)
        <5>1. Hits(cache', r) = {j}
          BY <4>1, <4>3 DEF IInv, CacheInv, NoSectorTwice, Hits
        <5>2. Content(cache', disk', r) = cache'[j].data
          BY <5>1 DEF Content
        <5>3. Content(cache, disk, r) = cache[j].data
          BY ContentOfHit
        <5> QED
          BY <4>1, <5>2, <5>3
      <4> QED
        BY <4>1, <4>2, <4>3 DEF Dirty
    <3> QED
      BY <3>2, <3>3
  <2>4. View' = View
    BY <2>3 DEF View
  <2>5. Dirty(cache') = Dirty(cache)
    BY <2>3 DEF Dirty
  <2> QED
    BY <1>0, <2>1, <2>4, <2>5
<1>10. CASE FlushStart
  BY <1>0, <1>2, <1>10 DEF FlushStart
<1>11. CASE FlushSlot
  <2>1. flushing \in Slots
    BY <1>11 DEF FlushSlot, IInv, TypeOK, Slots
  <2>2. CASE NeedsWriteback(flushing)
    BY <1>3, <1>11, <2>1, <2>2 DEF FlushSlot
  <2>3. CASE ~ NeedsWriteback(flushing)
    BY <1>0, <1>2, <1>11, <2>3 DEF FlushSlot
  <2> QED
    BY <2>2, <2>3
<1>12. CASE FlushSlotFails
  <2>1. flushing \in Slots
    BY <1>12 DEF FlushSlotFails, IInv, TypeOK, Slots
  <2> QED
    BY <1>3, <1>12, <2>1 DEF FlushSlotFails
<1>13. CASE Reboot
  <2>1. \A s \in Sectors : Hits(cache', s) = {}
    BY <1>13 DEF Reboot, Hits, ZeroEntry
  <2>2. View' = disk /\ Dirty(cache') = {} /\ disk' = disk
    BY <1>13, <2>1, Zenon DEF Reboot, View, Content, Dirty, IInv, TypeOK
  <2> QED
    BY <2>2 DEF Store!StoreNext, Store!PowerLoss
<1>14. CASE UNCHANGED vars
  BY <1>0, <1>2, <1>14 DEF vars
<1> QED
  BY <1>0, <1>4, <1>5, <1>6, <1>7, <1>8, <1>9, <1>10, <1>11, <1>12, <1>13, <1>14, Zenon DEF Next

(* The sector cache implements the sector store: the file system may be    *)
(* analysed against the store, as the module DiskFS does.                  *)
THEOREM CacheImplementsStore == Spec => ImplementsStore
<1>1. Init => Store!StoreInit
  <2> SUFFICES ASSUME Init PROVE Store!StoreInit
    OBVIOUS
  <2>1. \A s \in Sectors : Hits(cache, s) = {}
    BY DEF Init, Hits, ZeroEntry
  <2>2. View = disk /\ Dirty(cache) = {}
    BY <2>1 DEF Init, View, Content, Dirty
  <2> QED
    BY <2>2 DEF Store!StoreInit
<1>2. Spec => []IInv
  BY InitIInv, NextKeepsIInv, PTL DEF Spec
<1> QED
  BY <1>1, <1>2, NextMaps, PTL DEF Spec, ImplementsStore, Store!StoreSpec

------------------------------------------------------------------------------
(* A step that keeps every content keeps what an earlier call returned     *)
(* current; it is enough that no flush result becomes visible.             *)
LEMMA SameViewKeepsResult ==
  ASSUME ResultIsCurrent, result' = result, View' = View,
         access.sector = NoSector \/ access'.sector # NoSector,
         Idle' => Idle /\ Dirty(cache') = Dirty(cache)
  PROVE  ResultIsCurrent'
BY DEF ResultIsCurrent

(* Transfers keep every content. *)
LEMMA TransferKeepsView ==
  ASSUME IInv, IInv', NEW i \in Slots,
         \/ NeedsWriteback(i) /\ (WriteEntry(i) \/ WriteEntryFails(i))
         \/ UNCHANGED <<disk, cache>>
  PROVE  View' = View
<1>1. CASE NeedsWriteback(i) /\ WriteEntry(i)
  BY <1>1, TransferMaps DEF Store!Writeback
<1>2. CASE NeedsWriteback(i) /\ WriteEntryFails(i)
  BY <1>2, TransferMaps DEF Store!WritebackFails
<1>3. CASE UNCHANGED <<disk, cache>>
  BY <1>3 DEF View
<1> QED
  BY <1>1, <1>2, <1>3

LEMMA NextKeepsResult ==
  ASSUME IInv, IInv', ResultIsCurrent, [Next]_vars
  PROVE  ResultIsCurrent'
<1> USE CacheAssumption
<1>1. ASSUME NEW s \in Sectors, ReadHit(s) PROVE ResultIsCurrent'
  <2>1. PICK i \in Hits(cache, s) :
          result' = [call |-> "read", ok |-> TRUE, sector |-> s, content |-> cache[i].data]
    BY <1>1, Zenon DEF ReadHit, Return
  <2>2. View'[s] = cache[i].data
    BY <1>1, ContentOfHit DEF ReadHit, View
  <2> QED
    BY <2>1, <2>2 DEF ResultIsCurrent
<1>2. ASSUME NEW s \in Sectors, NEW c \in Contents, WriteHit(s, c) PROVE ResultIsCurrent'
  <2>1. PICK i \in Hits(cache, s) :
          cache' = [cache EXCEPT ![i] = [valid |-> TRUE, dirty |-> TRUE, sector |-> s, data |-> c]]
    BY <1>2, WriteHitStores
  <2>2. disk' = disk /\ i \in Slots
    BY <1>2 DEF WriteHit, Hits
  <2>3. View'[s] = c
    BY <2>1, <2>2, StoreMaps, Zenon DEF View
  <2>4. result' = [call |-> "write", ok |-> TRUE, sector |-> s, content |-> c]
    BY <1>2 DEF WriteHit, Return
  <2> QED
    BY <2>3, <2>4 DEF ResultIsCurrent
<1>3. ASSUME NEW s \in Sectors, NEW w \in BOOLEAN, NEW c \in Contents, Miss(s, w, c)
      PROVE  ResultIsCurrent'
  BY <1>3 DEF Miss, ResultIsCurrent, Idle
<1>4. ASSUME NEW s \in Sectors, NEW w \in BOOLEAN, MissWritebackFails(s, w)
      PROVE  ResultIsCurrent'
  <2>1. result' = [call |-> Call(w), ok |-> FALSE, sector |-> s, content |-> Zero]
    BY <1>4, Zenon DEF MissWritebackFails, Return
  <2>2. result'.ok = FALSE
    BY <2>1, Zenon
  <2> QED
    BY <2>2 DEF ResultIsCurrent
<1>5. CASE Fill
  <2>1. PICK c \in Contents :
           /\ cache' = [cache EXCEPT ![access.slot] =
                          [valid |-> TRUE, dirty |-> access.for_write,
                           sector |-> access.sector, data |-> c]]
           /\ access.sector \in Sectors /\ access.slot \in Slots
           /\ access.for_write \in BOOLEAN
           /\ ~ NeedsWriteback(access.slot) /\ Hits(cache, access.sector) = {}
           /\ result' = [call |-> Call(access.for_write), ok |-> TRUE,
                         sector |-> access.sector, content |-> c]
    BY <1>5, FillStores, Zenon
  <2>2. disk' = disk
    BY <1>5 DEF Fill
  <2>3. View'[access.sector] = c
    BY <2>1, <2>2, StoreMaps, Zenon DEF View
  <2>4. result'.call # "flush" /\ result'.sector = access.sector /\ result'.content = c
    BY <2>1 DEF Call
  <2> QED
    BY <2>3, <2>4 DEF ResultIsCurrent
<1>6. CASE FillFails
  <2>1. result' = [call |-> Call(access.for_write), ok |-> FALSE,
                   sector |-> access.sector, content |-> Zero]
    BY <1>6, Zenon DEF FillFails, Return
  <2>2. result'.ok = FALSE
    BY <2>1, Zenon
  <2> QED
    BY <2>2 DEF ResultIsCurrent
<1>7. CASE FlushStart
  <2>1. /\ result' = result /\ access' = access /\ access.sector = NoSector
        /\ cache' = cache /\ disk' = disk
        /\ ~ Idle'
    BY <1>7 DEF FlushStart, Idle
  <2>2. View' = View
    BY <2>1 DEF View
  <2> QED
    BY <2>1, <2>2, SameViewKeepsResult
<1>8. CASE FlushSlot \/ FlushSlotFails
  <2>1. /\ flushing \in Slots /\ access' = access /\ access.sector = NoSector
        /\ flushing' = flushing + 1
    <3>1. access' = access /\ flushing' = flushing + 1 /\ flushing < CACHE_SLOTS
      BY <1>8, Zenon DEF FlushSlot, FlushSlotFails, FlushNext
    <3>2. flushing \in 0 .. CACHE_SLOTS
      BY DEF IInv, TypeOK
    <3>3. flushing \in Slots
      BY <3>1, <3>2 DEF Slots
    <3>4. access.sector = NoSector
      BY <3>1, <3>2 DEF IInv, CacheInv, AccessInv
    <3> QED
      BY <3>1, <3>3, <3>4
  <2>2. View' = View
    BY <1>8, <2>1, TransferKeepsView, Zenon DEF FlushSlot, FlushSlotFails
  <2>3. CASE flushing + 1 # CACHE_SLOTS
    <3>1. result' = result /\ ~ Idle'
      BY <1>8, <2>1, <2>3 DEF FlushSlot, FlushSlotFails, FlushNext, Idle
    <3> QED
      BY <2>1, <2>2, <3>1, SameViewKeepsResult
  <2>4. CASE flushing + 1 = CACHE_SLOTS /\ FlushSlotFails
    <3>1. result' = [call |-> "flush", ok |-> FALSE, sector |-> NoSector, content |-> Zero]
      BY <2>4, Zenon DEF FlushSlotFails, FlushNext, Return
    <3>2. result'.ok = FALSE
      BY <3>1, Zenon
    <3> QED
      BY <3>2 DEF ResultIsCurrent
  <2>5. CASE flushing + 1 = CACHE_SLOTS /\ FlushSlot
    <3>1. result' = [call |-> "flush", ok |-> flush_ok, sector |-> NoSector, content |-> Zero]
      BY <2>5 DEF FlushSlot, FlushNext, Return
    <3>2. ASSUME flush_ok PROVE Dirty(cache') = {}
      <4>1. \A j \in 0 .. (flushing - 1) : ~ NeedsWriteback(j)
        BY <2>1, <3>2 DEF IInv, CacheInv, FlushInv, Slots
      <4>2. /\ \A j \in Slots : j # flushing => cache'[j] = cache[j]
            /\ ~ (cache'[flushing].valid /\ cache'[flushing].dirty)
        <5>1. CASE NeedsWriteback(flushing)
          BY <2>1, <2>5, <5>1 DEF FlushSlot, WriteEntry, IInv, TypeOK, Entry
        <5>2. CASE ~ NeedsWriteback(flushing)
          BY <2>5, <5>2 DEF FlushSlot, NeedsWriteback
        <5> QED
          BY <5>1, <5>2
      <4>3. \A j \in Slots : ~ (cache'[j].valid /\ cache'[j].dirty)
        BY <2>1, <2>5, <4>1, <4>2 DEF Slots, NeedsWriteback
      <4> QED
        BY <4>3 DEF Dirty, Hits
    <3> QED
      BY <3>1, <3>2 DEF ResultIsCurrent
  <2> QED
    BY <1>8, <2>3, <2>4, <2>5
<1>9. CASE Reboot
  BY <1>9 DEF Reboot, Return, ResultIsCurrent
<1>10. CASE UNCHANGED vars
  BY <1>10 DEF vars, ResultIsCurrent, View, Idle
<1> QED
  BY <1>1, <1>2, <1>3, <1>4, <1>5, <1>6, <1>7, <1>8, <1>9, <1>10, Zenon DEF Next

(* read_sector returns the last content given to write_sector, and a flush *)
(* that returns TRUE has transferred everything.                           *)
THEOREM CacheResultsCurrent == Spec => []ResultIsCurrent
<1>1. Init => ResultIsCurrent
  BY DEF Init, ResultIsCurrent
<1>2. Spec => []IInv
  BY InitIInv, NextKeepsIInv, PTL DEF Spec
<1> QED
  BY <1>1, <1>2, NextKeepsResult, PTL DEF Spec
==============================================================================
