----------------------------- MODULE SectorCache -----------------------------
(***************************************************************************)
(* The write-back sector cache of kernel/fs/diskfs/diskfs.c: a fixed array *)
(* of slots, a clock hand that advances on every access, hit or miss, and  *)
(* a victim that is written back before its slot is reused.  The code runs *)
(* to completion between two transfers to the drive, so one action is the  *)
(* code up to and including its next raw_read_sector or raw_write_sector.  *)
(***************************************************************************)
EXTENDS Integers

CONSTANTS
  Sectors,          \* the sectors of the file system
  Contents,         \* what a sector may hold
  Zero,             \* the content of a zeroed buffer
  CACHE_SLOTS,      \* DISKFS_CACHE_SLOTS
  NoSector          \* not a sector: the cache is not serving an access

ASSUME CacheAssumption ==
  /\ CACHE_SLOTS \in Nat \ {0}
  /\ NoSector \notin Sectors
  /\ Zero \in Contents

VARIABLES
  disk,             \* [Sectors -> Contents]: what the drive holds
  cache,            \* [Slots -> entry]: struct diskfs_cache_entry cache[]
  cache_clock,      \* cache_clock % DISKFS_CACHE_SLOTS (the counter wraps at
                    \* 2^32, a multiple of the number of slots)
  access,           \* the read_sector or write_sector that waits for its
                    \* raw_read_sector: [sector, slot, for_write, content]
  flushing,         \* the next slot diskfs_flush looks at; CACHE_SLOTS when
                    \* no flush is running
  flush_ok,         \* the local variable ok of diskfs_flush
  result            \* the last finished call and what it returned:
                    \* [call, ok, sector, content]

vars == <<disk, cache, cache_clock, access, flushing, flush_ok, result>>

Slots == 0 .. (CACHE_SLOTS - 1)

Entry ==
  [valid : BOOLEAN, dirty : BOOLEAN, sector : Sectors \cup {NoSector}, data : Contents]

(* An entry after mem_zero(cache, sizeof(cache)). *)
ZeroEntry == [valid |-> FALSE, dirty |-> FALSE, sector |-> NoSector, data |-> Zero]

Idle == access.sector = NoSector /\ flushing = CACHE_SLOTS

(* The slots of cache c that hold the sector. *)
Hits(c, sector) == {i \in Slots : c[i].valid /\ c[i].sector = sector}

NoAccess == [sector |-> NoSector, slot |-> 0, for_write |-> FALSE, content |-> Zero]

(* The transfer of slot i to the drive succeeds. *)
WriteEntry(i) ==
  /\ disk' = [disk EXCEPT ![cache[i].sector] = cache[i].data]
  /\ cache' = [cache EXCEPT ![i].dirty = FALSE]

(* The transfer of slot i is reported as failed; the drive may or may not  *)
(* have taken the data.                                                    *)
WriteEntryFails(i) ==
  /\ disk' \in {disk, [disk EXCEPT ![cache[i].sector] = cache[i].data]}
  /\ UNCHANGED cache

NeedsWriteback(i) == cache[i].valid /\ cache[i].dirty

Return(call, ok, sector, content) ==
  result' = [call |-> call, ok |-> ok, sector |-> sector, content |-> content]

Call(for_write) == IF for_write THEN "write" ELSE "read"
AdvanceClock == cache_clock' = (cache_clock + 1) % CACHE_SLOTS

(***************************************************************************)
(* cache_get finds the sector: read_sector copies it out, write_sector     *)
(* marks it dirty and copies the new content in.                           *)
(***************************************************************************)
ReadHit(sector) ==
  /\ Idle
  /\ \E i \in Hits(cache, sector) : Return("read", TRUE, sector, cache[i].data)
  /\ AdvanceClock
  /\ UNCHANGED <<disk, cache, access, flushing, flush_ok>>
(* Mutant: a hit does not mark the slot dirty. *)
WriteHitStaysClean(sector, content) ==
  /\ Idle
  /\ \E i \in Hits(cache, sector) : cache' = [cache EXCEPT ![i].data = content]
  /\ Return("write", TRUE, sector, content)
  /\ AdvanceClock
  /\ UNCHANGED <<disk, access, flushing, flush_ok>>

WriteHit(sector, content) ==
  /\ Idle
  /\ \E i \in Hits(cache, sector) :
       cache' = [cache EXCEPT ![i].dirty = TRUE, ![i].data = content]
  /\ Return("write", TRUE, sector, content)
  /\ AdvanceClock
  /\ UNCHANGED <<disk, access, flushing, flush_ok>>
(***************************************************************************)
(* cache_get misses.  The victim is the slot under the clock hand; it is   *)
(* written back if it is dirty, and the access goes on to fill the slot.   *)
(***************************************************************************)
Miss(sector, for_write, content) ==
  /\ Idle
  /\ Hits(cache, sector) = {}
  /\ IF NeedsWriteback(cache_clock)
     THEN WriteEntry(cache_clock)
     ELSE UNCHANGED <<disk, cache>>
  /\ access' = [sector |-> sector, slot |-> cache_clock,
                for_write |-> for_write, content |-> content]
  /\ AdvanceClock
  /\ UNCHANGED <<flushing, flush_ok, result>>

(* The victim cannot be written back: cache_get returns 0. *)
MissWritebackFails(sector, for_write) ==
  /\ Idle
  /\ Hits(cache, sector) = {}
  /\ NeedsWriteback(cache_clock)
  /\ WriteEntryFails(cache_clock)
  /\ Return(Call(for_write), FALSE, sector, Zero)
  /\ AdvanceClock
  /\ UNCHANGED <<access, flushing, flush_ok>>

(* raw_read_sector fills the slot and the caller copies out or in. *)
Fill ==
  /\ access.sector # NoSector
  /\ LET content == IF access.for_write THEN access.content
                                        ELSE disk[access.sector]
     IN  /\ cache' = [cache EXCEPT ![access.slot] =
                        [valid |-> TRUE, dirty |-> access.for_write,
                         sector |-> access.sector, data |-> content]]
         /\ Return(Call(access.for_write), TRUE, access.sector, content)
         /\ access' = NoAccess
  /\ UNCHANGED <<disk, cache_clock, flushing, flush_ok>>

(* raw_read_sector fails: the slot is given up and cache_get returns 0. *)
FillFails ==
  /\ access.sector # NoSector
  /\ cache' = [cache EXCEPT ![access.slot].valid = FALSE]
  /\ Return(Call(access.for_write), FALSE, access.sector, Zero)
  /\ access' = NoAccess
  /\ UNCHANGED <<disk, cache_clock, flushing, flush_ok>>

(***************************************************************************)
(* diskfs_flush: every slot in turn, going on after a failed transfer.     *)
(***************************************************************************)
FlushStart ==
  /\ Idle
  /\ flushing' = 0
  /\ flush_ok' = TRUE
  /\ UNCHANGED <<disk, cache, cache_clock, access, result>>

(* The loop body; the call returns after the last slot. *)
FlushNext(ok) ==
  /\ flushing' = flushing + 1
  /\ flush_ok' = ok
  /\ IF flushing + 1 = CACHE_SLOTS THEN Return("flush", ok, NoSector, Zero)
                                   ELSE UNCHANGED result
  /\ UNCHANGED <<cache_clock, access>>

FlushSlot ==
  /\ flushing < CACHE_SLOTS
  /\ IF NeedsWriteback(flushing) THEN WriteEntry(flushing)
                                 ELSE UNCHANGED <<disk, cache>>
  /\ FlushNext(flush_ok)
(* Mutant: a failed transfer is not remembered. *)
FlushSlotFailsUnnoticed ==
  /\ flushing < CACHE_SLOTS
  /\ NeedsWriteback(flushing)
  /\ WriteEntryFails(flushing)
  /\ FlushNext(flush_ok)

FlushSlotFails ==
  /\ flushing < CACHE_SLOTS
  /\ NeedsWriteback(flushing)
  /\ WriteEntryFails(flushing)
  /\ FlushNext(FALSE)

(* The machine stops; diskfs_initialize zeroes the cache on the next boot. *)
Reboot ==
  /\ cache' = [i \in Slots |-> ZeroEntry]
  /\ cache_clock' = 0
  /\ access' = NoAccess
  /\ flushing' = CACHE_SLOTS
  /\ flush_ok' = TRUE
  /\ Return("none", TRUE, NoSector, Zero)
  /\ UNCHANGED disk

Init ==
  /\ disk \in [Sectors -> Contents]
  /\ cache = [i \in Slots |-> ZeroEntry]
  /\ cache_clock = 0
  /\ access = NoAccess
  /\ flushing = CACHE_SLOTS
  /\ flush_ok = TRUE
  /\ result = [call |-> "none", ok |-> TRUE, sector |-> NoSector, content |-> Zero]

Next ==
  \/ \E s \in Sectors :
       \/ ReadHit(s)
       \/ Miss(s, FALSE, Zero)
       \/ \E w \in BOOLEAN : MissWritebackFails(s, w)
       \/ \E c \in Contents : WriteHit(s, c) \/ Miss(s, TRUE, c)
  \/ Fill \/ FillFails
  \/ FlushStart \/ FlushSlot \/ FlushSlotFails
  \/ Reboot

Spec == Init /\ [][Next]_vars

------------------------------------------------------------------------------

Accesses ==
  [sector : Sectors \cup {NoSector}, slot : Slots,
   for_write : BOOLEAN, content : Contents]

Results ==
  [call : {"none", "read", "write", "flush"}, ok : BOOLEAN,
   sector : Sectors \cup {NoSector}, content : Contents]

TypeOK ==
  /\ disk \in [Sectors -> Contents]
  /\ cache \in [Slots -> Entry]
  /\ \A i \in Slots : cache[i].valid => cache[i].sector \in Sectors
  /\ cache_clock \in Slots
  /\ access \in Accesses
  /\ flushing \in 0 .. CACHE_SLOTS
  /\ flush_ok \in BOOLEAN
  /\ result \in Results

(* No sector is held by two valid slots of the cache: otherwise a hit on   *)
(* the lower one would hide what was written to the other.  It depends on  *)
(* cache_get searching all slots before it reuses the victim.              *)
NoSectorTwice ==
  \A i, j \in Slots :
    cache[i].valid /\ cache[j].valid /\ cache[i].sector = cache[j].sector => i = j

(* A valid slot that is not dirty holds what the drive holds: dropping it  *)
(* as a victim, or losing power, loses nothing.                            *)
CleanEntryIsOnDisk ==
  \A i \in Slots :
    cache[i].valid /\ ~ cache[i].dirty => cache[i].data = disk[cache[i].sector]

(* The slot an access waits to fill holds nothing that is not on disk, and *)
(* the sector it wants is in no slot.                                      *)
AccessInv ==
  access.sector # NoSector =>
    /\ ~ NeedsWriteback(access.slot)
    /\ Hits(cache, access.sector) = {}
    /\ flushing = CACHE_SLOTS

(* During diskfs_flush, as long as no transfer failed, the slots that were *)
(* looked at are clean.                                                    *)
FlushInv ==
  /\ flushing < CACHE_SLOTS /\ flush_ok =>
       \A i \in 0 .. (flushing - 1) : ~ NeedsWriteback(i)

(* The cache is coherent: one slot per sector, clean means durable, and    *)
(* what an access or a flush in progress relies on.                        *)
CacheInv == NoSectorTwice /\ CleanEntryIsOnDisk /\ AccessInv /\ FlushInv

(* What a read of the sector returns, and the sectors not yet transferred, *)
(* with cache c over disk d.                                               *)
Content(c, d, s) ==
  IF Hits(c, s) = {} THEN d[s] ELSE c[CHOOSE i \in Hits(c, s) : TRUE].data

Dirty(c) == {s \in Sectors : \E i \in Hits(c, s) : c[i].dirty}

View == [s \in Sectors |-> Content(cache, disk, s)]

(* A read_sector or write_sector that returned TRUE left its caller with   *)
(* the sector's current content, and a diskfs_flush that returned TRUE     *)
(* left nothing to be transferred, whatever was evicted, had failed or was *)
(* rewritten before.                                                       *)
ResultIsCurrent ==
  /\ result.call \in {"read", "write"} /\ result.ok /\ access.sector = NoSector =>
       result.content = View[result.sector]
  /\ result.call = "flush" /\ result.ok /\ Idle => Dirty(cache) = {}

(***************************************************************************)
(* The cache implements the sector store the file system is written        *)
(* against.                                                                *)
(***************************************************************************)
Store == INSTANCE SectorStore WITH
           view <- View,
           dirty <- Dirty(cache)

(* Every step of the cache is a step of SectorStore: only a write changes  *)
(* what a sector reads as, only a transfer changes what is durable, no     *)
(* write is lost between two transfers and a failed transfer stays dirty.  *)
ImplementsStore == Store!StoreSpec
==============================================================================
