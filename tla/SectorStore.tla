----------------------------- MODULE SectorStore -----------------------------
(***************************************************************************)
(* What the sector cache of kernel/fs/diskfs/diskfs.c promises to the file *)
(* system above it.  Each sector has a durable content (disk) and the      *)
(* content the last write_sector gave it (view).  A sector is dirty from   *)
(* the moment it is written until it has been transferred to the disk.     *)
(* The cache may transfer dirty sectors in any order, a transfer may fail, *)
(* and losing power forgets everything that was not transferred.           *)
(***************************************************************************)
EXTENDS Integers

CONSTANT Sectors

VARIABLES
  disk,     \* [Sectors -> content]: what survives a power loss
  view,     \* [Sectors -> content]: what read_sector returns
  dirty     \* the sectors that still have to be transferred

storeVars == <<disk, view, dirty>>

StoreInit ==
  /\ view = disk
  /\ dirty = {}

(* write_sector succeeded. *)
Put(s, content) ==
  /\ view' = [view EXCEPT ![s] = content]
  /\ dirty' = dirty \cup {s}
  /\ UNCHANGED disk

(* cache_writeback of a dirty entry succeeded. *)
Writeback(s) ==
  /\ s \in dirty
  /\ disk' = [disk EXCEPT ![s] = view[s]]
  /\ dirty' = dirty \ {s}
  /\ UNCHANGED view

(* cache_writeback reported an error.  The ATA driver may see the error    *)
(* before or after the drive took the data; the entry stays dirty.         *)
WritebackFails(s) ==
  /\ s \in dirty
  /\ disk' \in {disk, [disk EXCEPT ![s] = view[s]]}
  /\ UNCHANGED <<view, dirty>>

PowerLoss ==
  /\ view' = disk
  /\ dirty' = {}
  /\ UNCHANGED disk

StoreNext ==
  \/ \E s \in Sectors : Put(s, view'[s]) \/ Writeback(s) \/ WritebackFails(s)
  \/ PowerLoss

StoreSpec == StoreInit /\ [][StoreNext]_storeVars
==============================================================================
