----------------------------- MODULE FirstFitScan -----------------------------
(***************************************************************************)
(* The loop of alloc_contiguous (kernel/fs/diskfs/diskfs.c): one pass over *)
(* the allocation bitmap that counts the length of the current run of      *)
(* clear bits and stops at the first run that is long enough.  One action  *)
(* is one iteration of the loop.                                           *)
(***************************************************************************)
EXTENDS Extents

CONSTANTS
  DataStart,      \* superblock.data_start
  Total           \* superblock.total_sectors

ASSUME ScanBoundsAssumption ==
  /\ DataStart \in Nat
  /\ Total \in Nat
  /\ DataStart =< Total

VARIABLES
  bitmap,         \* the sectors whose bit is set
  sectors,        \* the argument: how many are wanted
  sector,         \* the loop variable
  run_start,
  run_len,
  state           \* "scanning", "found" (TRUE returned) or "full" (FALSE)

vars == <<bitmap, sectors, sector, run_start, run_len, state>>

Init ==
  /\ bitmap \in SUBSET (0 .. (Total - 1))
  /\ sectors \in 1 .. (Total + 1)
  /\ sector = DataStart
  /\ run_start = DataStart
  /\ run_len = 0
  /\ state = "scanning"
(* Mutant: run_start is set once, not at the start of every run. *)
ClearBitKeepsStart ==
  /\ state = "scanning"
  /\ sector < Total
  /\ sector \notin bitmap
  /\ run_len' = run_len + 1
  /\ IF run_len + 1 = sectors
     THEN /\ state' = "found"
          /\ bitmap' = bitmap \cup Extent(run_start, sectors)
          /\ UNCHANGED sector
     ELSE /\ sector' = sector + 1
          /\ UNCHANGED <<bitmap, state>>
  /\ UNCHANGED <<sectors, run_start>>

(* The bit of this sector is clear: the run grows, or starts here. *)
ClearBit ==
  /\ state = "scanning"
  /\ sector < Total
  /\ sector \notin bitmap
  /\ run_start' = IF run_len = 0 THEN sector ELSE run_start
  /\ run_len' = run_len + 1
  /\ IF run_len + 1 = sectors
     THEN /\ state' = "found"
          /\ bitmap' = bitmap \cup Extent(run_start', sectors)
          /\ UNCHANGED sector
     ELSE /\ sector' = sector + 1
          /\ UNCHANGED <<bitmap, state>>
  /\ UNCHANGED sectors
(* The bit of this sector is set: the run is over. *)
SetBit ==
  /\ state = "scanning"
  /\ sector < Total
  /\ sector \in bitmap
  /\ run_len' = 0
  /\ sector' = sector + 1
  /\ UNCHANGED <<bitmap, sectors, run_start, state>>
(* The loop ran off the end of the bitmap. *)
Exhausted ==
  /\ state = "scanning"
  /\ sector >= Total
  /\ state' = "full"
  /\ UNCHANGED <<bitmap, sectors, sector, run_start, run_len>>

Next == ClearBit \/ SetBit \/ Exhausted

Spec == Init /\ [][Next]_vars

------------------------------------------------------------------------------

TypeOK ==
  /\ bitmap \in SUBSET (0 .. (Total - 1))
  /\ sectors \in Nat \ {0}
  /\ sector \in DataStart .. Total
  /\ run_start \in DataStart .. Total
  /\ run_len \in Nat
  /\ state \in {"scanning", "found", "full"}

(* The loop invariant.  The current run is the run_len clear bits just    *)
(* below sector, the bit below the run (if any) is set, and no position   *)
(* that was passed over starts a long enough run.                         *)
LoopInv ==
  state = "scanning" =>
    /\ run_len < sectors
    /\ run_len > 0 => run_start + run_len = sector
    /\ run_len =< sector - DataStart
    /\ \A s \in (sector - run_len) .. (sector - 1) : s \notin bitmap
    /\ \A g \in DataStart .. (sector - run_len - 1) :
         \E s \in g .. (sector - 1) : s \in bitmap /\ s < g + sectors

(* alloc_contiguous returns TRUE exactly at the first fit of the bitmap it *)
(* was called with, and then marks that extent and nothing else; it        *)
(* returns FALSE only when no run of that length is free.                  *)
ScanIsFirstFit ==
  [][/\ state' = "found" /\ state = "scanning" =>
          /\ FirstFit(bitmap, DataStart, Total, run_start', sectors)
          /\ bitmap' = bitmap \cup Extent(run_start', sectors)
     /\ state' = "full" /\ state = "scanning" =>
          /\ \A f \in DataStart .. Total :
                ~ FreeRun(bitmap, DataStart, Total, f, sectors)
          /\ bitmap' = bitmap]_vars
==============================================================================
