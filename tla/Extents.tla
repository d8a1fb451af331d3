------------------------------- MODULE Extents -------------------------------
(***************************************************************************)
(* Runs of consecutive sectors (or pages) and the first-fit rule, as used  *)
(* by the allocators that keep one bit per unit: alloc_contiguous and      *)
(* free_extent in kernel/fs/diskfs/diskfs.c.  A bitmap is the set of the   *)
(* units whose bit is set.                                                 *)
(***************************************************************************)
EXTENDS Integers

(* The n units that start at unit f. *)
Extent(f, n) == f .. (f + n - 1)

(* The run of n units at f lies in lo .. hi-1 and every bit of it is clear. *)
FreeRun(used, lo, hi, f, n) ==
  /\ lo =< f
  /\ f + n =< hi
  /\ \A s \in Extent(f, n) : s \notin used

(* f is where a scan from lo upwards first finds n clear bits in a row. *)
FirstFit(used, lo, hi, f, n) ==
  /\ FreeRun(used, lo, hi, f, n)
  /\ \A g \in lo .. (f - 1) : ~ FreeRun(used, lo, hi, g, n)
==============================================================================
