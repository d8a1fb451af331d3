-------------------------- MODULE FirstFitScanProofs --------------------------
(***************************************************************************)
(* The loop of alloc_contiguous finds the first fit, for every bitmap,     *)
(* every size of the file system and every request.                        *)
(***************************************************************************)
EXTENDS FirstFitScan, TLAPS

IInv == TypeOK /\ LoopInv

(* An iteration on a clear bit: the run grows by the current sector. *)
LEMMA ClearBitKeepsIInv == IInv /\ ClearBit => IInv'
<1> SUFFICES ASSUME IInv, ClearBit PROVE IInv'
  OBVIOUS
<1> USE ScanBoundsAssumption DEF IInv
<1>1. /\ run_start' + run_len' = sector + 1
      /\ run_start' \in DataStart .. Total
      /\ run_len' \in Nat
  BY DEF ClearBit, TypeOK, LoopInv
<1>2. CASE run_len + 1 = sectors
  <2>1. Extent(run_start', sectors) \subseteq 0 .. (Total - 1)
    BY <1>1, <1>2 DEF ClearBit, TypeOK, Extent
  <2>2. bitmap' \in SUBSET (0 .. (Total - 1))
    BY <2>1, <1>2 DEF ClearBit, TypeOK
  <2> QED
    BY <1>1, <1>2, <2>2 DEF ClearBit, TypeOK, LoopInv
<1>3. CASE run_len + 1 # sectors
  <2>1. /\ sector' = sector + 1
        /\ bitmap' = bitmap /\ sectors' = sectors /\ state' = state
        /\ run_len' = run_len + 1
    BY <1>3 DEF ClearBit
  <2>2. TypeOK'
    BY <1>1, <2>1 DEF ClearBit, TypeOK
  <2>3. \A s \in (sector' - run_len') .. (sector' - 1) : s \notin bitmap'
    BY <2>1 DEF ClearBit, TypeOK, LoopInv
  <2>4. \A g \in DataStart .. (sector' - run_len' - 1) :
          \E s \in g .. (sector' - 1) : s \in bitmap' /\ s < g + sectors'
    <3> SUFFICES ASSUME NEW g \in DataStart .. (sector' - run_len' - 1)
                 PROVE  \E s \in g .. (sector' - 1) : s \in bitmap' /\ s < g + sectors'
      OBVIOUS
    <3>1. g \in DataStart .. (sector - run_len - 1)
      BY <2>1 DEF TypeOK
    <3>2. PICK s \in g .. (sector - 1) : s \in bitmap /\ s < g + sectors
      BY <3>1 DEF LoopInv, ClearBit
    <3> QED
      BY <3>2, <2>1 DEF TypeOK
  <2>5. run_len' < sectors' /\ run_len' =< sector' - DataStart
    BY <1>3, <2>1 DEF TypeOK, LoopInv, ClearBit
  <2> QED
    BY <1>1, <2>1, <2>2, <2>3, <2>4, <2>5 DEF LoopInv
<1> QED
  BY <1>2, <1>3

(* An iteration on a set bit: every position up to it is ruled out. *)
LEMMA SetBitKeepsIInv == IInv /\ SetBit => IInv'
<1> SUFFICES ASSUME IInv, SetBit PROVE IInv'
  OBVIOUS
<1> USE ScanBoundsAssumption DEF IInv
<1>1. /\ sector' = sector + 1 /\ run_len' = 0
      /\ bitmap' = bitmap /\ sectors' = sectors /\ state' = state /\ run_start' = run_start
  BY DEF SetBit
<1>2. TypeOK'
  BY <1>1 DEF SetBit, TypeOK
<1>3. \A g \in DataStart .. (sector' - run_len' - 1) :
        \E s \in g .. (sector' - 1) : s \in bitmap' /\ s < g + sectors'
  <2> SUFFICES ASSUME NEW g \in DataStart .. sector
               PROVE  \E s \in g .. sector : s \in bitmap /\ s < g + sectors
    BY <1>1 DEF TypeOK
  <2>1. CASE g < sector - run_len
    <3>1. g \in DataStart .. (sector - run_len - 1)
      BY <2>1 DEF TypeOK
    <3>2. PICK s \in g .. (sector - 1) : s \in bitmap /\ s < g + sectors
      BY <3>1 DEF LoopInv, SetBit
    <3> QED
      BY <3>2 DEF TypeOK
  <2>2. CASE g >= sector - run_len
    <3>1. sector < g + sectors /\ sector \in g .. sector /\ sector \in bitmap
      BY <2>2 DEF LoopInv, SetBit, TypeOK
    <3> QED
      BY <3>1
  <2> QED
    BY <2>1, <2>2 DEF TypeOK
<1>4. \A s \in (sector' - run_len') .. (sector' - 1) : s \notin bitmap'
  BY <1>1 DEF TypeOK
<1> QED
  BY <1>1, <1>2, <1>3, <1>4 DEF LoopInv, TypeOK

(* The loop invariant and the ranges of the loop variables hold at every   *)
(* iteration of alloc_contiguous.                                          *)
THEOREM ScanInvariant == Spec => [](TypeOK /\ LoopInv)
<1>1. Init => IInv
  BY ScanBoundsAssumption DEF Init, TypeOK, IInv, LoopInv
<1>2. IInv /\ [Next]_vars => IInv'
  <2> SUFFICES ASSUME IInv, [Next]_vars PROVE IInv'
    OBVIOUS
  <2>1. CASE ClearBit
    BY <2>1, ClearBitKeepsIInv
  <2>2. CASE SetBit
    BY <2>2, SetBitKeepsIInv
  <2>3. CASE Exhausted
    BY <2>3 DEF Exhausted, TypeOK, IInv, LoopInv
  <2>4. CASE UNCHANGED vars
    BY <2>4 DEF vars, TypeOK, IInv, LoopInv
  <2> QED
    BY <2>1, <2>2, <2>3, <2>4 DEF Next
<1> QED
  BY <1>1, <1>2, PTL DEF Spec, IInv

(* A position that was ruled out starts no free run. *)
LEMMA RuledOut ==
  ASSUME IInv, state = "scanning", NEW g \in DataStart .. (sector - run_len - 1)
  PROVE  ~ FreeRun(bitmap, DataStart, Total, g, sectors)
<1>1. PICK s \in g .. (sector - 1) : s \in bitmap /\ s < g + sectors
  BY DEF IInv, LoopInv
<1>2. s \in Extent(g, sectors)
  BY <1>1, ScanBoundsAssumption DEF Extent, IInv, TypeOK
<1> QED
  BY <1>1, <1>2 DEF FreeRun

(* alloc_contiguous returns the first fit when it returns TRUE, and FALSE  *)
(* only when there is none: the loop computes what the file system model   *)
(* uses as FirstFit.                                                       *)
THEOREM ScanFindsFirstFit == Spec => ScanIsFirstFit
<1> DEFINE Step ==
      /\ state' = "found" /\ state = "scanning" =>
           /\ FirstFit(bitmap, DataStart, Total, run_start', sectors)
           /\ bitmap' = bitmap \cup Extent(run_start', sectors)
      /\ state' = "full" /\ state = "scanning" =>
           /\ \A f \in DataStart .. Total :
                 ~ FreeRun(bitmap, DataStart, Total, f, sectors)
           /\ bitmap' = bitmap
<1>1. IInv /\ [Next]_vars => [Step]_vars
  <2> SUFFICES ASSUME IInv, Next PROVE Step
    OBVIOUS
  <2> USE ScanBoundsAssumption
  <2>1. CASE ClearBit
    <3> SUFFICES ASSUME state' = "found"
                 PROVE  FirstFit(bitmap, DataStart, Total, run_start', sectors)
      BY <2>1 DEF ClearBit
    <3>1. /\ run_len + 1 = sectors
          /\ run_start' = sector - run_len
          /\ run_start' + sectors =< Total
          /\ DataStart =< run_start'
          /\ state = "scanning"
      BY <2>1 DEF ClearBit, IInv, TypeOK, LoopInv
    <3>2. \A s \in Extent(run_start', sectors) : s \notin bitmap
      BY <2>1, <3>1 DEF ClearBit, IInv, TypeOK, LoopInv, Extent
    <3>3. \A g \in DataStart .. (run_start' - 1) :
             ~ FreeRun(bitmap, DataStart, Total, g, sectors)
      BY <3>1, RuledOut
    <3> QED
      BY <3>1, <3>2, <3>3 DEF FirstFit, FreeRun
  <2>2. CASE SetBit
    BY <2>2 DEF SetBit
  <2>3. CASE Exhausted
    <3> SUFFICES ASSUME NEW f \in DataStart .. Total
                 PROVE  ~ FreeRun(bitmap, DataStart, Total, f, sectors)
      BY <2>3 DEF Exhausted
    <3>1. sector = Total /\ state = "scanning" /\ run_len < sectors
      BY <2>3 DEF Exhausted, IInv, TypeOK, LoopInv
    <3>2. CASE f < sector - run_len
      BY <3>1, <3>2, RuledOut DEF IInv, TypeOK
    <3>3. CASE f >= sector - run_len
      BY <3>1, <3>3 DEF FreeRun, IInv, TypeOK
    <3> QED
      BY <3>2, <3>3 DEF IInv, TypeOK
  <2> QED
    BY <2>1, <2>2, <2>3 DEF Next
<1>2. Spec => []IInv
  BY ScanInvariant, PTL DEF IInv
<1> QED
  BY <1>1, <1>2, PTL DEF Spec, ScanIsFirstFit
==============================================================================
