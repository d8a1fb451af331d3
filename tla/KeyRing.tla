------------------------------ MODULE KeyRing -------------------------------
(***************************************************************************)
(* The ring buffers of kernel/drivers/input/keyboard.c (key_buffer and     *)
(* event_buffer are handled alike): pushed to by the keyboard interrupt,   *)
(* popped with interrupts off.  A slot keeps its last item when it is      *)
(* popped.                                                                 *)
(***************************************************************************)
EXTENDS Naturals, Sequences

CONSTANTS Item, SIZE      \* KEYBOARD_EVENT_BUFFER_SIZE

Slot == 0 .. SIZE - 1
VARIABLES buffer, head, tail,
          popped   \* what the last successful pop returned
vars == <<buffer, head, tail, popped>>

Init == buffer = [s \in Slot |-> 0] /\ head = 0 /\ tail = 0 /\ popped = <<>>

(* Mutant: a full ring is not noticed. *)
PushUnchecked(v) ==
  /\ buffer' = [buffer EXCEPT ![head] = v]
  /\ head' = (head + 1) % SIZE
  /\ UNCHANGED <<tail, popped>>

Push(v) ==
  LET next_head == (head + 1) % SIZE
  IN  IF next_head = tail THEN UNCHANGED vars
      ELSE /\ buffer' = [buffer EXCEPT ![head] = v]
           /\ head' = next_head
           /\ UNCHANGED <<tail, popped>>

Pop ==
  /\ head # tail
  /\ popped' = <<buffer[tail]>>
  /\ tail' = (tail + 1) % SIZE
  /\ UNCHANGED <<buffer, head>>

Next == (\E v \in Item : Push(v)) \/ Pop
Spec == Init /\ [][Next]_vars

-----------------------------------------------------------------------------
Count == (head + SIZE - tail) % SIZE
Waiting == [i \in 1 .. Count |-> buffer[(tail + i - 1) % SIZE]]

(* keyboard.c:56-117: the ring is a queue of SIZE - 1 items that refuses   *)
(* what does not fit, and whose pops return what it took, oldest first.    *)
Queue == INSTANCE LossyQueue WITH Capacity <- SIZE - 1, queue <- Waiting
ImplementsQueue == Queue!Spec
=============================================================================
