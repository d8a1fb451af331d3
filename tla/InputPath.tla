----------------------------- MODULE InputPath ------------------------------
(***************************************************************************)
(* From the interrupts to the GUI: the mouse driver                        *)
(* (drivers/input/mouse.c), input_poll_event (kernel/input/input.c) and    *)
(* the loop of GuiSystem::run (gui/core/gui.cpp).                          *)
(*                                                                         *)
(* input_poll_event reads the mouse's variables one by one with interrupts *)
(* on, so a packet may arrive between any two of its reads: pc is its      *)
(* place in the code.  x stands for both coordinates.  Keys wait in the    *)
(* queue that KeyRing implements; a key is any item of it.                 *)
(***************************************************************************)
EXTENDS Integers, Sequences

CONSTANTS Width,        \* bound_width
          PACKET_SIZE,  \* bytes of a mouse packet
          Capacity,     \* keys the keyboard's queue holds
          BATCH,        \* events handled per turn of the loop (64)
          MaxPackets, MaxKeys  \* bounds: packets and keys that arrive

VARIABLES keys,
          cursor_x, left_down_flag, click_pending, click_x, wheel_delta,
          movement_generation, packet_index,
          pc, generation, left_down, x, wheel,       \* locals of input_poll_event
          last_left_down, last_mouse_x, last_mouse_generation,
          event, drained,                            \* locals of run
          seen,         \* what the GUI made of the events: is the button down
          dropped,      \* history: a change of the button was polled and not handled
          halted,       \* the processor waits for an interrupt
          packets, typed, driver, polled             \* histories

mouse == <<cursor_x, left_down_flag, click_pending, click_x, wheel_delta, movement_generation, packet_index>>
locals == <<generation, left_down, x, wheel>>
last == <<last_left_down, last_mouse_x, last_mouse_generation>>
loop == <<event, drained, seen, dropped>>
vars == <<keys, mouse, pc, locals, last, loop, halted, packets, typed, driver, polled>>

Queue == INSTANCE LossyQueue WITH queue <- keys, popped <- <<>>, Item <- {}
NoCount == [press |-> 0, release |-> 0, wheel |-> 0, owed |-> FALSE]

(* mouse_set_bounds, input_initialize and the start of run. *)
Init ==
  /\ keys = <<>> /\ cursor_x = Width \div 2 /\ left_down_flag = FALSE /\ click_pending = FALSE
  /\ click_x = 0 /\ wheel_delta = 0 /\ movement_generation = 1 /\ packet_index = 0
  /\ pc = "key" /\ generation = 0 /\ left_down = FALSE /\ x = 0 /\ wheel = 0
  /\ last_left_down = left_down_flag /\ last_mouse_x = cursor_x
  /\ last_mouse_generation = movement_generation
  /\ event = "none" /\ drained = 0 /\ seen = FALSE /\ dropped = FALSE /\ halted = FALSE
  /\ packets = 0 /\ typed = 0 /\ driver = NoCount /\ polled = NoCount

-----------------------------------------------------------------------------
(* The interrupts.  Each ends a hlt. *)
Clamp(v) == IF v < 0 THEN 0 ELSE IF v >= Width THEN Width - 1 ELSE v

IsClick(was_left, left) == was_left /\ ~ left

(* mouse_handle_interrupt for the last byte of a packet. *)
Packet(left, dx, dw) ==
  LET click == IsClick(left_down_flag, left)
  IN  /\ cursor_x' = Clamp(cursor_x + dx)
      /\ left_down_flag' = left
      /\ wheel_delta' = wheel_delta + dw
      /\ click_pending' = (click_pending \/ click)
      /\ click_x' = IF click THEN cursor_x' ELSE click_x
      /\ movement_generation' = movement_generation + 1 + (IF dw # 0 THEN 1 ELSE 0) + (IF click THEN 1 ELSE 0)
      /\ packets' = packets + 1
      /\ driver' = [driver EXCEPT !.press = @ + (IF left /\ ~ left_down_flag THEN 1 ELSE 0),
                                  !.release = @ + (IF left_down_flag /\ ~ left THEN 1 ELSE 0),
                                  !.wheel = @ + dw,
                                  !.owed = @ \/ (left_down_flag /\ ~ left)]

(* A byte out of step (a first byte without its sync bit) is dropped; the  *)
(* others are collected.                                                   *)
MouseInterrupt ==
  /\ packets < MaxPackets /\ halted' = FALSE
  /\ \/ packet_index = 0 /\ UNCHANGED <<mouse, packets, driver>>
     \/ /\ packet_index + 1 < PACKET_SIZE /\ packet_index' = packet_index + 1
        /\ UNCHANGED <<cursor_x, left_down_flag, click_pending, click_x, wheel_delta, movement_generation,
                       packets, driver>>
     \/ /\ packet_index + 1 = PACKET_SIZE /\ packet_index' = 0
        /\ \E left \in BOOLEAN, dx \in -1 .. 1, dw \in {0, 1} : Packet(left, dx, dw)
  /\ UNCHANGED <<keys, pc, locals, last, loop, typed, polled>>

KeyboardInterrupt ==
  /\ typed < MaxKeys /\ typed' = typed + 1
  /\ keys' = Queue!Offer(keys, typed) /\ halted' = FALSE
  /\ UNCHANGED <<mouse, pc, locals, last, loop, packets, driver, polled>>

TimerInterrupt ==
  /\ halted /\ halted' = FALSE
  /\ UNCHANGED <<keys, mouse, pc, locals, last, loop, packets, typed, driver, polled>>

-----------------------------------------------------------------------------
(* input_poll_event, read by read. *)
Return(e, press) ==
  /\ event' = e /\ pc' = "polled"
  /\ polled' = [polled EXCEPT !.press = @ + (IF e = "button" /\ press THEN 1 ELSE 0),
                              !.release = @ + (IF e = "button" /\ ~ press THEN 1 ELSE 0),
                              !.wheel = @ + (IF e = "scroll" THEN wheel ELSE 0)]
  /\ driver' = [driver EXCEPT !.owed = @ /\ ~ (e = "button" /\ ~ press)]

Step(from, to) == ~ halted /\ pc = from /\ pc' = to
quiet == <<halted, packets, typed>>

PollKey ==
  /\ ~ halted /\ pc = "key"
  /\ \/ keys # <<>> /\ keys' = Tail(keys) /\ Return("key", FALSE)
     \/ keys = <<>> /\ pc' = "generation" /\ UNCHANGED <<keys, event, driver, polled>>
  /\ UNCHANGED <<mouse, locals, last, drained, seen, dropped, quiet>>

ReadGeneration ==
  /\ Step("generation", "left") /\ generation' = movement_generation
  /\ UNCHANGED <<keys, mouse, left_down, x, wheel, last, loop, driver, polled, quiet>>
ReadLeft ==
  /\ Step("left", "x") /\ left_down' = left_down_flag
  /\ UNCHANGED <<keys, mouse, generation, x, wheel, last, loop, driver, polled, quiet>>
ReadX ==
  /\ Step("x", "wheel") /\ x' = cursor_x
  /\ UNCHANGED <<keys, mouse, generation, left_down, wheel, last, loop, driver, polled, quiet>>

(* mouse_consume_wheel_delta: the read and the reset. *)
ReadWheel ==
  /\ Step("wheel", "reset") /\ wheel' = wheel_delta
  /\ UNCHANGED <<keys, mouse, generation, left_down, x, last, loop, driver, polled, quiet>>
ResetWheel ==
  /\ ~ halted /\ pc = "reset" /\ wheel_delta' = 0
  /\ \/ /\ wheel # 0 /\ Return("scroll", FALSE)
        /\ last_mouse_generation' = generation
        /\ UNCHANGED <<last_left_down, last_mouse_x>>
     \/ wheel = 0 /\ pc' = "button" /\ UNCHANGED <<event, driver, polled, last>>
  /\ UNCHANGED <<keys, cursor_x, left_down_flag, click_pending, click_x, movement_generation, packet_index,
                 locals, drained, seen, dropped, quiet>>

(* Mutant: a release that is reported leaves the click pending. *)
ButtonChangeKeepsClick ==
  /\ ~ halted /\ pc = "button"
  /\ \/ /\ left_down = last_left_down /\ pc' = "click"
        /\ UNCHANGED <<event, driver, polled, last>>
     \/ /\ left_down # last_left_down /\ Return("button", left_down)
        /\ last_left_down' = left_down /\ last_mouse_x' = x /\ last_mouse_generation' = generation
  /\ UNCHANGED <<keys, mouse, locals, drained, seen, dropped, quiet>>

(* A change of the button, or the next test. *)
ButtonChange ==
  /\ ~ halted /\ pc = "button"
  /\ \/ /\ left_down = last_left_down /\ pc' = "click"
        /\ UNCHANGED <<event, driver, polled, last, click_pending>>
     \/ /\ left_down # last_left_down /\ Return("button", left_down)
        /\ last_left_down' = left_down /\ last_mouse_x' = x /\ last_mouse_generation' = generation
        /\ click_pending' = (click_pending /\ left_down)
  /\ UNCHANGED <<keys, cursor_x, left_down_flag, click_x, wheel_delta, movement_generation, packet_index,
                 locals, drained, seen, dropped, quiet>>

(* Mutant: a movement is only told by its generation. *)
MoveOnGeneration ==
  /\ \/ /\ generation # last_mouse_generation
        /\ Return("move", FALSE)
        /\ last_mouse_x' = x /\ last_mouse_generation' = generation
        /\ UNCHANGED last_left_down
     \/ /\ generation = last_mouse_generation
        /\ Return("none", FALSE)
        /\ UNCHANGED last

MoveUnlessStill ==
  /\ \/ /\ generation # last_mouse_generation \/ x # last_mouse_x
        /\ Return("move", FALSE)
        /\ last_mouse_x' = x /\ last_mouse_generation' = generation
        /\ UNCHANGED last_left_down
     \/ /\ generation = last_mouse_generation /\ x = last_mouse_x
        /\ Return("none", FALSE)
        /\ UNCHANGED last

(* Mutant: the pending click is cleared without an event. *)
ClickForgotten ==
  /\ ~ halted /\ pc = "click"
  /\ MoveUnlessStill /\ click_pending' = FALSE
  /\ UNCHANGED <<keys, cursor_x, left_down_flag, click_x, wheel_delta, movement_generation, packet_index,
                 locals, drained, seen, dropped, quiet>>

(* mouse_consume_click: a release that was missed; else a move, or nothing.*)
Click ==
  /\ ~ halted /\ pc = "click"
  /\ \/ /\ click_pending /\ click_pending' = FALSE /\ Return("button", FALSE)
        /\ last_left_down' = FALSE /\ last_mouse_x' = click_x /\ last_mouse_generation' = generation
     \/ ~ click_pending /\ MoveUnlessStill /\ UNCHANGED click_pending
  /\ UNCHANGED <<keys, cursor_x, left_down_flag, click_x, wheel_delta, movement_generation, packet_index,
                 locals, drained, seen, dropped, quiet>>

-----------------------------------------------------------------------------

(* GuiSystem::run after a poll: the event is handled, or (the limit is     *)
(* reached, or there is none) the dirty part is flushed and the processor  *)
(* waits for an interrupt.                                                 *)
Turn ==
  /\ ~ halted /\ pc = "polled" /\ pc' = "key"
  /\ \/ /\ event # "none" /\ drained < BATCH
        /\ seen' = IF event = "button" THEN last_left_down ELSE seen
        /\ drained' = drained + 1 /\ UNCHANGED <<halted, dropped>>
     \/ /\ event = "none" \/ drained >= BATCH
        /\ halted' = TRUE /\ drained' = 0 /\ UNCHANGED seen
        /\ dropped' = (dropped \/ event = "button")
  /\ event' = "none"
  /\ UNCHANGED <<keys, mouse, locals, last, driver, polled, packets, typed>>

Poll == PollKey \/ ReadGeneration \/ ReadLeft \/ ReadX \/ ReadWheel \/ ResetWheel \/ ButtonChange \/ Click
Next == MouseInterrupt \/ KeyboardInterrupt \/ TimerInterrupt \/ Poll \/ Turn
Spec == Init /\ [][Next]_vars

(* The boot task runs (Scheduler) and the timer interrupts for ever. *)
FairSpec == Spec /\ WF_vars(Poll \/ Turn) /\ WF_vars(TimerInterrupt)

-----------------------------------------------------------------------------
(* docs/ROADMAP.md:38, "GUI input dispatch drains keyboard/mouse events    *)
(* before one coalesced redraw": once no more input arrives, the polls     *)
(* have reported all there was, the input layer's idea of the mouse is the *)
(* driver's, whatever moments the packets came at, and so is the GUI's     *)
(* idea of the button, unless an event came when the batch was full.       *)
InputSettles ==
  <>[](/\ keys = <<>> /\ ~ click_pending /\ wheel_delta = 0
       /\ last_left_down = left_down_flag /\ last_mouse_x = cursor_x
       /\ dropped \/ seen = left_down_flag)

(* The missed-click recovery: after every release of the button a poll     *)
(* returns a release, even when the press was never seen.                  *)
ReleasesAreReported == driver.owed ~> ~ driver.owed

(* No poll invents a press, a release or a step of the wheel: never more   *)
(* than the driver saw.                                                    *)
NothingInvented ==
  /\ polled.press =< driver.press /\ polled.release =< driver.release
  /\ pc # "reset" => polled.wheel + wheel_delta =< driver.wheel
=============================================================================
