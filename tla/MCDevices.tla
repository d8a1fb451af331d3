------------------------------ MODULE MCDevices ------------------------------
(***************************************************************************)
(* The devices and what buffers them, one at a time: the sector cache      *)
(* above a disk that answers or fails, the driver that makes a drive       *)
(* answer, the keyboard's ring buffers and its handler, the path of mouse  *)
(* and keys to the GUI, and the clock.  SectorCache asks of a transfer     *)
(* only what TrueMeansDone says of the driver, and the handlers use the    *)
(* queue that KeyRing implements, so the parts share no variable: the one  *)
(* chosen at the start takes steps, and the others stay in an initial      *)
(* state.                                                                  *)
(***************************************************************************)
EXTENDS SectorCache

VARIABLES part,
          drive, medium, ata_pc, call, polls, returned, late, missed,
          buffer, head, tail, popped,
          extended_scancode, shift_down, ctrl_down, alt_down, caps_lock, chars, events, held, bytes,
          keys, cursor_x, left_down_flag, click_pending, click_x, wheel_delta, movement_generation,
          packet_index, pc, generation, left_down, x, wheel, last_left_down, last_mouse_x,
          last_mouse_generation, event, drained, seen, dropped, halted, packets, typed, driver, polled,
          bcd, h24, clock, begun, ticks, rtc_pc, second, minute, hour
ata == <<drive, medium, ata_pc, call, polls, returned, late, missed>>
ring == <<buffer, head, tail, popped>>
keyboard ==
  <<extended_scancode, shift_down, ctrl_down, alt_down, caps_lock, chars, events, held, bytes>>
input ==
  <<keys, cursor_x, left_down_flag, click_pending, click_x, wheel_delta, movement_generation,
    packet_index, pc, generation, left_down, x, wheel, last_left_down, last_mouse_x,
    last_mouse_generation, event, drained, seen, dropped, halted, packets, typed, driver, polled>>
rtc == <<bcd, h24, clock, begun, ticks, rtc_pc, second, minute, hour>>

(* Two sectors and contents; a wait is given up after three looks. *)
Disk == INSTANCE Ata WITH
  disk <- medium, pc <- ata_pc, result <- returned, Lba <- {1, 2}, Data <- {"a", "b"}, POLLS <- 3

(* A ring that wraps and overruns. *)
Ring == INSTANCE KeyRing WITH Item <- {1, 2}, SIZE <- 5

(* Five bytes are a modifier, a key and their releases, one of them         *)
(* extended; buffers of two items overrun.                                  *)
Keys == INSTANCE Keyboard WITH
  Codes <- {"lshift", "ctrl", "alt", "caps", "s", "up", "f9"}, Extended <- {"ctrl", "alt", "up"},
  Capacity <- 2, MaxBytes <- 5

(* Two columns, two packets of two bytes (a press and a release, or two     *)
(* steps of the wheel) and two keys; the loop handles two events a turn.    *)
Input == INSTANCE InputPath WITH
  Width <- 2, PACKET_SIZE <- 2, Capacity <- 1, BATCH <- 2, MaxPackets <- 2, MaxKeys <- 2

(* Times around the carries. *)
Clock == INSTANCE Rtc WITH pc <- rtc_pc, Starts <- {0, 9, 58, 59}, MaxTicks <- 1

DevicesInit ==
  /\ part \in {"cache", "disk", "ring", "keyboard", "input", "rtc"}
  /\ Init /\ (part # "cache" => disk = [s \in Sectors |-> Zero])
  /\ Disk!Init
  /\ part # "disk" => medium = [l \in {1, 2} |-> "a"] /\ call.lba = 1 /\ call.data = "a"
  /\ Ring!Init /\ Keys!Init /\ Input!Init
  /\ Clock!Init
  /\ part # "rtc" => bcd /\ h24 /\ clock = [hour |-> 0, minute |-> 0, second |-> 0]

Caches(A) == part = "cache" /\ A /\ UNCHANGED <<part, ata, ring, keyboard, input, rtc>>
Transfers(A) == part = "disk" /\ A /\ UNCHANGED <<part, vars, ring, keyboard, input, rtc>>
Buffers(A) == part = "ring" /\ A /\ UNCHANGED <<part, vars, ata, keyboard, input, rtc>>
Types(A) == part = "keyboard" /\ A /\ UNCHANGED <<part, vars, ata, ring, input, rtc>>
Points(A) == part = "input" /\ A /\ UNCHANGED <<part, vars, ata, ring, keyboard, rtc>>
Tells(A) == part = "rtc" /\ A /\ UNCHANGED <<part, vars, ata, ring, keyboard, input>>

(* The keyboard may stay silent, and a time that is read stays read. *)
Rests == Types(UNCHANGED keyboard) \/ Tells(rtc_pc = "done" /\ UNCHANGED rtc)

DevicesNext ==
  \/ Caches(Next) \/ Transfers(Disk!Next) \/ Buffers(Ring!Next) \/ Types(Keys!Next)
  \/ Points(Input!Next) \/ Tells(Clock!Next) \/ Rests

DevicesSpec ==
  /\ DevicesInit /\ [][DevicesNext]_<<part, vars, ata, ring, keyboard, input, rtc>>
  /\ WF_input(Points(Input!Poll \/ Input!Turn))
  /\ WF_input(Points(Input!TimerInterrupt))

-----------------------------------------------------------------------------
(* ata.c: until a wait is given up, a call that succeeds read or wrote the *)
(* sector it was asked for, unless an error was cleared by the flush.      *)
TrueMeansDone == part = "disk" => Disk!TrueMeansDone

(* keyboard.c: a ring buffer is a queue that drops what arrives when it is *)
(* full and returns the oldest item, also when it has wrapped or overrun.  *)
ImplementsQueue == Ring!ImplementsQueue
(* keyboard.c: a modifier that is set belongs to a key that is down, and   *)
(* an event carries the modifiers of the moment its key was struck.        *)
NoStuckModifier == part = "keyboard" => Keys!NoStuckModifier

(* mouse.c, input.c: no poll reports a press, a release or a step of the   *)
(* wheel that did not happen.                                              *)
NothingInvented == part = "input" => Input!NothingInvented
(* mouse.c, input.c, gui.cpp: when no more input arrives, all of it is     *)
(* reported in the end, and handled unless its batch was full.             *)
InputSettles == part = "input" => Input!InputSettles
(* input.c: after every release of the button a poll reports one, even if  *)
(* the press was missed.                                                   *)
ReleasesAreReported == Input!ReleasesAreReported

(* rtc.c: in every format the time read is the time at the start of the    *)
(* read, if the seconds do not wrap (and, in 12 hours, outside the hours   *)
(* of noon and midnight).                                                  *)
ReadsTheTime == part = "rtc" => Clock!ReadsTheTime
=============================================================================
