------------------------------ MODULE Keyboard ------------------------------
(***************************************************************************)
(* The keyboard interrupt, kernel/drivers/input/keyboard.c: a byte from    *)
(* the keyboard becomes a state of the modifiers, an event and a character.*)
(* The two buffers are the queues that KeyRing is shown to implement.      *)
(*                                                                         *)
(* Codes are named by what the handler tells apart: the two shift keys,    *)
(* ctrl and alt (the right ones are extended), caps, "up" for the nine     *)
(* keys that have an ASCII code of their own, "s" for a letter (the one    *)
(* ctrl changes) and "f9" for a key without a character.                   *)
(***************************************************************************)
EXTENDS Naturals, Sequences

CONSTANTS Codes, Extended, \* the codes the keyboard sends, alone or after 0xE0
          Capacity,    \* items a buffer holds
          MaxBytes     \* bound: bytes the keyboard sends

VARIABLES extended_scancode, shift_down, ctrl_down, alt_down, caps_lock,
          chars, events,
          held,        \* environment: the keys that are down
          bytes

vars == <<extended_scancode, shift_down, ctrl_down, alt_down, caps_lock, chars, events, held, bytes>>
Buffer == INSTANCE LossyQueue WITH queue <- events, popped <- <<>>, Item <- {}

Init ==
  /\ extended_scancode = FALSE /\ shift_down = FALSE /\ ctrl_down = FALSE
  /\ alt_down = FALSE /\ caps_lock = FALSE
  /\ chars = <<>> /\ events = <<>> /\ held = {} /\ bytes = 0

CurrentModifiers(shift, ctrl, alt, caps) ==
  {m \in {"shift", "ctrl", "alt", "caps"} :
     CASE m = "shift" -> shift [] m = "ctrl" -> ctrl [] m = "alt" -> alt [] m = "caps" -> caps}

(* The character of a pressed key that is not a modifier; "" for none. *)
Ascii(code) ==
  CASE code = "up" -> "UP"
    [] code = "s" /\ ctrl_down -> "CTRL_S"
    [] code = "s" /\ ~ ctrl_down -> IF shift_down \/ caps_lock THEN "S" ELSE "s"
    [] OTHER -> ""

Modifier == {"lshift", "rshift", "ctrl", "alt"}

(* keyboard_event_push, after the modifiers were set. *)
EventPush(code, release, ascii) ==
  events' = Buffer!Offer(events,
    [keycode |-> <<extended_scancode, code>>, ascii |-> ascii, pressed |-> ~ release,
     modifiers |-> CurrentModifiers(shift_down', ctrl_down', alt_down', caps_lock')])

(* keyboard_handle_interrupt for the prefix byte 0xE0 ... *)
Prefix ==
  /\ extended_scancode' = TRUE
  /\ UNCHANGED <<shift_down, ctrl_down, alt_down, caps_lock, chars, events, held>>

(* Mutant: a release leaves the flag set. *)
FlagOnlySet(flag, codes, code, release) == IF code \in codes /\ ~ release THEN TRUE ELSE flag

(* A modifier's flag after a key of code went down or up. *)
Flag(flag, codes, code, release) == IF code \in codes THEN ~ release ELSE flag

(* ... and for the byte of a key going down or up. *)
Key(code, release) ==
  LET ascii == IF release \/ code \in Modifier \cup {"caps"} THEN "" ELSE Ascii(code)
  IN  /\ extended_scancode' = FALSE
      /\ shift_down' = Flag(shift_down, {"lshift", "rshift"}, code, release)
      /\ ctrl_down' = Flag(ctrl_down, {"ctrl"}, code, release)
      /\ alt_down' = Flag(alt_down, {"alt"}, code, release)
      /\ caps_lock' = IF code = "caps" /\ ~ release THEN ~ caps_lock ELSE caps_lock
      /\ chars' = IF ascii = "" THEN chars ELSE Buffer!Offer(chars, ascii)
      /\ EventPush(code, release, ascii)
      /\ held' = IF release THEN held \ {<<extended_scancode, code>>}
                 ELSE held \cup {<<extended_scancode, code>>}

(* The keyboard sends a byte: a key goes down, repeats, or goes up.        *)
Interrupt ==
  /\ bytes < MaxBytes /\ bytes' = bytes + 1
  /\ \/ ~ extended_scancode /\ Extended # {} /\ Prefix
     \/ \E code \in IF extended_scancode THEN Extended ELSE Codes :
          Key(code, FALSE) \/ (<<extended_scancode, code>> \in held /\ Key(code, TRUE))

(* keyboard_try_read_event and keyboard_try_read_char. *)
TryReadEvent ==
  /\ events # <<>> /\ events' = Tail(events)
  /\ UNCHANGED <<extended_scancode, shift_down, ctrl_down, alt_down, caps_lock, chars, held, bytes>>
TryReadChar ==
  /\ chars # <<>> /\ chars' = Tail(chars)
  /\ UNCHANGED <<extended_scancode, shift_down, ctrl_down, alt_down, caps_lock, events, held, bytes>>

Next == Interrupt \/ TryReadEvent \/ TryReadChar
Spec == Init /\ [][Next]_vars

-----------------------------------------------------------------------------
(* keyboard.c:85-96, 163-252: no modifier gets stuck.  One that is set     *)
(* belongs to a key that is down, whatever prefixes, repeats and releases  *)
(* came in between, and however long an event waits, it says which         *)
(* modifiers held when its key was struck: a modifier's own event counts   *)
(* it, a letter is a capital exactly under shift or caps, and Ctrl-S comes *)
(* with ctrl.                                                              *)
NoStuckModifier ==
  LET Down(codes) == \E k \in held : k[2] \in codes
      code(e) == e.keycode[2]
  IN  /\ \A i \in DOMAIN events : LET e == events[i] IN
           /\ code(e) \in {"lshift", "rshift"} => e.pressed = ("shift" \in e.modifiers)
           /\ code(e) \in {"ctrl", "alt"} => e.pressed = (code(e) \in e.modifiers)
           /\ e.ascii = "S" => e.modifiers \cap {"shift", "caps"} # {}
           /\ e.ascii = "s" => e.modifiers \cap {"shift", "caps", "ctrl"} = {}
           /\ e.ascii = "CTRL_S" => "ctrl" \in e.modifiers
      /\ shift_down => Down({"lshift", "rshift"})
      /\ ctrl_down => Down({"ctrl"})
      /\ alt_down => Down({"alt"})
=============================================================================
