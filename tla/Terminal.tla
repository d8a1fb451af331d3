------------------------------ MODULE Terminal ------------------------------
(***************************************************************************)
(* The Terminal (kernel/gui/apps/terminal.cpp): the lines on its screen,   *)
(* the command being typed and the commands kept for recall.               *)
(*                                                                         *)
(* A row is the sequence of the characters in it up to the cursor or the   *)
(* end, so the column is the length of the last row.  A command prints one *)
(* of Outputs, or clears the screen; the prompt is one character.          *)
(***************************************************************************)
EXTENDS Integers, Sequences, SequencesExt

CONSTANTS HISTORY_ROWS, COMMAND_SIZE, COMMAND_HISTORY,
          Cols,         \* the values of text_cols() as the window is resized
          Chars,        \* characters that are typed
          Outputs,      \* texts that commands and programs print
          MaxCommands   \* bound: commands entered

VARIABLES opened, cols, lines, scroll, command,
          command_history, command_history_count, command_history_index,
          log,          \* history: the commands entered
          shown,        \* history: the recalled command still shown, or -1
          disturbed     \* history: screen and command have parted
vars == <<opened, cols, lines, scroll, command, command_history, command_history_count,
          command_history_index, log, shown, disturbed>>
recall == <<command_history, command_history_count, command_history_index, log>>

Prompt == <<">">>
NL == "newline"
BS == "backspace"

-----------------------------------------------------------------------------
Newline(rows) ==
  IF Len(rows) < HISTORY_ROWS THEN Append(rows, <<>>) ELSE Append(Tail(rows), <<>>)

(* write, for one character: a full row is ended at once, a row that the   *)
(* window has become too narrow for before the character.                  *)
Put(rows, c, width) ==
  LET row == Last(rows)
      fresh == IF Len(row) >= width THEN Newline(rows) ELSE rows
      put == [fresh EXCEPT ![Len(fresh)] = Append(@, c)]
  IN  CASE c = NL -> Newline(rows)
        [] c = BS -> IF row = <<>> THEN rows ELSE [rows EXCEPT ![Len(rows)] = Front(row)]
        [] OTHER  -> IF Len(Last(put)) >= width THEN Newline(put) ELSE put

Write(rows, text, width) == FoldLeft(LAMBDA r, c : Put(r, c, width), rows, text)

(* Mutant: one back-space for the whole command. *)
EraseOnce(rows, n, width) == Write(rows, <<BS>>, width)

(* What the back-spaces that take back n characters of the command do. *)
Erase(rows, n, width) == Write(rows, [i \in 1 .. n |-> BS], width)
Misses(rows, n) == n > Len(Last(rows))

(* The first row that draw shows, of the visible ones. *)
StartRow(rows) ==
  LET max_start == IF Len(lines) > rows THEN Len(lines) - rows ELSE 0
  IN  IF max_start > scroll THEN max_start - scroll ELSE 0
CursorRow(rows) == IF Len(lines) < rows THEN Len(lines) - 1 ELSE rows - 1

-----------------------------------------------------------------------------
Init ==
  /\ opened = FALSE /\ cols \in Cols /\ lines = <<<<>>>> /\ scroll = 0 /\ command = <<>>
  /\ command_history = [s \in 0 .. COMMAND_HISTORY - 1 |-> <<>>]
  /\ command_history_count = 0 /\ command_history_index = -1
  /\ log = <<>> /\ shown = -1 /\ disturbed = FALSE

(* open_window on a closed Terminal; an open one is only focused. *)
OpenWindow ==
  /\ ~ opened /\ opened' = TRUE
  /\ command' = <<>> /\ command_history_index' = -1
  /\ lines' = Write(<<<<>>>>, Prompt, cols) /\ scroll' = 0
  /\ shown' = -1 /\ disturbed' = FALSE
  /\ UNCHANGED <<cols, command_history, command_history_count, log>>

Close ==
  /\ opened /\ opened' = FALSE /\ command' = <<>> /\ shown' = -1
  /\ UNCHANGED <<cols, lines, scroll, recall, disturbed>>

Resize == cols' \in Cols \ {cols} /\ UNCHANGED <<opened, lines, scroll, command, recall, shown, disturbed>>

(* run_program for the file explorer, whatever has been typed. *)
RunProgram ==
  /\ opened
  /\ \E text \in Outputs : lines' = Write(lines, text \o Prompt, cols)
  /\ scroll' = 0 /\ disturbed' = TRUE
  /\ UNCHANGED <<opened, cols, command, recall, shown>>

(* Mutant: a full history takes no more commands. *)
PushHistoryFull(line) ==
  IF line = <<>>
  THEN UNCHANGED recall
  ELSE /\ command_history' = IF command_history_count >= COMMAND_HISTORY THEN command_history
                             ELSE [command_history EXCEPT ![command_history_count] = line]
       /\ command_history_count' = command_history_count + 1
       /\ command_history_index' = -1
       /\ log' = Append(log, line)

PushHistory(line) ==
  IF line = <<>>
  THEN UNCHANGED recall
  ELSE /\ command_history' = [command_history EXCEPT ![command_history_count % COMMAND_HISTORY] = line]
       /\ command_history_count' = command_history_count + 1
       /\ command_history_index' = -1
       /\ log' = Append(log, line)

(* The enter key, with execute_command: output and prompt, or clear. *)
Enter ==
  /\ opened /\ Len(log) < MaxCommands
  /\ PushHistory(command)
  /\ \/ \E text \in IF command = <<>> THEN {<<>>} ELSE Outputs :
          lines' = Write(lines, <<NL>> \o text \o Prompt, cols)
     \/ command # <<>> /\ lines' = Write(<<<<>>>>, Prompt, cols)
  /\ scroll' = 0 /\ command' = <<>> /\ shown' = -1 /\ disturbed' = FALSE
  /\ UNCHANGED <<opened, cols>>

Backspace ==
  /\ opened /\ command # <<>>
  /\ command' = Front(command) /\ lines' = Erase(lines, 1, cols)
  /\ scroll' = 0 /\ shown' = -1 /\ disturbed' = (disturbed \/ Misses(lines, 1))
  /\ UNCHANGED <<opened, cols, recall>>

Type(c) ==
  /\ opened /\ Len(command) + 1 < COMMAND_SIZE
  /\ command' = Append(command, c) /\ lines' = Write(lines, <<c>>, cols)
  /\ scroll' = 0 /\ shown' = -1
  /\ UNCHANGED <<opened, cols, recall, disturbed>>

(* The arrow keys: recall_history, in a closed Terminal too. *)
MaxIndex == (IF command_history_count < COMMAND_HISTORY THEN command_history_count ELSE COMMAND_HISTORY) - 1
Slot(index) == (command_history_count - 1 - (MaxIndex - index)) % COMMAND_HISTORY
RecallHistory(delta) ==
  LET moved == IF command_history_index < 0 THEN MaxIndex ELSE command_history_index + delta
      index == IF moved < 0 THEN 0 ELSE IF moved > MaxIndex THEN MaxIndex ELSE moved
  IN  /\ command_history_count > 0
      /\ command_history_index' = index
      /\ command' = command_history[Slot(index)]
      /\ lines' = Write(Erase(lines, Len(command), cols), command', cols)
      /\ scroll' = 0 /\ shown' = index
      /\ disturbed' = (disturbed \/ Misses(lines, Len(command)))
      /\ UNCHANGED <<opened, cols, command_history, command_history_count, log>>

(* The page keys, and the wheel: scroll(+-1). *)
Scroll(delta) ==
  /\ scroll' = IF delta > 0 THEN (IF scroll + delta < Len(lines) THEN scroll + delta ELSE Len(lines) - 1)
               ELSE IF - delta > scroll THEN 0 ELSE scroll + delta
  /\ UNCHANGED <<opened, cols, lines, command, recall, shown, disturbed>>

Next ==
  \/ OpenWindow \/ Close \/ Resize \/ RunProgram \/ Enter \/ Backspace
  \/ \E c \in Chars : Type(c)
  \/ \E delta \in {-1, 1} : RecallHistory(delta) \/ Scroll(delta)

Spec == Init /\ [][Next]_vars

-----------------------------------------------------------------------------
RECURSIVE Flat(_)
Flat(rows) == IF rows = <<>> THEN <<>> ELSE Head(rows) \o Flat(Tail(rows))

(* Unless a back-space met the start of a row or a program wrote in        *)
(* between, what stands before the cursor is the prompt and the command    *)
(* that enter will run; and however high the window is, draw shows rows    *)
(* that exist and, unscrolled, the cursor on the row being written.        *)
EchoIsCommand ==
  /\ opened /\ ~ disturbed => IsSuffix(Prompt \o command, Flat(lines))
  /\ \A rows \in 1 .. HISTORY_ROWS + 1 :
       /\ StartRow(rows) < Len(lines)
       /\ scroll = 0 => StartRow(rows) + CursorRow(rows) = Len(lines) - 1

(* The arrow keys step through the last COMMAND_HISTORY commands in the    *)
(* order in which they were entered.                                       *)
RecallsTheLog == shown >= 0 => command = log[Len(log) - (MaxIndex - shown)]
=============================================================================
