------------------------------ MODULE MCDesktop ------------------------------
(***************************************************************************)
(* The desktop, one part at a time: which windows there are and which has  *)
(* the focus, the frame of one of them, the Terminal's text and the        *)
(* Notepad's.  The parts share no variable, so the one chosen at the start *)
(* takes steps and the others stay in an initial state.                    *)
(***************************************************************************)
EXTENDS Windows

VARIABLES part,
          app, metrics, opened, mode, win, restore, chosen,
          terminal_opened, cols, lines, scroll, command, command_history, command_history_count,
          command_history_index, log, shown, disturbed,
          store, notepad_opened, path, buffer, dirty, last_save_ok, origin, touched
geometry == <<app, metrics, opened, mode, win, restore, chosen>>
terminal == <<terminal_opened, cols, lines, scroll, command, command_history, command_history_count,
              command_history_index, log, shown, disturbed>>
notepad == <<store, notepad_opened, path, buffer, dirty, last_save_ok, origin, touched>>

(* Terminal, Notepad and one utility window, Files.  The points: every area *)
(* where all frames overlap, the title bar of Files alone, and the targets  *)
(* of the desktop.  A maximized frame leaves out the taskbar and an edge of *)
(* the desktop.                                                             *)
Areas == {"close", "maximize", "minimize", "resize", "titlebar", "client"}
Nothing == [target |-> "desktop", app |-> "none"]
On(target, a) ==
  [under |-> {}, area |-> "client", full |-> target \notin {"start", "task", "desktop"},
   below |-> [target |-> target, app |-> a]]
AllPoints ==
  {[under |-> u, area |-> a, full |-> TRUE, below |-> Nothing] :
     <<u, a>> \in ({Apps} \X Areas) \cup {<<{"files"}, "titlebar">>}}
  \cup {On("start", "none"), On("power", "none"), On("desktop", "none")}
  \cup {On("task", a) : a \in {"terminal", "files"}}
  \cup {On("startapp", "terminal"), On("icon", "files")}

(* The fallback screen and two of the framebuffer's. *)
Geometry == INSTANCE WindowGeometry WITH Screens <- {<<320, 200>>, <<640, 480>>, <<1024, 768>>}

(* Three rows that wrap after two or three columns, a command that fills   *)
(* its buffer, one command more than the history holds, one line printed.  *)
Shell == INSTANCE Terminal WITH
  opened <- terminal_opened, HISTORY_ROWS <- 3, COMMAND_SIZE <- 3, COMMAND_HISTORY <- 2,
  Cols <- {2, 3}, Chars <- {"a"}, Outputs <- {<<"o", "newline">>}, MaxCommands <- 3

(* A path that does not fit into path_ and is cut to another one, and files *)
(* that are empty, fit, or are too long for the buffer.                     *)
Long == "/documents/meeting-of-november.txt"
Cut31(p) == IF p = Long THEN "/documents/meeting-of-november." ELSE p
Editor == INSTANCE Notepad WITH
  opened <- notepad_opened, BUFFER_SIZE <- 2, Chars <- {"x", "y"}, Cut <- Cut31,
  Paths <- {"untitled.txt", Long, Cut31(Long)},
  Files <- {<<>>, <<"x">>, <<"x", "y", "x">>}

DesktopInit ==
  /\ part \in {"windows", "geometry", "terminal", "notepad"}
  /\ Init
  /\ Geometry!Init
  /\ part # "geometry" => app = "files" /\ metrics.width = 320
  /\ Shell!Init /\ (part # "terminal" => cols = 2)
  /\ Editor!Init /\ (part # "notepad" => \A p \in DOMAIN store : store[p] = <<>>)

DesktopNext ==
  \/ part = "windows" /\ Next /\ UNCHANGED <<part, geometry, terminal, notepad>>
  \/ part = "geometry" /\ Geometry!Next /\ UNCHANGED <<part, vars, terminal, notepad>>
  \/ part = "terminal" /\ Shell!Next /\ UNCHANGED <<part, vars, geometry, notepad>>
  \/ part = "notepad" /\ Editor!Next /\ UNCHANGED <<part, vars, geometry, terminal>>

DesktopSpec == DesktopInit /\ [][DesktopNext]_<<part, vars, geometry, terminal, notepad>>

(* Of the windows only the order of the open ones matters, of a frame      *)
(* restore while it is maximized, and of the history what is asked about.  *)
Rank(a) == Cardinality({b \in gui.open : gui.z[b] < gui.z[a]})
Order == <<[gui EXCEPT !.z = [a \in gui.open |-> Rank(a)], !.counter = 0],
           press, pointer, powered, button, lost>>
Frame == <<app, metrics, opened, mode, win, IF mode = "maximized" THEN restore ELSE win,
           IF app \in {"terminal", "notepad"} THEN win ELSE chosen>>
View == <<part, Order, Frame, terminal, notepad>>

-----------------------------------------------------------------------------
(* window_manager.cpp: an open window keeps its least size and a close     *)
(* button that can be reached.                                             *)
FrameUsable == part = "geometry" => Geometry!FrameUsable
(* utility_apps.cpp: a maximized utility window will be restored to the    *)
(* frame chosen for it.                                                    *)
RestoreGivesBack == part = "geometry" => Geometry!RestoreGivesBack

(* terminal.cpp: what stands before the cursor is the prompt and the       *)
(* command that enter will run, unless a program wrote in between; the     *)
(* rows drawn exist, the one being written among them if unscrolled.       *)
EchoIsCommand == part = "terminal" => Shell!EchoIsCommand
(* terminal.cpp: the arrow keys recall the last commands entered, the      *)
(* newest first.                                                           *)
RecallsTheLog == part = "terminal" => Shell!RecallsTheLog

(* notepad.cpp: a text that is not marked as changed is the content of the *)
(* file that was opened, if its path fits.                                 *)
CleanIsStored == part = "notepad" => Editor!CleanIsStored
=============================================================================
