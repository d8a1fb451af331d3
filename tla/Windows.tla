------------------------------ MODULE Windows -------------------------------
(***************************************************************************)
(* The desktop's windows: opening, focus, stacking, minimizing, maximizing *)
(* and closing, and the mouse and key events that cause them               *)
(* (kernel/gui/core/gui.cpp and the window functions of gui/apps).         *)
(*                                                                         *)
(* A handler is a function from desktops to desktops.  A point of the      *)
(* screen is given by the windows whose frame contains it, the area of the *)
(* frame it falls on, whether a maximized frame contains it too, and what  *)
(* is below them; where exactly frames are is the subject of               *)
(* WindowGeometry.  Whether two clicks are close enough in  *)
(* time, what a file is and whether its program starts are left open.      *)
(***************************************************************************)
EXTENDS Naturals, FiniteSets

CONSTANTS Utility,     \* the utility windows: Files, Monitor, About
          Points       \* the points of the screen that are clicked

Apps == {"terminal", "notepad"} \cup Utility

(* What is below the windows: the desktop, the Start button and the power  *)
(* items belong to no application, the other targets to one.  A maximized  *)
(* frame ends above the taskbar.                                           *)
ASSUME PointsAssumption ==
  /\ "files" \in Utility /\ {"none", "terminal", "notepad"} \cap Utility = {}
  /\ \A p \in Points :
       /\ p.area \in {"close", "maximize", "minimize", "resize", "titlebar", "client"}
       /\ p.below.target \in {"start", "task"} => ~ p.full
       /\ \/ p.below.target \in {"task", "startapp", "icon"} /\ p.below.app \in Apps
          \/ p.below.target \in {"desktop", "start", "power"} /\ p.below.app = "none"

NoHit == [target |-> "none", app |-> "none"]

VARIABLES gui,         \* open, mode, focused, z of the windows; z_counter_, start_menu_open_, dirty_
          press,       \* mouse_press_x_/y_ and mouse_press_hit_
          pointer,     \* dragging_ and resizing_
          powered,
          button,      \* the button as the events show it
          lost         \* history: a release was dropped
vars == <<gui, press, pointer, powered, button, lost>>

Visible(s) == {a \in s.open : s.mode[a] # "minimized"}
MarkDirty(s) == [s EXCEPT !.dirty = "full"]

(* GuiSystem::initialize. *)
Desktop ==
  [open |-> {}, mode |-> [a \in Apps |-> "normal"], focused |-> {}, z |-> [a \in Apps |-> 0],
   counter |-> 1, menu |-> FALSE, dirty |-> "clean"]

-----------------------------------------------------------------------------

(* focus of an application: without effect on one that is not open. *)
Focus(s, a) ==
  IF a \in s.open
  THEN [s EXCEPT !.focused = @ \cup {a}, !.z = [@ EXCEPT ![a] = s.counter + 1], !.counter = @ + 1]
  ELSE [s EXCEPT !.counter = @ + 1]

(* Mutant: the other windows keep the focus. *)
FocusAppKeepsOthers(s, a) == Focus(s, a)

FocusApp(s, a) == Focus([s EXCEPT !.focused = {}], a)

(* open_window of the three kinds of application. *)
OpenWindow(s, a) ==
  LET restored == \/ a \notin s.open \/ a = "notepad"
                  \/ a = "terminal" /\ s.mode[a] = "minimized"
      mode == IF restored THEN "normal" ELSE s.mode[a]
  IN  Focus([s EXCEPT !.open = @ \cup {a}, !.mode = [@ EXCEPT ![a] = mode]], a)

OpenApp(s, a) ==
  MarkDirty([FocusApp(OpenWindow(s, a), a) EXCEPT !.menu = FALSE])

(* Mutant: no repaint is asked for. *)
MinimizeAppQuietly(s, a) ==
  [s EXCEPT !.mode = [@ EXCEPT ![a] = "minimized"], !.focused = @ \ {a}]

MinimizeApp(s, a) ==
  MarkDirty([s EXCEPT !.mode = [@ EXCEPT ![a] = "minimized"], !.focused = @ \ {a}])

CloseApp(s, a) ==
  MarkDirty([s EXCEPT !.open = @ \ {a}, !.focused = @ \ {a}, !.mode = [@ EXCEPT ![a] = "normal"]])

ToggleMaximizeApp(s, a) ==
  LET mode == IF s.mode[a] = "maximized" THEN "normal" ELSE "maximized"
  IN  MarkDirty(FocusApp(Focus([s EXCEPT !.mode = [@ EXCEPT ![a] = mode]], a), a))

(* launch_app_elf: the program does not start, or it asks for its window   *)
(* (gui_open_application) and ends.                                        *)
Launch(s, a) == {s, OpenApp(s, a)}

(* open_file_in_notepad: NotepadApp::open_file reads the file or fails. *)
OpenFileInNotepad(s) ==
  {[s EXCEPT !.counter = @ + 1],
   MarkDirty(FocusApp(Focus([s EXCEPT !.open = @ \cup {"notepad"},
                                      !.mode = [@ EXCEPT !["notepad"] = "normal"]], "notepad"), "notepad"))}

(* run_file_from_explorer: a text, a program with a window, another        *)
(* program in the Terminal (which may open a window too), or neither.      *)
RunFile(s) ==
  LET shown == FocusApp(OpenWindow(s, "terminal"), "terminal")
      ran == OpenWindow(shown, "terminal")
  IN  {s} \cup OpenFileInNotepad(s) \cup {OpenApp(s, a) : a \in Apps}
          \cup {MarkDirty(t) : t \in {ran} \cup {OpenApp(ran, a) : a \in Apps}}

-----------------------------------------------------------------------------

(* hit_test: the topmost of the visible windows at the point, else what is *)
(* below them, when it is there.                                           *)
Over(s, p) == {a \in Visible(s) : IF s.mode[a] = "maximized" THEN p.full ELSE a \in p.under}
TopOf(s, over) == CHOOSE a \in over : \A b \in over : s.z[b] =< s.z[a]
HitTest(s, p) ==
  LET over == Over(s, p)
      top == TopOf(s, over)
      shown == CASE p.below.target = "task" -> p.below.app \in s.open
                 [] p.below.target \in {"startapp", "power"} -> s.menu
                 [] OTHER -> TRUE
  IN  IF over # {}
      THEN [target |-> IF s.mode[top] = "maximized" /\ p.area \in {"resize", "titlebar"}
                       THEN "client" ELSE p.area,
            app |-> top]
      ELSE IF shown THEN p.below ELSE [target |-> "desktop", app |-> "none"]

(* handle_left_press. *)
AfterPress(s, hit) ==
  IF hit.app \in Apps THEN MarkDirty([FocusApp(s, hit.app) EXCEPT !.menu = FALSE]) ELSE s

Press(p) ==
  LET hit == HitTest(gui, p)
  IN  /\ powered /\ button = "up"
      /\ press' = [at |-> p, hit |-> hit]
      /\ gui' = AfterPress(gui, hit)
      /\ pointer' = CASE hit.target = "resize" -> "resize" [] hit.target = "titlebar" -> "drag"
                      [] OTHER -> pointer
      /\ button' = "down"
      /\ UNCHANGED <<powered, lost>>

(* What handle_left_release makes of a click on a target. *)
Clicked(s, hit) ==
  CASE hit.target = "close" -> {CloseApp(s, hit.app)}
    [] hit.target = "maximize" -> {ToggleMaximizeApp(s, hit.app)}
    [] hit.target = "minimize" -> {MinimizeApp(s, hit.app)}
    [] hit.target = "client" /\ hit.app = "files" -> {s, MarkDirty(s)} \cup RunFile(s)
    [] hit.target = "start" -> {MarkDirty([s EXCEPT !.menu = ~ @])}
    [] hit.target = "task" -> {OpenApp(s, hit.app)}
    [] hit.target \in {"startapp", "icon"} -> {MarkDirty(t) : t \in Launch(s, hit.app)}
    [] hit.target = "desktop" -> {MarkDirty([s EXCEPT !.focused = {}, !.menu = FALSE])}
    [] OTHER -> {s}

(* Mutant: a release that is no click leaves the drag on. *)
PointerAfterMismatch(click) == IF click THEN "none" ELSE pointer

(* end_pointer_action: whatever was released where. *)
PointerAfter(click) == "none"

(* handle_left_release; shutdown and restart end it all. *)
Release(p) ==
  LET start == IF press.hit.target = "none" THEN [at |-> p, hit |-> HitTest(gui, p)] ELSE press
      hit == HitTest(gui, p)
      click == p = start.at /\ hit = start.hit
  IN  /\ powered
      /\ press' = IF click THEN start ELSE [start EXCEPT !.hit = NoHit]
      /\ gui' \in IF click THEN Clicked(gui, hit) ELSE {gui}
      /\ pointer' = PointerAfter(click)
      /\ powered' = ~ (click /\ hit.target = "power")
      /\ button' = "up" /\ UNCHANGED lost

(* A release that GuiSystem::run polls after its 64th event and drops      *)
(* (InputPath); a press dropped there is a release with the button up.     *)
LoseRelease ==
  /\ powered /\ button # "up" /\ button' = "up" /\ lost' = TRUE
  /\ UNCHANGED <<gui, press, pointer, powered>>

(* handle_mouse_drag invalidates the window it moves or resizes. *)
Drag ==
  /\ powered /\ pointer # "none" /\ press.hit.app \in Apps
  /\ gui' = [gui EXCEPT !.dirty = IF @ = "full" THEN @ ELSE "rect"]
  /\ UNCHANGED <<press, pointer, powered, button, lost>>

(* A key that Terminal handles; the command it ends may run a program that *)
(* opens a window.  The page and arrow keys do not focus the Terminal.     *)
TerminalKey(s) ==
  LET typed == Focus(s, "terminal")
      done == {typed, [s EXCEPT !.counter = @ + 1]} \cup {OpenApp(typed, a) : a \in Apps}
  IN  IF "terminal" \in Visible(s)
      THEN {MarkDirty([t EXCEPT !.focused = @ \ Utility]) : t \in done}
      ELSE {MarkDirty([s EXCEPT !.counter = @ + 1])}

(* handle_event for keys: F1 to F4, F5, and those for Notepad or Terminal. *)
KeyPressed(s) ==
  (UNION {{MarkDirty(u) : u \in Launch(s, a)} : a \in Apps \ {"notepad"}})
  \cup (UNION {{u} \cup OpenFileInNotepad(u) : u \in Launch(s, "files")})
  \cup IF "notepad" \in s.open /\ "notepad" \in s.focused THEN {MarkDirty(s)} ELSE TerminalKey(s)

Key ==
  /\ powered /\ gui' \in KeyPressed(gui)
  /\ UNCHANGED <<press, pointer, powered, button, lost>>

(* A scroll, a second of the clock, or output of a program in Terminal. *)
Redraw == powered /\ gui' = MarkDirty(gui) /\ UNCHANGED <<press, pointer, powered, button, lost>>
FlushDirty == powered /\ gui' = [gui EXCEPT !.dirty = "clean"] /\ UNCHANGED <<press, pointer, powered, button, lost>>

PowerOn ==
  /\ gui' = Desktop /\ press' = [at |-> CHOOSE p \in Points : TRUE, hit |-> NoHit]
  /\ pointer' = "none" /\ powered' = TRUE /\ button' = "up" /\ lost' = FALSE

Init ==
  /\ gui = Desktop /\ press = [at |-> CHOOSE p \in Points : TRUE, hit |-> NoHit]
  /\ pointer = "none" /\ powered = TRUE /\ button = "up" /\ lost = FALSE

Next ==
  \/ \E p \in Points : Press(p) \/ Release(p)
  \/ LoseRelease \/ Drag \/ Key \/ Redraw \/ FlushDirty
  \/ ~ powered /\ PowerOn

Spec == Init /\ [][Next]_vars

-----------------------------------------------------------------------------
Desktops ==
  [open : SUBSET Apps, mode : [Apps -> {"normal", "minimized", "maximized"}], focused : SUBSET Apps,
   z : [Apps -> Nat], counter : Nat, menu : BOOLEAN, dirty : {"clean", "rect", "full"}]
TypeOK ==
  /\ gui \in Desktops
  /\ pointer \in {"none", "drag", "resize"} /\ powered \in BOOLEAN

(* At most one window has the focus, it is open, and its z is above that   *)
(* of every other one, so that hit_test finds it wherever its frame is.    *)
(* The window may be minimized, and the keys of a utility window go to the *)
(* Terminal all the same; the order in which draw paints is another one.   *)
WellStacked(s) ==
  /\ s.focused \subseteq s.open
  /\ \A a \in Apps : s.z[a] =< s.counter
  /\ \A a \in s.focused, b \in Apps : b # a => s.z[b] < s.z[a]
FocusedOnTop ==
  /\ WellStacked(gui)
  /\ \A a \in gui.focused, p \in Points : a \in Over(gui, p) => HitTest(gui, p).app = a

(* As long as no release is dropped, windows move only while the button is *)
(* down, and what moves is a visible window that is not maximized.         *)
DragTargetVisible ==
  pointer # "none" /\ ~ lost =>
    button # "up" /\ press.hit.app \in Visible(gui) /\ gui.mode[press.hit.app] # "maximized"

(* Whatever changes what is on the screen asks for a repaint (initialize   *)
(* paints the first picture itself).                                       *)
Picture(s) == <<Visible(s), s.open, s.mode, s.focused, s.z, s.menu>>
ChangesAreShown == [][powered /\ Picture(gui') # Picture(gui) => gui'.dirty = "full"]_vars
=============================================================================
