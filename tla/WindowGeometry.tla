--------------------------- MODULE WindowGeometry ---------------------------
(***************************************************************************)
(* Where a window is: the default places of the applications, dragging and *)
(* resizing (kernel/gui/wm/window_manager.cpp), maximizing, minimizing and *)
(* reopening, in pixels, on the screens the system runs on.  A drag is one *)
(* step from any point of the title bar to any of a few screen positions.  *)
(***************************************************************************)
EXTENDS Integers

CONSTANTS Screens      \* width and height of the framebuffers

WINDOW_MIN_W == 168
WINDOW_MIN_H == 82
TITLEBAR_H == 18
Apps == {"terminal", "files", "monitor", "about", "notepad"}

VARIABLES app, metrics, opened, mode, win, restore,
          chosen       \* history: the frame last chosen by default, drag or resize
vars == <<app, metrics, opened, mode, win, restore, chosen>>

Least(a, b) == IF a < b THEN a ELSE b
Most(a, b) == IF a < b THEN b ELSE a

(* GuiSystem::initialize. *)
Metrics(s) == [width |-> s[1], height |-> s[2], taskbar_h |-> IF s[2] >= 480 THEN 30 ELSE 22]
DesktopH(m) == m.height - m.taskbar_h

TerminalGeometry(m) ==
  LET w0 == IF m.width > 96 THEN m.width - 96 ELSE 244
      h0 == IF m.height > 140 THEN DesktopH(m) - 74 ELSE 134
      w == Least(Most(Least(w0, 640), WINDOW_MIN_W), m.width - 8)
      h == Least(Most(Least(h0, 360), 134), DesktopH(m) - 8)
  IN  [x |-> (m.width - w) \div 2, y |-> IF m.height > 260 THEN 42 ELSE 26, w |-> w, h |-> h]

UtilityGeometry(m, kind) ==
  LET w == Most(Least(IF m.width >= 640 THEN 360 ELSE 230, m.width - 12), WINDOW_MIN_W)
      h == Most(Least(IF m.height >= 480 THEN 260 ELSE 150, DesktopH(m) - 12), WINDOW_MIN_H)
      offset == CASE kind = "files" -> -36 [] kind = "monitor" -> 16 [] OTHER -> 56
      y == IF m.height > 260 THEN 58 + (offset \div 4) ELSE 30
  IN  [x |-> Most((m.width - w) \div 2 + offset, 4), y |-> Most(y, 4), w |-> w, h |-> h]

NotepadGeometry(m) ==
  LET w == Most(Least(IF m.width >= 640 THEN 430 ELSE 248, m.width - 10), WINDOW_MIN_W)
      h == Most(Least(IF m.height >= 480 THEN 300 ELSE 160, DesktopH(m) - 10), WINDOW_MIN_H)
  IN  [x |-> (m.width - w) \div 2 + 28, y |-> IF m.height > 260 THEN 72 ELSE 24, w |-> w, h |-> h]

DefaultGeometry(a, m) ==
  CASE a = "terminal" -> TerminalGeometry(m)
    [] a = "notepad" -> NotepadGeometry(m)
    [] OTHER -> UtilityGeometry(m, a)

Maximized(m) == [x |-> 2, y |-> 4, w |-> m.width - 4, h |-> DesktopH(m) - 6]

-----------------------------------------------------------------------------
(* Mutant: only the right and lower edges are kept. *)
UpdateDragRightOnly(r, x, y, m) ==
  [r EXCEPT !.x = Least(x, m.width - r.w), !.y = Least(y, DesktopH(m) - r.h)]

(* update_drag, with the pointer less the drag offset at (x, y). *)
UpdateDrag(r, x, y, m) ==
  [r EXCEPT !.x = Least(Most(x, 0), m.width - r.w), !.y = Least(Most(y, 0), DesktopH(m) - r.h)]

UpdateResize(r, x, y, m) ==
  [r EXCEPT !.w = Least(Most(x - r.x + 1, WINDOW_MIN_W), m.width - r.x),
            !.h = Least(Most(y - r.y + 1, WINDOW_MIN_H), DesktopH(m) - r.y)]

-----------------------------------------------------------------------------
Init ==
  /\ app \in Apps /\ metrics \in {Metrics(s) : s \in Screens}
  /\ opened = FALSE /\ mode = "normal"
  /\ win = DefaultGeometry(app, metrics) /\ restore = win /\ chosen = win

(* open_window; that of an open utility window changes nothing here. *)
Open ==
  /\ \/ /\ ~ opened /\ opened' = TRUE /\ mode' = "normal"
        /\ win' = DefaultGeometry(app, metrics) /\ restore' = win' /\ chosen' = win'
     \/ /\ opened /\ UNCHANGED <<opened, win, restore, chosen>>
        /\ \/ app = "terminal" /\ mode = "minimized"
           \/ app = "notepad"
        /\ mode' = "normal"
  /\ UNCHANGED <<app, metrics>>

Close == opened /\ opened' = FALSE /\ mode' = "normal" /\ UNCHANGED <<app, metrics, win, restore, chosen>>
Minimize == opened /\ mode' = "minimized" /\ UNCHANGED <<app, metrics, opened, win, restore, chosen>>

(* Mutant: the frame is saved after it was changed. *)
ToggleMaximizeSavesLate ==
  /\ opened /\ mode # "minimized"
  /\ \/ mode = "maximized" /\ mode' = "normal" /\ win' = restore /\ UNCHANGED restore
     \/ mode = "normal" /\ mode' = "maximized" /\ win' = Maximized(metrics) /\ restore' = win'
  /\ UNCHANGED <<app, metrics, opened, chosen>>

ToggleMaximize ==
  /\ opened /\ mode # "minimized"
  /\ \/ mode = "maximized" /\ mode' = "normal" /\ win' = restore /\ UNCHANGED restore
     \/ mode = "normal" /\ mode' = "maximized" /\ restore' = win /\ win' = Maximized(metrics)
  /\ UNCHANGED <<app, metrics, opened, chosen>>

(* hit_window finds the title bar or the corner of a window that is not    *)
(* maximized; the pointer then moves anywhere on the screen.               *)
Places(n) == {0, n \div 3, n - 1}
Move(frame) ==
  /\ opened /\ mode = "normal"
  /\ win' = frame /\ chosen' = IF frame = win THEN chosen ELSE frame
  /\ UNCHANGED <<app, metrics, opened, mode, restore>>

Drag ==
  \E ox \in {0, win.w - 49}, oy \in {0, TITLEBAR_H + 1}, px \in Places(metrics.width), py \in Places(metrics.height) :
    /\ win.x + ox < metrics.width /\ win.y + oy < metrics.height
    /\ Move(UpdateDrag(win, px - ox, py - oy, metrics))

Resize ==
  \E px \in Places(metrics.width), py \in Places(metrics.height) :
    /\ win.x + win.w - 10 < metrics.width /\ win.y + win.h - 10 < metrics.height
    /\ Move(UpdateResize(win, px, py, metrics))

Next == Open \/ Close \/ Minimize \/ ToggleMaximize \/ Drag \/ Resize

Spec == Init /\ [][Next]_vars

-----------------------------------------------------------------------------
(* Whatever was done to it, an open window keeps its least size and its    *)
(* buttons: the frame begins on the screen and the button that closes it   *)
(* is at least partly on the screen, above the taskbar.                    *)
FrameUsable ==
  opened =>
    /\ win.x >= 0 /\ win.y >= 0 /\ win.w >= WINDOW_MIN_W /\ win.h >= WINDOW_MIN_H
    /\ win.x + win.w - 18 < metrics.width /\ win.y + 4 + 11 =< DesktopH(metrics)

(* docs/ROADMAP.md:151-152, "minimize, maximize, restore": what a          *)
(* maximized utility window will be restored to is the frame chosen for it *)
(* (Terminal and Notepad may have forgotten it when they were reopened).   *)
RestoreGivesBack ==
  opened /\ mode = "maximized" /\ app \notin {"terminal", "notepad"} => restore = chosen
=============================================================================
