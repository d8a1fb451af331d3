----------------------------- MODULE Compositor -----------------------------
(***************************************************************************)
(* From the desktop's state to the pixels: dirty rectangles, the copy of   *)
(* the back buffer, and the cursor drawn over the screen with the pixels   *)
(* below it saved (kernel/gui/core/gui.cpp).                               *)
(*                                                                         *)
(* One row of pixels and one window on it; style is whatever else a window *)
(* shows.  The mouse interrupt moves the pointer at any time, also between *)
(* the two reads of it in redraw_cursor_overlay.                           *)
(***************************************************************************)
EXTENDS Integers, FiniteSets

CONSTANTS WIDTH, WINDOW_W, CURSOR_W,
          CURSOR_OVERLAY_MARGIN, CURSOR_OVERLAY_MAX_W

Pixel == 0 .. WIDTH - 1
Cursor == <<"cursor", 0>>

VARIABLES x, style,                       \* the window
          mouse,                          \* mouse_x()
          screen,
          dirty, full_repaint, dirty_rect,
          saved, overlay, background,     \* cursor_overlay_*
          pc                              \* in redraw_cursor_overlay, between the reads of mouse
vars == <<x, style, mouse, screen, dirty, full_repaint, dirty_rect, saved, overlay, background, pc>>

(* GuiSystem::draw, into the back buffer. *)
Scene == [p \in Pixel |-> IF p \in x .. x + WINDOW_W - 1 THEN <<"window", style>> ELSE <<"desktop", 0>>]

(* Rectangles are their two ends; an empty one has lo = hi. *)
Rect(lo, hi) == [lo |-> lo, hi |-> hi]
Empty == Rect(0, 0)
In(p, r) == r.lo =< p /\ p < r.hi
Clip(lo, hi) == Rect(IF lo < 0 THEN 0 ELSE lo, IF hi > WIDTH THEN WIDTH ELSE hi)

(* cursor_overlay_rect_at. *)
OverlayAt(m) ==
  LET r == Clip(m - CURSOR_OVERLAY_MARGIN, m + CURSOR_W + CURSOR_OVERLAY_MARGIN)
  IN  IF r.hi - r.lo > CURSOR_OVERLAY_MAX_W THEN Rect(r.lo, r.lo + CURSOR_OVERLAY_MAX_W) ELSE r

-----------------------------------------------------------------------------
Init ==
  /\ x \in 0 .. WIDTH - WINDOW_W /\ style = 0 /\ mouse \in Pixel
  /\ screen = Scene /\ dirty = TRUE /\ full_repaint = TRUE /\ dirty_rect = Empty
  /\ saved = FALSE /\ overlay = Empty /\ background = [p \in Pixel |-> Cursor] /\ pc = "idle"

MouseInterrupt ==
  /\ mouse' \in Pixel \ {mouse}
  /\ UNCHANGED <<x, style, screen, dirty, full_repaint, dirty_rect, saved, overlay, background, pc>>

(* Anything that ends in mark_dirty. *)
Change ==
  /\ pc = "idle" /\ style' = 1 - style /\ dirty' = TRUE /\ full_repaint' = TRUE
  /\ UNCHANGED <<x, mouse, screen, dirty_rect, saved, overlay, background, pc>>

(* Mutant: the last rectangle replaces the others. *)
InvalidateLast(old, r) == r

(* The rectangle after invalidate_rect(r). *)
Invalidate(old, r) ==
  IF old = Empty THEN r ELSE Rect(IF old.lo < r.lo THEN old.lo ELSE r.lo, IF old.hi > r.hi THEN old.hi ELSE r.hi)

(* handle_mouse_drag invalidates the old and the new place of the window. *)
Drag ==
  LET Place(at) == Clip(at, at + WINDOW_W)
      old == IF ~ dirty \/ full_repaint THEN Empty ELSE dirty_rect
      first == Invalidate(old, Place(x))
  IN  /\ pc = "idle" /\ x' \in 0 .. WIDTH - WINDOW_W
      /\ dirty' = TRUE
      /\ dirty_rect' = Invalidate(IF full_repaint THEN Empty ELSE first, Place(x'))
      /\ UNCHANGED <<style, mouse, screen, full_repaint, saved, overlay, background, pc>>

-----------------------------------------------------------------------------
Restored == [p \in Pixel |-> IF saved /\ In(p, overlay) THEN background[p] ELSE screen[p]]

(* redraw_cursor_overlay up to the second read of the pointer; what is not *)
(* in the rectangle is never read from the background.                     *)
SaveBelowCursor(pixels) ==
  /\ overlay' = OverlayAt(mouse) /\ saved' = TRUE
  /\ background' = [p \in Pixel |-> IF In(p, OverlayAt(mouse)) THEN pixels[p] ELSE Cursor]
  /\ screen' = pixels /\ pc' = "draw"

(* restore_cursor_overlay, draw and graphics_blit or graphics_blit_rect. *)
Blit ==
  LET Copied(p) == full_repaint \/ dirty_rect = Empty \/ In(p, dirty_rect)
  IN  [p \in Pixel |-> IF Copied(p) THEN Scene[p] ELSE Restored[p]]

FlushDirty ==
  /\ pc = "idle" /\ dirty
  /\ dirty' = FALSE /\ full_repaint' = FALSE /\ dirty_rect' = Empty
  /\ SaveBelowCursor(Blit)
  /\ UNCHANGED <<x, style, mouse>>

(* A mouse event, or flush_dirty with nothing to repaint. *)
RedrawCursor ==
  /\ pc = "idle" /\ ~ (saved /\ overlay = OverlayAt(mouse))
  /\ SaveBelowCursor(Restored)
  /\ UNCHANGED <<x, style, mouse, dirty, full_repaint, dirty_rect>>

(* assets_draw_cursor, where the pointer is now. *)
DrawCursor ==
  /\ pc = "draw" /\ pc' = "idle"
  /\ screen' = [p \in Pixel |-> IF p \in mouse .. mouse + CURSOR_W - 1 THEN Cursor ELSE screen[p]]
  /\ UNCHANGED <<x, style, mouse, dirty, full_repaint, dirty_rect, saved, overlay, background>>

Next == MouseInterrupt \/ Change \/ Drag \/ FlushDirty \/ RedrawCursor \/ DrawCursor

(* The loop of GuiSystem::run handles at most 64 events before it flushes. *)
Spec == Init /\ [][Next]_vars /\ SF_vars(FlushDirty) /\ WF_vars(DrawCursor)

-----------------------------------------------------------------------------
(* If the desktop stops changing, the screen comes to show it whatever the *)
(* mouse does.                                                             *)
ScreenSettles == <>[][UNCHANGED <<x, style>>]_vars => <>[](\A p \in Pixel : screen[p] \in {Scene[p], Cursor})
=============================================================================
