----------------------------- MODULE MCScheduler -----------------------------
(***************************************************************************)
(* The scheduler, and the screen that the boot task composes, one at a     *)
(* time.  They share no variable, so the one chosen at the start takes     *)
(* steps and the other stays in an initial state.                          *)
(***************************************************************************)
EXTENDS Scheduler

VARIABLES part, x, style, mouse, screen, dirty, full_repaint, dirty_rect,
          saved, overlay, background, pc
display == <<x, style, mouse, screen, dirty, full_repaint, dirty_rect, saved, overlay, background, pc>>

(* One line of four pixels with a window of two and a cursor of one. *)
Gui == INSTANCE Compositor WITH
  WIDTH <- 4, WINDOW_W <- 2, CURSOR_W <- 1, CURSOR_OVERLAY_MARGIN <- 1, CURSOR_OVERLAY_MAX_W <- 3

TasksInit ==
  /\ part \in {"scheduler", "display"}
  /\ Init
  /\ Gui!Init /\ (part # "display" => x = 0 /\ mouse = 0)

Schedules(A) == part = "scheduler" /\ A /\ UNCHANGED <<part, display>>
Shows(A) == part = "display" /\ A /\ UNCHANGED <<part, vars>>
TasksNext == Schedules(Next) \/ Shows(Gui!Next)

(* Only one part takes steps, so fairness for a step of one and a step of  *)
(* the other is the same as fairness for their disjunction.                *)
TasksSpec ==
  /\ TasksInit /\ [][TasksNext]_<<part, vars, display>>
  /\ WF_<<vars, display>>(Schedules(Pit) \/ Shows(Gui!DrawCursor))
  /\ WF_vars(Schedules(TimerInterrupt)) /\ WF_vars(Schedules(SyscallEnds))
  /\ WF_vars(Schedules(ExitTrapHalts)) /\ SF_display(Shows(Gui!FlushDirty))

-----------------------------------------------------------------------------
(* scheduler.c: every task that has not returned runs again and again      *)
(* (EveryTaskRuns).                                                        *)
TasksKeepRunning == part = "scheduler" => EveryTaskRuns

(* gui.cpp: when the windows stop changing, the screen comes to show them  *)
(* and the cursor.                                                         *)
ScreenSettles == part = "display" => Gui!ScreenSettles
=============================================================================
