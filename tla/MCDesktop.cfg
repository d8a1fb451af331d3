SPECIFICATION DesktopSpec
CONSTANTS
  Utility = {"files"}
  Points <- AllPoints
VIEW View
INVARIANTS
  FocusedOnTop
  DragTargetVisible
  FrameUsable
  RestoreGivesBack
  EchoIsCommand
  RecallsTheLog
  CleanIsStored
PROPERTIES
  ChangesAreShown
