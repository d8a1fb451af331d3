SPECIFICATION TasksSpec
CONSTANTS
  TASKS = 4
  QUANTUM = 2
  Returning = {1, 2, 3}
INVARIANTS
  RunsItsOwn
  BoundedWait
PROPERTIES
  TasksKeepRunning
  ScreenSettles
