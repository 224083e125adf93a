\* A task that wakes another for the present.
SPECIFICATION Spec
CONSTANTS
  Tasks = {m1, m2, m3}
  NoTask = NoTask
  MaxTime = 3
  Priorities = {0, 1}
  WaitsPass = FALSE
INVARIANT RunningIsAtStart
