\* A task that is busy until after the next event of its context.
SPECIFICATION Spec
CONSTANTS
  Tasks = {m1, m2, m3}
  NoTask = NoTask
  MaxTime = 3
  Priorities = {0, 1}
  WaitsPass = TRUE
PROPERTY ClockAdvances
