\* Tasks that are busy only up to the next event and wake others for any time.
SPECIFICATION FairSpec
CONSTANTS
  Tasks = {m1, m2, m3}
  NoTask = NoTask
  MaxTime = 3
  Priorities = {0, 1}
  WaitsPass = FALSE
INVARIANTS TypeOK NoTaskLost
PROPERTIES OnlyWokenAreLost FirstTaskRuns ClockAdvances AllDueExecuted ExecutionReturns
