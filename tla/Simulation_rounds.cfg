\* Two threads, two contexts, three tasks, several rounds.
SPECIFICATION FairSpec
CONSTANTS
  Threads = {t1, t2}
  Contexts = {c1, c2}
  Tasks = {m1, m2, m3}
  None = None
  lookahead = 1
  endtime = 6
  TimeMod = 8
  StartTimes = {0, 2}
  Delays = {0, 1}
INVARIANTS TypeOK LittleLeftOver
PROPERTIES ThresholdAdvances Conservative SimulationEnds
