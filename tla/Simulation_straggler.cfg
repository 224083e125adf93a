\* A message that arrives after its receiver has passed its time.
SPECIFICATION Spec
CONSTANTS
  Threads = {t1, t2}
  Contexts = {c1, c2}
  Tasks = {m1, m2, m3, m4}
  None = None
  lookahead = 1
  endtime = 8
  TimeMod = 10
  StartTimes = {0, 3, 6}
  Delays = {0}
INVARIANT EventsInOrder
