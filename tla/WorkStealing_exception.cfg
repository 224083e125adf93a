\* The others wait for a competitor that has left.
SPECIFICATION FairSpec
CONSTANTS
  Threads = {t1, t2}
  Contexts = {c1, c2}
  NoStealRequest = NoStealRequest
  NoStealResponse = NoStealResponse
  Null = Null
  StealHalf = FALSE
  MayThrow = TRUE
  MaxRounds = 1
PROPERTY ExceptionEndsSimulation
CHECK_DEADLOCK FALSE
