\* One round, one thread with two contexts: steals succeed, fail and are cancelled.
SPECIFICATION FairSpec
CONSTANTS
  Threads = {t1, t2, t3}
  Contexts = {c1, c2}
  NoStealRequest = NoStealRequest
  NoStealResponse = NoStealResponse
  Null = Null
  StealHalf = FALSE
  MayThrow = FALSE
  MaxRounds = 1
PROPERTY RoundTerminates
