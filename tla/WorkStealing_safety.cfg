\* Three threads of which one has all the contexts, two rounds; any
\* execute_until() may throw.
SPECIFICATION Spec
CONSTANTS
  Threads = {t1, t2, t3}
  Contexts = {c1, c2}
  NoStealRequest = NoStealRequest
  NoStealResponse = NoStealResponse
  Null = Null
  StealHalf = TRUE
  MayThrow = TRUE
  MaxRounds = 2
SYMMETRY Symmetry
INVARIANTS TypeOK CountIsInactive OneList ThiefIsBlocked AnswerInPlace
PROPERTY AtMostOncePerRound
\* After an exception the others wait for ever in the tournament tree.
CHECK_DEADLOCK FALSE
