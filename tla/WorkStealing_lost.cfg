\* An answer that arrives while the thief gives up.
SPECIFICATION Spec
CONSTANTS
  Threads = {t1, t2}
  Contexts = {c1, c2, c3}
  NoStealRequest = NoStealRequest
  NoStealResponse = NoStealResponse
  Null = Null
  StealHalf = FALSE
  MayThrow = FALSE
  MaxRounds = 1
SYMMETRY Symmetry
INVARIANT AllContextsExecuted
