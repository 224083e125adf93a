\* A null answer to an earlier, cancelled request.
SPECIFICATION Spec
CONSTANTS
  Threads = {t1, t2, t3}
  Contexts = {c1, c2, c3, c4}
  NoStealRequest = NoStealRequest
  NoStealResponse = NoStealResponse
  Null = Null
  StealHalf = FALSE
  MayThrow = FALSE
  MaxRounds = 1
SYMMETRY Symmetry
INVARIANT ResponseStaysValid
