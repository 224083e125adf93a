\* An uneven tree: one participant starts at the root, two a level below; every
\* order of the keys, ties included, three rounds.
SPECIFICATION FairSpec
CONSTANTS
  N = 3
  Keys = {1, 2, 3}
  MaxRounds = 3
INVARIANTS TypeOK OnePerSlot DataRaceFree SomebodyMoves
PROPERTIES ComputesMinimum AlwaysReturns
