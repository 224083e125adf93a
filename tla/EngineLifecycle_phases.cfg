\* Four workers on three cores, a share that does not come out even; a thread may
\* not be created, and its affinity not set when the process may not use the core.
SPECIFICATION FairSpec
CONSTANTS
  num_threads = 4
  Participants = {0, 1, 2, 3, 4}
  ncontexts = 5
  num_cores = 3
  Generations = 2
  CreateMayFail = TRUE
INVARIANTS TypeOK ContextsCollected PhasesAreSeparate NoLostWakeup SomebodyMoves
PROPERTIES MeetingsAreComplete CallsReturn FailedAffinityStops
