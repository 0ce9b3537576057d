SPECIFICATION WorkerSpec
CONSTANTS
  MaxStarts = 2
  MaxStops = 1
  MaxCommits = 2
  Overlap = FALSE
INVARIANTS NoSleepOnWork StopIsQuiet
PROPERTIES StopEnds WorkIsDone
CHECK_DEADLOCK FALSE
