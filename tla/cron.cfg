\* Two units from tick to tick, jobs that end before and after their timeout, WhenTimeouts
\* that return before and after such a job, and an OnStartup that two ticks fall into.
SPECIFICATION FairSpec
CONSTANTS
  Interval = 2
  Durations = {1, 3}
  Startups = {0, 4}
  Callbacks = {0, 1, 2}
  MaxTime = 5
INVARIANTS
  TypeOK
  EveryTickRuns
  ErrorReported
  LateErrorFate
  SlowRunTimesOut
  LeftBehindIsTold
PROPERTY ShutdownFollows
\* The clock stops, and a nil function may end the process.
CHECK_DEADLOCK FALSE
