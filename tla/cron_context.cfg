SPECIFICATION Spec
CONSTANTS
  Interval = 2
  Durations = {0}
  Startups = {0}
  Callbacks = {0}
  MaxTime = 4
PROPERTY StartsWithLiveContext
CHECK_DEADLOCK FALSE
