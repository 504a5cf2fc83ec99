\* An Opt that is used for three calls.
SPECIFICATION Spec
CONSTANT MaxCalls = 3
INVARIANTS
  FreshAnswer
  NothingLeaks
PROPERTY CallReturns
\* The last call returns.
CHECK_DEADLOCK FALSE
