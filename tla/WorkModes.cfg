SPECIFICATION Spec
CONSTANTS
  Executor = {e1}
  MaxWifis = 1
  MaxTry = 2
INVARIANT OneModeWorks
INVARIANT NullNeedsOverlap
INVARIANT StartedIsHeard
PROPERTY FallbackStarts
CHECK_DEADLOCK FALSE
