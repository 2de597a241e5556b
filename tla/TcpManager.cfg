\* Two connection attempts that overlap, two messages, a failing network, fair threads.
CONSTANTS
  t1 = t1  t2 = t2  t3 = t3
  None = None
  Thread = {t1, t2}
  MaxMessage = 2
  NetMayFail = TRUE
SPECIFICATION FairSpec
CHECK_DEADLOCK FALSE
INVARIANTS TypeOK RunningHasSocket NullNeedsStop
PROPERTIES DeadIsNoticed WatchDogsEnd ImplementsMessageQueue
