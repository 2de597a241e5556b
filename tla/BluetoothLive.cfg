\* A Bluetooth stack that does not fail by itself, and fair scheduling.
CONSTANTS
  s1 = s1  s2 = s2  s3 = s3
  a1 = a1  a2 = a2  a3 = a3  a4 = a4
  d1 = d1  d2 = d2
  None = None
  Socket = {s1, s2}
  AcceptThreads = {a1, a2}
  Device = {d1, d2}
  Remote <- MCRemote
  ListenMayFail = FALSE
  AcceptMayFail = FALSE
SPECIFICATION FairSpec
INVARIANT NoNullReference
PROPERTIES LossIsNoticed AttemptResolves CancelledThreadsEnd
