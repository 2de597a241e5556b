\* Three connections alive at a time, and a Bluetooth stack whose listen(), create and
\* accept() may fail; a process that died stops.
CONSTANTS
  s1 = s1  s2 = s2  s3 = s3
  a1 = a1  a2 = a2  a3 = a3  a4 = a4
  d1 = d1  d2 = d2
  None = None
  Socket = {s1, s2, s3}
  AcceptThreads = {a1, a2, a3}
  Device = {d1, d2}
  Remote <- MCRemote
  ListenMayFail = TRUE
  AcceptMayFail = TRUE
SPECIFICATION Spec
SYMMETRY Symmetric
CHECK_DEADLOCK FALSE
INVARIANTS ConnectedHasThread OneConnection Inductive
PROPERTIES OnlyAttemptTakesOver OnlyResetOrphans ListenersRenewed
