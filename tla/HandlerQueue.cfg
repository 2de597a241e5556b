\* Two devices come and go while messages wait in the Handler queue.
CONSTANTS
  s1 = s1  s2 = s2
  a1 = a1  a2 = a2  a3 = a3
  d1 = d1  d2 = d2
  c1 = c1  c2 = c2
  None = None
  Socket = {s1, s2}
  AcceptThreads = {a1, a2}
  Device = {d1, d2}
  Remote <- MCRemote
  ListenMayFail = FALSE
  AcceptMayFail = FALSE
  Chunk = {c1, c2}
  MaxQueue = 2
SPECIFICATION UtilSpec
SYMMETRY Symmetric
INVARIANTS UtilTypeOK ListenerIsRight LastReadIsIntact AnswerFollowsAsker
PROPERTY ImplementsSession
