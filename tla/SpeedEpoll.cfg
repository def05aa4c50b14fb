CONSTANTS
  t1 = t1
  t2 = t2
  f1 = f1
  f2 = f2
  f3 = f3
  Server = Server
  None = None
  Threads = {t1, t2}
  Fds = {f1, f2}
  BatchSize = 2
  Heartbeats = FALSE
  GrowAt = {1}
  Faults = {}
  MaxAccepts = 3
SPECIFICATION FairSpec
INVARIANT OneThreadPerClient
INVARIANT NoForgottenDescriptor
INVARIANT ClosedMeansClosed
PROPERTY OnlyGrowthDangles
PROPERTY DataIsRead
